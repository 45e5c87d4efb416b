----------------------------- MODULE DataBlock ------------------------------
(***************************************************************************)
(* DataBlockProducer and DataBlockConsumer over the slots of SlotRW        *)
(* (src/utils/shm/data_block.cpp): the ring indices of the header, the     *)
(* three consumer sync policies, the consumer heartbeat table with its     *)
(* per-consumer read positions, and the producer that is replaced when it  *)
(* dies.  Every action that touches a slot is an action of SlotRW.         *)
(***************************************************************************)
EXTENDS SlotRW

CONSTANTS
    Cap,               \* slot_count
    HbCount,           \* MAX_CONSUMER_HEARTBEATS
    Policies,          \* the consumer_sync_policy values to consider
    ChecksumEnforced,  \* ChecksumPolicy::Enforced with a flexible zone
    LateJoin,          \* consumers may attach after the first claim
    MaxSlotId,         \* bound: slot_ids the producer claims
    MaxDeadProducers,  \* bound: producers that may die
    MaxDeadConsumers   \* bound: consumers that may die

WORD == 65536          \* stands for 2^64 in unsigned differences

ASSUME DataBlockAssumption ==
    /\ Cap \in Nat \ {0} /\ MaxSlotId \in Nat
    /\ 2 * Cap < WORD                    \* slot_count is a uint32_t
    /\ MaxDeadProducers \in Nat /\ MaxDeadConsumers \in Nat
    /\ Slots = 0 .. Cap - 1
    /\ Ids = 0 .. MaxSlotId
    /\ CWriters = {}
    /\ NoPid \notin Readers
    /\ Policies \subseteq {"Latest_only", "Sequential", "Sequential_sync"}
    /\ HbCount \in Nat
    /\ ChecksumEnforced \in BOOLEAN /\ LateJoin \in BOOLEAN

Consumers == Readers
HbSlots == 0 .. HbCount - 1
NoHb == -1             \* heartbeat_slot of an unregistered consumer

VARIABLES
    policy,                    \* header: consumer_sync_policy
    write_index, read_index,   \* header: ring indices
    consumer_pid, position,    \* header: heartbeat table, next-read positions
    producer, ppc,             \* the attached producer and its phase
    cpc, hb, slot_id, ok,      \* consumer: phase, heartbeat_slot, handle
    last_consumed,             \* last_consumed_slot_id
    scan, min_pos              \* locals of the Sequential_sync minimum

indexVars    == <<write_index, read_index>>
producerVars == <<producer, ppc>>
consumerVars == <<cpc, hb, slot_id, ok, last_consumed, scan, min_pos>>
tableVars    == <<consumer_pid, position>>
dbVars == <<policy, indexVars, tableVars, producerVars, consumerVars>>
vars   == <<slotRWVars, dbVars>>

Ordered == policy \in {"Sequential", "Sequential_sync"}

DeadProducers == {w \in Writers : wpc[w] = "dead"}
DeadConsumers == {c \in Consumers : cpc[c] = "dead"}

(***************************************************************************)
(* DataBlockProducer                                                       *)
(***************************************************************************)
\* Variant: one slot too many fits the ring.
RingCheckOffByOne(w) ==
    /\ producer = w /\ ppc = "idle" /\ wpc[w] = "idle"
    /\ write_index <= MaxSlotId
    /\ Ordered => (write_index - read_index) % WORD <= Cap
    /\ ppc' = "claim"
    /\ UNCHANGED <<slotRWVars, policy, indexVars, tableVars, producer,
                   consumerVars>>

\* acquire_write_slot up to the claim: Sequential policies spin until the
\* ring has room (a timeout returns nullptr and changes nothing).
RingCheck(w) ==
    /\ producer = w /\ ppc = "idle" /\ wpc[w] = "idle"
    /\ write_index <= MaxSlotId
    /\ Ordered => (write_index - read_index) % WORD < Cap
    /\ ppc' = "claim"
    /\ UNCHANGED <<slotRWVars, policy, indexVars, tableVars, producer,
                   consumerVars>>

\* Variant: the ring is taken one slot too long.
ClaimSlotWrongModulus(w) ==
    /\ producer = w /\ ppc = "claim"
    /\ BeginAcquireWrite(w, write_index % (Cap + 1), write_index)
    /\ write_index' = write_index + 1
    /\ ppc' = "slot"
    /\ UNCHANGED <<policy, read_index, tableVars, producer, consumerVars>>

\* Variant: the incremented index is published for the slot of the old one.
ClaimSlotPostIncrement(w) ==
    /\ producer = w /\ ppc = "claim"
    /\ BeginAcquireWrite(w, write_index % Cap, write_index + 1)
    /\ write_index' = write_index + 1
    /\ ppc' = "slot"
    /\ UNCHANGED <<policy, read_index, tableVars, producer, consumerVars>>

\* write_index.fetch_add(1), then acquire_write of that slot is entered.
ClaimSlot(w) ==
    /\ producer = w /\ ppc = "claim"
    /\ BeginAcquireWrite(w, write_index % Cap, write_index)
    /\ write_index' = write_index + 1
    /\ ppc' = "slot"
    /\ UNCHANGED <<policy, read_index, tableVars, producer, consumerVars>>

\* acquire_write and the application's copy into the buffer.
AcquireAndFill(w) ==
    /\ \/ LockWrite(w) \/ LoadState(w) \/ EnterDraining(w) \/ Drained(w)
       \/ StartWriting(w) \/ FillBuffer(w)
    /\ UNCHANGED dbVars

\* Phase 1 timeout: acquire_write_slot returns nullptr, slot_id is burned.
AcquireTimeout(w) ==
    /\ LockTimeout(w)
    /\ ppc' = "idle"
    /\ UNCHANGED <<policy, indexVars, tableVars, producer, consumerVars>>

\* release_write_handle, committed: commit_write then the lock.
CommitHandle(w) ==
    /\ \/ CommitGeneration(w) \/ CommitState(w) \/ PublishCommit(w)
    /\ UNCHANGED dbVars

\* release_write_handle, not committed: FREE, lock, write_index.fetch_sub(1).
AbortHandle(w) ==
    \/ Abort(w) /\ UNCHANGED dbVars
    \/ /\ AbortState(w)
       /\ ppc' = "aborted"
       /\ UNCHANGED <<policy, indexVars, tableVars, producer, consumerVars>>

ReleaseLock(w) ==
    /\ Unlock(w)
    /\ ppc' = IF ppc = "aborted" THEN "undo" ELSE "idle"
    /\ UNCHANGED <<policy, indexVars, tableVars, producer, consumerVars>>

UndoClaim(w) ==
    /\ producer = w /\ ppc = "undo" /\ wpc[w] = "idle"
    /\ write_index' = write_index - 1
    /\ ppc' = "idle"
    /\ UNCHANGED <<slotRWVars, policy, read_index, tableVars, producer,
                   consumerVars>>

\* check_consumer_health: the heartbeat slots of dead consumers are cleared;
\* positions and read_index are left as they are.
CheckConsumerHealth(w) ==
    /\ producer = w /\ ppc = "idle" /\ wpc[w] = "idle"
    /\ \E i \in HbSlots :
         /\ consumer_pid[i] # NoPid
         /\ cpc[consumer_pid[i]] = "dead"
         /\ consumer_pid' = [consumer_pid EXCEPT ![i] = NoPid]
    /\ UNCHANGED <<slotRWVars, policy, indexVars, position, producerVars,
                   consumerVars>>

CrashProducer(w) ==
    /\ producer = w
    /\ Cardinality(DeadProducers) < MaxDeadProducers
    /\ CrashWriter(w)
    /\ UNCHANGED dbVars

\* attach_datablock_as_writer_impl: a new process continues on the block.
AttachWriter(w) ==
    /\ wpc[producer] = "dead" /\ wpc[w] # "dead"
    /\ producer' = w
    /\ ppc' = "idle"
    /\ UNCHANGED <<slotRWVars, policy, indexVars, tableVars, consumerVars>>

(***************************************************************************)
(* DataBlockConsumer: attach and detach                                    *)
(***************************************************************************)
\* register_heartbeat: CAS 0 -> pid on a free entry of the table; with none
\* free the consumer exists without a heartbeat slot.
RegisterHeartbeat(c) ==
    /\ cpc[c] = "detached"
    /\ LateJoin \/ write_index = 0
    /\ policy = "Sequential" =>           \* "Exactly 1" consumer
          \A d \in Consumers \ {c} : cpc[d] \in {"detached", "dead"}
    /\ \/ \E i \in HbSlots :
            /\ consumer_pid[i] = NoPid
            /\ consumer_pid' = [consumer_pid EXCEPT ![i] = c]
            /\ hb' = [hb EXCEPT ![c] = i]
            /\ cpc' = [cpc EXCEPT ![c] = IF policy = "Sequential_sync"
                                           THEN "join_load" ELSE "ready"]
       \/ /\ \A i \in HbSlots : consumer_pid[i] # NoPid
          /\ cpc' = [cpc EXCEPT ![c] = "ready"]
          /\ UNCHANGED <<consumer_pid, hb>>
    /\ last_consumed' = [last_consumed EXCEPT ![c] = NoSlot]
    /\ UNCHANGED <<slotRWVars, policy, indexVars, position, producerVars,
                   slot_id, ok, scan, min_pos>>

\* find_datablock_consumer_impl, Sequential_sync: join at commit_index.
JoinLoad(c) ==
    /\ cpc[c] = "join_load"
    /\ slot_id' = [slot_id EXCEPT ![c] = IF commit_index = NoSlot
                                           THEN 0 ELSE commit_index]
    /\ cpc' = [cpc EXCEPT ![c] = "join_store"]
    /\ UNCHANGED <<slotRWVars, policy, indexVars, tableVars, producerVars,
                   hb, ok, last_consumed, scan, min_pos>>

JoinStore(c) ==
    /\ cpc[c] = "join_store"
    /\ position' = [position EXCEPT ![hb[c]] = slot_id[c]]
    /\ cpc' = [cpc EXCEPT ![c] = "ready"]
    /\ UNCHANGED <<slotRWVars, policy, indexVars, consumer_pid, producerVars,
                   hb, slot_id, ok, last_consumed, scan, min_pos>>

\* ~DataBlockConsumerImpl: CAS pid -> 0 on the own heartbeat slot.
Detach(c) ==
    /\ cpc[c] = "ready" /\ rpc[c] = "idle"
    /\ consumer_pid' = IF hb[c] # NoHb /\ consumer_pid[hb[c]] = c
                         THEN [consumer_pid EXCEPT ![hb[c]] = NoPid]
                         ELSE consumer_pid
    /\ hb' = [hb EXCEPT ![c] = NoHb]
    /\ cpc' = [cpc EXCEPT ![c] = "detached"]
    /\ UNCHANGED <<slotRWVars, policy, indexVars, position, producerVars,
                   slot_id, ok, last_consumed, scan, min_pos>>

CrashConsumer(c) ==
    /\ cpc[c] \notin {"detached", "dead"}
    /\ Cardinality(DeadConsumers) < MaxDeadConsumers
    /\ CrashReader(c)
    /\ cpc' = [cpc EXCEPT ![c] = "dead"]
    /\ UNCHANGED <<policy, indexVars, tableVars, producerVars, hb, slot_id,
                   ok, last_consumed, scan, min_pos>>

(***************************************************************************)
(* DataBlockConsumer: acquire_consume_slot and release_consume_handle      *)
(***************************************************************************)
\* Variant: a Sequential consumer takes the newest slot.
NextSlotIsNewest(c) ==
    CASE policy = "Latest_only" ->
           IF commit_index = last_consumed[c] THEN NoSlot ELSE commit_index
      [] policy = "Sequential" ->
           IF commit_index = NoSlot \/ commit_index < read_index
             THEN NoSlot ELSE commit_index
      [] policy = "Sequential_sync" ->
           IF \/ hb[c] = NoHb
              \/ commit_index # NoSlot /\ commit_index < position[hb[c]]
             THEN NoSlot ELSE position[hb[c]]

\* get_next_slot_to_read.  INVALID_SLOT_ID is UINT64_MAX, so an unset
\* commit_index is not below a Sequential_sync position.
NextSlotToRead(c) ==
    CASE policy = "Latest_only" ->
           IF commit_index = last_consumed[c] THEN NoSlot ELSE commit_index
      [] policy = "Sequential" ->
           IF commit_index = NoSlot \/ commit_index < read_index
             THEN NoSlot ELSE read_index
      [] policy = "Sequential_sync" ->
           IF \/ hb[c] = NoHb
              \/ commit_index # NoSlot /\ commit_index < position[hb[c]]
             THEN NoSlot ELSE position[hb[c]]

\* One turn of the acquire loop: pick the slot_id, enter acquire_read.  A
\* NOT_READY answer brings the consumer back here (retry or timeout).
AcquireConsumeSlot(c) ==
    /\ cpc[c] = "ready"
    /\ NextSlotToRead(c) # NoSlot
    /\ BeginAcquireRead(c, NextSlotToRead(c) % Cap)
    /\ slot_id' = [slot_id EXCEPT ![c] = NextSlotToRead(c)]
    /\ UNCHANGED <<policy, indexVars, tableVars, producerVars, cpc, hb, ok,
                   last_consumed, scan, min_pos>>

AcquireReadStep(c) ==
    /\ \/ CheckCommitted(c) \/ RegisterReader(c) \/ RecheckCommitted(c)
       \/ UnregisterReader(c) \/ CaptureGeneration(c)
    /\ UNCHANGED dbVars

\* release_consume_handle 1-2: generation and, when Enforced, checksums.  The
\* slot's own checksum holds for stable data; the flexible zone is shared with
\* the producer and may be between a write and its checksum update.
ValidateHandle(c) ==
    /\ EndRead(c)
    /\ \E checksum_ok \in (IF ChecksumEnforced THEN BOOLEAN ELSE {TRUE}) :
         ok' = [ok EXCEPT ![c] = ValidateRead(c) /\ checksum_ok]
    /\ UNCHANGED <<policy, indexVars, tableVars, producerVars, cpc, hb,
                   slot_id, last_consumed, scan, min_pos>>

\* release_consume_handle 3: release_read.  mark_as_consumed distinguishes
\* release_consume_slot from the handle's destructor; last_consumed_slot_id is
\* read by Latest_only alone.
ReleaseHandle(c) ==
    /\ ReleaseRead(c)
    /\ \/ UNCHANGED last_consumed
       \/ /\ policy = "Latest_only"
          /\ last_consumed' = [last_consumed EXCEPT ![c] = slot_id[c]]
    /\ cpc' = [cpc EXCEPT ![c] = IF ok[c] /\ Ordered THEN "advance" ELSE "ready"]
    /\ ok' = [ok EXCEPT ![c] = FALSE]
    /\ UNCHANGED <<policy, indexVars, tableVars, producerVars, hb, slot_id,
                   scan, min_pos>>

\* Variant: the consumed slot_id is stored instead of the next one.
AdvanceToConsumed(c) ==
    /\ cpc[c] = "advance"
    /\ read_index' = slot_id[c]
    /\ cpc' = [cpc EXCEPT ![c] = "ready"]
    /\ UNCHANGED <<slotRWVars, policy, write_index, tableVars, producerVars,
                   hb, slot_id, ok, last_consumed, scan, min_pos>>

\* release_consume_handle 4: read_index = slot_id + 1, or the own position.
AdvancePosition(c) ==
    /\ cpc[c] = "advance"
    /\ IF policy = "Sequential"
         THEN /\ read_index' = slot_id[c] + 1
              /\ cpc' = [cpc EXCEPT ![c] = "ready"]
              /\ UNCHANGED <<position, scan, min_pos>>
         ELSE /\ position' = [position EXCEPT ![hb[c]] = slot_id[c] + 1]
              /\ cpc' = [cpc EXCEPT ![c] = "scan"]
              /\ scan' = [scan EXCEPT ![c] = 0]
              /\ min_pos' = [min_pos EXCEPT ![c] = slot_id[c] + 1]
              /\ UNCHANGED read_index
    /\ UNCHANGED <<slotRWVars, policy, write_index, consumer_pid, producerVars,
                   hb, slot_id, ok, last_consumed>>

\* The minimum over the registered positions, one table entry per step.
ScanPosition(c) ==
    /\ cpc[c] = "scan" /\ scan[c] \in HbSlots
    /\ LET i == scan[c] IN
         min_pos' = [min_pos EXCEPT
            ![c] = IF consumer_pid[i] # NoPid /\ position[i] < @
                     THEN position[i] ELSE @]
    /\ scan' = [scan EXCEPT ![c] = @ + 1]
    /\ UNCHANGED <<slotRWVars, policy, indexVars, tableVars, producerVars, cpc,
                   hb, slot_id, ok, last_consumed>>

StoreMinimum(c) ==
    /\ cpc[c] = "scan" /\ scan[c] \notin HbSlots
    /\ read_index' = min_pos[c]
    /\ cpc' = [cpc EXCEPT ![c] = "ready"]
    /\ scan' = [scan EXCEPT ![c] = 0]
    /\ min_pos' = [min_pos EXCEPT ![c] = 0]
    /\ UNCHANGED <<slotRWVars, policy, write_index, tableVars, producerVars, hb,
                   slot_id, ok, last_consumed>>

(***************************************************************************)
(* Specification                                                           *)
(***************************************************************************)
\* init_producer_state_: the header of a fresh block, one attached producer.
Init ==
    /\ SlotInit
    /\ \A w \in Writers : wslot[w] = 0 /\ wid[w] = 0
    /\ \A c \in Consumers : rslot[c] = 0
    /\ policy \in Policies
    /\ write_index = 0 /\ read_index = 0
    /\ consumer_pid = [i \in HbSlots |-> NoPid]
    /\ position = [i \in HbSlots |-> 0]
    /\ producer \in Writers /\ ppc = "idle"
    /\ cpc = [c \in Consumers |-> "detached"]
    /\ hb = [c \in Consumers |-> NoHb]
    /\ slot_id = [c \in Consumers |-> 0]
    /\ ok = [c \in Consumers |-> FALSE]
    /\ last_consumed = [c \in Consumers |-> NoSlot]
    /\ scan = [c \in Consumers |-> 0]
    /\ min_pos = [c \in Consumers |-> 0]

ProducerStep(w) ==
    \/ RingCheck(w)   \/ ClaimSlot(w)    \/ AcquireAndFill(w)
    \/ CommitHandle(w) \/ ReleaseLock(w) \/ UndoClaim(w)
    \/ AcquireTimeout(w)

ConsumerStep(c) ==
    \/ JoinLoad(c)           \/ JoinStore(c)
    \/ AcquireConsumeSlot(c) \/ AcquireReadStep(c) \/ ValidateHandle(c)
    \/ ReleaseHandle(c)      \/ AdvancePosition(c) \/ ScanPosition(c)
    \/ StoreMinimum(c)

Next ==
    \/ \E w \in Writers :
         \/ ProducerStep(w) \/ AbortHandle(w) \/ CheckConsumerHealth(w)
         \/ CrashProducer(w) \/ AttachWriter(w)
    \/ \E c \in Consumers :
         \/ ConsumerStep(c) \/ RegisterHeartbeat(c) \/ Detach(c)
         \/ CrashConsumer(c)

Spec == Init /\ [][Next]_vars

\* The operating system runs every live thread; an attached consumer that is
\* polling sooner or later polls while it is attached.
Fairness ==
    /\ \A w \in Writers : WF_vars(ProducerStep(w))
    /\ \A c \in Consumers : WF_vars(ConsumerStep(c))
                            /\ WF_vars(RegisterHeartbeat(c))
                            /\ SF_vars(AcquireConsumeSlot(c))

FairSpec == Spec /\ Fairness

(***************************************************************************)
(* Properties                                                              *)
(***************************************************************************)
\* Every word and local has its type (the slot part is SlotTypeOK).
TypeOK ==
    /\ SlotTypeOK
    /\ policy \in Policies
    /\ write_index \in 0 .. MaxSlotId + 1
    /\ read_index \in 0 .. MaxSlotId + 1
    /\ consumer_pid \in [HbSlots -> Consumers \cup {NoPid}]
    /\ position \in [HbSlots -> 0 .. MaxSlotId + 1]
    /\ producer \in Writers
    /\ ppc \in {"idle", "claim", "slot", "aborted", "undo"}
    /\ cpc \in [Consumers -> {"detached", "join_load", "join_store", "ready",
                              "advance", "scan", "dead"}]
    /\ hb \in [Consumers -> HbSlots \cup {NoHb}]
    /\ slot_id \in [Consumers -> 0 .. MaxSlotId + 1]
    /\ ok \in [Consumers -> BOOLEAN]
    /\ last_consumed \in [Consumers -> Ids \cup {NoSlot}]

\* An ordered consumer that was handed slot_id K reads the data of slot_id K:
\* the writer has not lapped it, so no slot is skipped or delivered under the
\* number of another one ("consumer reads every slot in order").
OrderedReadsOwnSlot ==
    \A c \in Consumers : Ordered /\ rpc[c] = "reading" => seen[c] = slot_id[c]

\* A Latest_only reader never gets data older than the newest commit at the
\* moment it started to acquire.
LatestReadsFresh ==
    \A c \in Consumers :
        policy = "Latest_only" /\ rpc[c] = "reading" => seen[c] >= slot_id[c]

\* The newest committed value stays readable while the producer drains, fills,
\* commits or aborts the next slot (at least two slots, no producer death).
LatestStaysReadable ==
    Cap >= 2 /\ commit_index # NoSlot /\ (\A w \in Writers : wpc[w] # "dead")
        => slot_state[commit_index % Cap] = "COMMITTED"

\* Ordered policies: no consumer is ever more than one ring behind the producer
\* or ahead of it.  Sequential_sync: although concurrent releases may store a
\* stale minimum, read_index never passes a registered consumer's position.
RingBound ==
    /\ policy = "Sequential" => write_index - read_index \in 0 .. Cap
    /\ policy = "Sequential_sync" =>
         \A c \in Consumers : cpc[c] \notin {"detached", "dead"} /\ hb[c] # NoHb =>
            /\ write_index - position[hb[c]] \in 0 .. Cap
            /\ read_index <= position[hb[c]]

\* The ring-full check keeps an ordered producer away from a slot a reader
\* holds: when it waits for readers to drain, no reader is reading there
\* ("guarantees the writer never reaches a slot held by the slowest active
\* reader").
WriterNeverReachesHeldSlot ==
    \A w \in Writers, c \in Consumers :
        Ordered /\ wpc[w] = "drain" /\ rpc[c] \in {"capture", "reading"}
            => rslot[c] # wslot[w]

\* The reads of a Latest_only block: never older than what was there when the
\* acquire began, and always something to read.
LatestReads == LatestReadsFresh /\ LatestStaysReadable

\* The reads of an ordered block: the words keep their types, the writer stays
\* within a ring of the readers and away from the slot one of them holds, and
\* what a reader gets is the slot it asked for.
OrderedReads ==
    TypeOK /\ OrderedReadsOwnSlot /\ RingBound /\ WriterNeverReachesHeldSlot

\* Consumption is in order and gap-free: read_index (Sequential) and a
\* consumer's position (Sequential_sync, once joined) move by one slot only.
AdvancesByOne ==
    [][/\ policy = "Sequential" => read_index' \in {read_index, read_index + 1}
       /\ \A c \in Consumers :
            hb[c] # NoHb /\ cpc[c] \in {"ready", "advance", "scan"} =>
                position'[hb[c]] \in {position[hb[c]], position[hb[c]] + 1}]_vars

\* A Sequential_sync producer that finds the ring full, with every consumer
\* attached and between two reads, is waiting for a consumer that has something
\* left to read ("Slowest consumer has not yet consumed the oldest slot"): the
\* full ring is not a deadlock.
BlockedOnlyBySlowReader ==
    /\ policy = "Sequential_sync" /\ ppc = "idle"
    /\ (write_index - read_index) % WORD >= Cap
    /\ \A c \in Consumers : cpc[c] = "ready" /\ rpc[c] = "idle"
    => \E c \in Consumers : NextSlotToRead(c) # NoSlot

\* A draining writer gets its slot although readers keep coming: DRAINING
\* turns new readers away ("the writer will always eventually write").
DrainTerminates ==
    \A w \in Writers : wpc[w] = "drain" ~> wpc[w] = "start"

\* With live processes every committed slot of a Sequential block is consumed.
EveryCommitConsumed ==
    \A k \in Ids : (policy = "Sequential" /\ commit_index >= k) ~> read_index > k
=============================================================================
