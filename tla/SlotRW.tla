------------------------------- MODULE SlotRW -------------------------------
(***************************************************************************)
(* Slot coordination of the shared-memory ring buffer                      *)
(* (src/utils/shm/data_block_slot_ops.cpp and the C wrappers of            *)
(* data_block_c_api.cpp).  Every slot has a SlotRWState in shared memory:  *)
(* a write lock holding a pid, a state, a reader count and a generation.   *)
(* Writers and readers are threads of different processes; each action     *)
(* below is one atomic access of the code, so all their interleavings are  *)
(* behaviours.  A process can die between any two of them and leaves the   *)
(* shared words as they are.                                               *)
(*                                                                         *)
(* Memory is sequentially consistent here: the code puts seq_cst fences    *)
(* between the state store and the reader_count load (writer) and between  *)
(* the reader_count increment and the state load (reader).                 *)
(***************************************************************************)
EXTENDS Integers, FiniteSets

CONSTANTS
    Slots,      \* physical slots of the ring (slot_index)
    Writers,    \* pids that may write
    Readers,    \* threads that may read
    NoPid,      \* the value 0 of a pid word
    Ids,        \* slot_ids that writers publish
    CWriters    \* the writers that use the slot_rw_* C API: drain_hold is false
                \* and there is no header; the others are DataBlockProducers

ASSUME SlotRWAssumption ==
    /\ NoPid \notin Writers
    /\ IsFiniteSet(Readers)
    /\ Ids \subseteq Nat
    /\ CWriters \subseteq Writers

NoSlot == -1       \* INVALID_SLOT_ID (UINT64_MAX in the code)
Torn   == -2       \* content of a buffer while a writer is filling it

VARIABLES
    write_lock, slot_state, reader_count, write_generation,  \* SlotRWState
    commit_index,                                            \* header word
    buffer,      \* slot_id whose data the slot's buffer holds, or Torn
    wpc, wslot, wid, entered_draining,                \* writer locals
    rpc, rslot, captured_generation,                         \* reader locals
    seen         \* data the reader found when acquire_read returned OK

slotVars   == <<write_lock, slot_state, reader_count, write_generation>>
writerVars == <<wpc, wslot, wid, entered_draining>>
readerVars == <<rpc, rslot, captured_generation, seen>>
slotRWVars == <<slotVars, commit_index, buffer, writerVars, readerVars>>

SlotState == {"FREE", "WRITING", "COMMITTED", "DRAINING"}

WriterPC == {"idle", "lock", "load_state", "drain_store", "drain", "start",
             "restore", "unlock", "writing", "filling", "filled",
             "commit_state", "publish", "committed", "abort_state", "dead"}

ReaderPC == {"idle", "check1", "register", "check2", "unregister", "capture",
             "reading", "releasing", "dead", "dead_registered"}

\* A reader whose increment of reader_count has not been undone.
Registered == {"check2", "unregister", "capture", "reading", "releasing",
               "dead_registered"}

(***************************************************************************)
(* acquire_write                                                           *)
(***************************************************************************)
\* Entry: the caller has chosen the slot and the slot_id it will publish.
BeginAcquireWrite(w, s, id) ==
    /\ wpc[w] = "idle"
    /\ wpc' = [wpc EXCEPT ![w] = "lock"]
    /\ wslot' = [wslot EXCEPT ![w] = s]
    /\ wid' = [wid EXCEPT ![w] = id]
    /\ UNCHANGED <<slotVars, commit_index, buffer, entered_draining, readerVars>>

\* Variant: taking the lock starts a new generation.
LockWriteBumps(w) ==
    /\ wpc[w] = "lock"
    /\ \/ write_lock[wslot[w]] = NoPid
       \/ /\ write_lock[wslot[w]] # NoPid
          /\ wpc[write_lock[wslot[w]]] = "dead"
    /\ write_lock' = [write_lock EXCEPT ![wslot[w]] = w]
    /\ write_generation' = [write_generation EXCEPT ![wslot[w]] = @ + 1]
    /\ wpc' = [wpc EXCEPT ![w] = "load_state"]
    /\ UNCHANGED <<slot_state, reader_count, commit_index, buffer, wslot, wid,
                   entered_draining, readerVars>>

\* Phase 1: the CAS 0 -> my_pid, or the CAS dead pid -> my_pid of a zombie.
\* A dead holder stays dead, so its liveness test and the second CAS are one
\* step; a fresh heartbeat of a dead holder only delays that step.
LockWrite(w) ==
    /\ wpc[w] = "lock"
    /\ \/ write_lock[wslot[w]] = NoPid
       \/ /\ write_lock[wslot[w]] # NoPid
          /\ wpc[write_lock[wslot[w]]] = "dead"
    /\ write_lock' = [write_lock EXCEPT ![wslot[w]] = w]
    /\ wpc' = [wpc EXCEPT ![w] = "load_state"]
    /\ UNCHANGED <<slot_state, reader_count, write_generation, commit_index,
                   buffer, wslot, wid, entered_draining, readerVars>>

\* Phase 1 timeout: the lock is held and the time is up; nothing was taken.
LockTimeout(w) ==
    /\ wpc[w] = "lock"
    /\ write_lock[wslot[w]] # NoPid
    /\ wpc' = [wpc EXCEPT ![w] = "idle"]
    /\ UNCHANGED <<slotVars, commit_index, buffer, wslot, wid,
                   entered_draining, readerVars>>

\* prev_state load.
LoadState(w) ==
    /\ wpc[w] = "load_state"
    /\ entered_draining' = [entered_draining EXCEPT
                              ![w] = slot_state[wslot[w]] = "COMMITTED"]
    /\ wpc' = [wpc EXCEPT ![w] = IF entered_draining'[w]
                                   THEN "drain_store" ELSE "drain"]
    /\ UNCHANGED <<slotVars, commit_index, buffer, wslot, wid, readerVars>>

\* COMMITTED -> DRAINING: from here new readers are turned away.
EnterDraining(w) ==
    /\ wpc[w] = "drain_store"
    /\ slot_state' = [slot_state EXCEPT ![wslot[w]] = "DRAINING"]
    /\ wpc' = [wpc EXCEPT ![w] = "drain"]
    /\ UNCHANGED <<write_lock, reader_count, write_generation, commit_index,
                   buffer, wslot, wid, entered_draining, readerVars>>

\* Phase 2: reader_count read as 0.  A drain_hold timeout only resets the
\* timer and counts metrics, so it is not a step.
Drained(w) ==
    /\ wpc[w] = "drain"
    /\ reader_count[wslot[w]] = 0
    /\ wpc' = [wpc EXCEPT ![w] = "start"]
    /\ UNCHANGED <<slotVars, commit_index, buffer, wslot, wid,
                   entered_draining, readerVars>>

\* Phase 2 timeout with drain_hold = false.
DrainTimeout(w) ==
    /\ wpc[w] = "drain"
    /\ reader_count[wslot[w]] # 0
    /\ w \in CWriters
    /\ wpc' = [wpc EXCEPT ![w] = IF entered_draining[w]
                                   THEN "restore" ELSE "unlock"]
    /\ UNCHANGED <<slotVars, commit_index, buffer, wslot, wid,
                   entered_draining, readerVars>>

RestoreCommitted(w) ==
    /\ wpc[w] = "restore"
    /\ slot_state' = [slot_state EXCEPT ![wslot[w]] = "COMMITTED"]
    /\ wpc' = [wpc EXCEPT ![w] = "unlock"]
    /\ UNCHANGED <<write_lock, reader_count, write_generation, commit_index,
                   buffer, wslot, wid, entered_draining, readerVars>>

\* DRAINING/FREE -> WRITING; acquire_write returns OK.
StartWriting(w) ==
    /\ wpc[w] = "start"
    /\ slot_state' = [slot_state EXCEPT ![wslot[w]] = "WRITING"]
    /\ wpc' = [wpc EXCEPT ![w] = "writing"]
    /\ UNCHANGED <<write_lock, reader_count, write_generation, commit_index,
                   buffer, wslot, wid, entered_draining, readerVars>>

(***************************************************************************)
(* The writer's use of the slot, commit_write and release_write            *)
(***************************************************************************)
\* The application copies its data into the buffer; not atomic.
FillBuffer(w) ==
    /\ \/ /\ wpc[w] = "writing"
          /\ buffer' = [buffer EXCEPT ![wslot[w]] = Torn]
          /\ wpc' = [wpc EXCEPT ![w] = "filling"]
       \/ /\ wpc[w] = "filling"
          /\ buffer' = [buffer EXCEPT ![wslot[w]] = wid[w]]
          /\ wpc' = [wpc EXCEPT ![w] = "filled"]
    /\ UNCHANGED <<slotVars, commit_index, wslot, wid,
                   entered_draining, readerVars>>

\* commit_write step 1: the generation.
CommitGeneration(w) ==
    /\ wpc[w] = "filled"
    /\ write_generation' = [write_generation EXCEPT ![wslot[w]] = @ + 1]
    /\ wpc' = [wpc EXCEPT ![w] = "commit_state"]
    /\ UNCHANGED <<write_lock, slot_state, reader_count, commit_index, buffer,
                   wslot, wid, entered_draining, readerVars>>

\* commit_write step 2: readers may enter.
CommitState(w) ==
    /\ wpc[w] = "commit_state"
    /\ slot_state' = [slot_state EXCEPT ![wslot[w]] = "COMMITTED"]
    /\ wpc' = [wpc EXCEPT ![w] = IF w \in CWriters
                                   THEN "committed" ELSE "publish"]
    /\ UNCHANGED <<write_lock, reader_count, write_generation, commit_index,
                   buffer, wslot, wid, entered_draining, readerVars>>

\* commit_write step 3 (header present): commit_index = slot_id.
PublishCommit(w) ==
    /\ wpc[w] = "publish"
    /\ commit_index' = wid[w]
    /\ wpc' = [wpc EXCEPT ![w] = "unlock"]
    /\ UNCHANGED <<slotVars, buffer, wslot, wid, entered_draining,
                   readerVars>>

\* The write lock is given up: after a commit, an abort or a drain timeout.
Unlock(w) ==
    /\ wpc[w] = "unlock"
    /\ write_lock' = [write_lock EXCEPT ![wslot[w]] = NoPid]
    /\ wpc' = [wpc EXCEPT ![w] = "idle"]
    /\ UNCHANGED <<slot_state, reader_count, write_generation, commit_index,
                   buffer, wslot, wid, entered_draining, readerVars>>

\* The caller gives the slot back without committing (release_write_handle
\* of an uncommitted handle), or a C API caller releases what it committed.
Abort(w) ==
    /\ wpc[w] \in {"writing", "filling", "filled", "committed"}
    /\ wpc' = [wpc EXCEPT ![w] = "abort_state"]
    /\ UNCHANGED <<slotVars, commit_index, buffer, wslot, wid,
                   entered_draining, readerVars>>

\* release_write: FREE before the lock.
AbortState(w) ==
    /\ wpc[w] = "abort_state"
    /\ slot_state' = [slot_state EXCEPT ![wslot[w]] = "FREE"]
    /\ wpc' = [wpc EXCEPT ![w] = "unlock"]
    /\ UNCHANGED <<write_lock, reader_count, write_generation, commit_index,
                   buffer, wslot, wid, entered_draining, readerVars>>

(***************************************************************************)
(* acquire_read, validate_read, release_read                               *)
(***************************************************************************)
BeginAcquireRead(r, s) ==
    /\ rpc[r] = "idle"
    /\ rpc' = [rpc EXCEPT ![r] = "check1"]
    /\ rslot' = [rslot EXCEPT ![r] = s]
    /\ UNCHANGED <<slotVars, commit_index, buffer, writerVars,
                   captured_generation, seen>>

\* Step 1: first state check; NOT_READY unless COMMITTED.
CheckCommitted(r) ==
    /\ rpc[r] = "check1"
    /\ rpc' = [rpc EXCEPT ![r] = IF slot_state[rslot[r]] = "COMMITTED"
                                   THEN "register" ELSE "idle"]
    /\ UNCHANGED <<slotVars, commit_index, buffer, writerVars, rslot,
                   captured_generation, seen>>

\* Step 2: reader_count.fetch_add(1).
RegisterReader(r) ==
    /\ rpc[r] = "register"
    /\ reader_count' = [reader_count EXCEPT ![rslot[r]] = @ + 1]
    /\ rpc' = [rpc EXCEPT ![r] = "check2"]
    /\ UNCHANGED <<write_lock, slot_state, write_generation, commit_index,
                   buffer, writerVars, rslot, captured_generation, seen>>

\* Variant: no second check.
RecheckSkipped(r) ==
    /\ rpc[r] = "check2"
    /\ rpc' = [rpc EXCEPT ![r] = "capture"]
    /\ UNCHANGED <<slotVars, commit_index, buffer, writerVars, rslot,
                   captured_generation, seen>>

\* Variant: the lost race returns NOT_READY without giving the count back.
RecheckLeaks(r) ==
    /\ rpc[r] = "check2"
    /\ rpc' = [rpc EXCEPT ![r] = IF slot_state[rslot[r]] = "COMMITTED"
                                   THEN "capture" ELSE "idle"]
    /\ UNCHANGED <<slotVars, commit_index, buffer, writerVars, rslot,
                   captured_generation, seen>>

\* Step 4: second state check, after the fence.
RecheckCommitted(r) ==
    /\ rpc[r] = "check2"
    /\ rpc' = [rpc EXCEPT ![r] = IF slot_state[rslot[r]] = "COMMITTED"
                                   THEN "capture" ELSE "unregister"]
    /\ UNCHANGED <<slotVars, commit_index, buffer, writerVars, rslot,
                   captured_generation, seen>>

\* Lost the race: reader_count.fetch_sub(1), NOT_READY.
UnregisterReader(r) ==
    /\ rpc[r] = "unregister"
    /\ reader_count' = [reader_count EXCEPT ![rslot[r]] = @ - 1]
    /\ rpc' = [rpc EXCEPT ![r] = "idle"]
    /\ UNCHANGED <<write_lock, slot_state, write_generation, commit_index,
                   buffer, writerVars, rslot, captured_generation, seen>>

\* Step 5: capture the generation; acquire_read returns OK.
CaptureGeneration(r) ==
    /\ rpc[r] = "capture"
    /\ captured_generation' = [captured_generation EXCEPT
                                 ![r] = write_generation[rslot[r]]]
    /\ seen' = [seen EXCEPT ![r] = buffer[rslot[r]]]
    /\ rpc' = [rpc EXCEPT ![r] = "reading"]
    /\ UNCHANGED <<slotVars, commit_index, buffer, writerVars, rslot>>

\* validate_read_impl: the generation is still the captured one.
ValidateRead(r) == write_generation[rslot[r]] = captured_generation[r]

\* The reader is done with the data.
EndRead(r) ==
    /\ rpc[r] = "reading"
    /\ rpc' = [rpc EXCEPT ![r] = "releasing"]
    /\ UNCHANGED <<slotVars, commit_index, buffer, writerVars, rslot,
                   captured_generation, seen>>

\* release_read: reader_count.fetch_sub(1).  The handle is gone, so its
\* fields are forgotten.
ReleaseRead(r) ==
    /\ rpc[r] = "releasing"
    /\ reader_count' = [reader_count EXCEPT ![rslot[r]] = @ - 1]
    /\ rpc' = [rpc EXCEPT ![r] = "idle"]
    /\ captured_generation' = [captured_generation EXCEPT ![r] = 0]
    /\ seen' = [seen EXCEPT ![r] = NoSlot]
    /\ UNCHANGED <<write_lock, slot_state, write_generation, commit_index,
                   buffer, writerVars, rslot>>

(***************************************************************************)
(* Process death                                                           *)
(***************************************************************************)
CrashWriter(w) ==
    /\ wpc[w] # "dead"
    /\ wpc' = [wpc EXCEPT ![w] = "dead"]
    /\ UNCHANGED <<slotVars, commit_index, buffer, wslot, wid,
                   entered_draining, readerVars>>

CrashReader(r) ==
    /\ rpc[r] \notin {"dead", "dead_registered"}
    /\ rpc' = [rpc EXCEPT ![r] = IF rpc[r] \in Registered
                                   THEN "dead_registered" ELSE "dead"]
    /\ UNCHANGED <<slotVars, commit_index, buffer, writerVars, rslot,
                   captured_generation, seen>>

(***************************************************************************)
(* Specification                                                           *)
(***************************************************************************)
SlotInit ==
    /\ write_lock = [s \in Slots |-> NoPid]
    /\ slot_state = [s \in Slots |-> "FREE"]
    /\ reader_count = [s \in Slots |-> 0]
    /\ write_generation = [s \in Slots |-> 0]
    /\ commit_index = NoSlot
    /\ buffer = [s \in Slots |-> NoSlot]
    /\ wpc = [w \in Writers |-> "idle"]
    /\ wslot \in [Writers -> Slots]
    /\ wid \in [Writers -> Ids]
    /\ entered_draining = [w \in Writers |-> FALSE]
    /\ rpc = [r \in Readers |-> "idle"]
    /\ rslot \in [Readers -> Slots]
    /\ captured_generation = [r \in Readers |-> 0]
    /\ seen = [r \in Readers |-> NoSlot]

\* Steps of acquire_write, commit_write and release_write once entered.
WriterStep(w) ==
    \/ LockWrite(w)        \/ LockTimeout(w)      \/ LoadState(w)
    \/ EnterDraining(w)    \/ Drained(w)          \/ DrainTimeout(w)
    \/ RestoreCommitted(w) \/ StartWriting(w)     \/ FillBuffer(w)
    \/ CommitGeneration(w) \/ CommitState(w)      \/ PublishCommit(w)
    \/ Abort(w)            \/ AbortState(w)       \/ Unlock(w)

\* Steps of acquire_read and release_read once entered.
ReaderStep(r) ==
    \/ CheckCommitted(r)   \/ RegisterReader(r)   \/ RecheckCommitted(r)
    \/ UnregisterReader(r) \/ CaptureGeneration(r)
    \/ EndRead(r)          \/ ReleaseRead(r)

SlotNext ==
    \/ \E w \in Writers :
         \/ \E s \in Slots, id \in Ids : BeginAcquireWrite(w, s, id)
         \/ WriterStep(w)
         \/ CrashWriter(w)
    \/ \E r \in Readers :
         \/ \E s \in Slots : BeginAcquireRead(r, s)
         \/ ReaderStep(r)
         \/ CrashReader(r)

SlotSpec == SlotInit /\ [][SlotNext]_slotRWVars

(***************************************************************************)
(* Properties                                                              *)
(***************************************************************************)
\* Every shared word and every local has its type.
SlotTypeOK ==
    /\ write_lock \in [Slots -> Writers \cup {NoPid}]
    /\ slot_state \in [Slots -> SlotState]
    /\ reader_count \in [Slots -> Nat]
    /\ write_generation \in [Slots -> Nat]
    /\ commit_index \in Ids \cup {NoSlot}
    /\ buffer \in [Slots -> Ids \cup {NoSlot, Torn}]
    /\ wpc \in [Writers -> WriterPC]
    /\ wslot \in [Writers -> Slots]
    /\ wid \in [Writers -> Ids]
    /\ entered_draining \in [Writers -> BOOLEAN]
    /\ rpc \in [Readers -> ReaderPC]
    /\ rslot \in [Readers -> Slots]
    /\ captured_generation \in [Readers -> Nat]
    /\ seen \in [Readers -> Ids \cup {NoSlot, Torn}]

\* Readers whose increment of reader_count at slot s is still counted.
RegisteredAt(s) == {r \in Readers : rpc[r] \in Registered /\ rslot[r] = s}

\* reader_count is the number of readers that have registered at the slot and
\* not unregistered, dead ones included: no path of acquire_read/release_read
\* counts a reader twice or forgets one, whatever the interleaving.
ReaderCountExact ==
    \A s \in Slots : reader_count[s] = Cardinality(RegisteredAt(s))

\* Writer states in which the writer holds the slot's write lock.
Owning == WriterPC \ {"idle", "lock", "dead"}

\* A slot has at most one live writer past phase 1 of acquire_write, also when
\* several processes reclaim the lock of the same dead writer.
SingleWriterPerSlot ==
    \A v, w \in Writers :
        wpc[v] \in Owning /\ wpc[w] \in Owning /\ wslot[v] = wslot[w] => v = w

\* No torn read: from the moment acquire_read returns OK until the reader
\* releases, the slot holds one complete value and nobody changes it, so the
\* generation check of validate_read_impl cannot fail.
ReadsAreStable ==
    \A r \in Readers : rpc[r] = "reading" =>
        /\ seen[r] # Torn
        /\ buffer[rslot[r]] = seen[r]
        /\ ValidateRead(r)

\* A slot that readers may enter (COMMITTED), or may enter again when the
\* writer gives up draining (DRAINING), never holds partially written data,
\* also after its writer died at any point.
CommittedIsComplete ==
    \A s \in Slots : slot_state[s] \in {"COMMITTED", "DRAINING"} => buffer[s] # Torn

\* What the slot functions promise together: exact counts, one writer, stable
\* reads of complete data.  The recovery operations have to keep it too, also
\* when the processes they clean up after died in the middle of a commit or a
\* drain.
SlotProtocol ==
    /\ SlotTypeOK /\ ReaderCountExact /\ SingleWriterPerSlot
    /\ ReadsAreStable /\ CommittedIsComplete

\* The generation of a slot never goes back and grows only while its writer
\* holds the slot in WRITING, before readers are let in.
GenerationGrowsUnderWriting ==
    [][\A s \in Slots : write_generation'[s] # write_generation[s] =>
          /\ write_generation'[s] = write_generation[s] + 1
          /\ slot_state[s] = "WRITING"]_slotRWVars

(***************************************************************************)
(* The inductive invariant behind ReadsAreStable                           *)
(***************************************************************************)
\* The write lock of a slot names the writer that works on it.
LockOwned ==
    \A w \in Writers : wpc[w] \in Owning => write_lock[wslot[w]] = w

\* What a writer knows of its slot's state and buffer at each step.
Knows(w) ==
    /\ wpc[w] = "drain_store" =>
          slot_state[wslot[w]] = "COMMITTED" /\ entered_draining[w]
    /\ wpc[w] = "drain" => IF entered_draining[w]
                             THEN slot_state[wslot[w]] = "DRAINING"
                             ELSE slot_state[wslot[w]] # "COMMITTED"
    /\ wpc[w] = "start" => slot_state[wslot[w]] # "COMMITTED"
    /\ wpc[w] = "restore" => slot_state[wslot[w]] = "DRAINING"
    /\ wpc[w] \in {"writing", "filling", "filled", "commit_state"} =>
          slot_state[wslot[w]] = "WRITING"
    /\ wpc[w] \in {"filled", "commit_state"} => buffer[wslot[w]] = wid[w]

WriterKnows == \A w \in Writers : Knows(w)

\* From the drained check to the commit no reader is inside the slot.
WriterExcludesReaders ==
    \A w \in Writers, r \in Readers :
        /\ wpc[w] \in {"start", "writing", "filling", "filled", "commit_state"}
        /\ rpc[r] \in {"capture", "reading"}
        => rslot[r] # wslot[w]

\* A reader between its second check and the capture is inside complete data.
CaptureIsComplete ==
    \A r \in Readers : rpc[r] = "capture" => buffer[rslot[r]] # Torn

SlotInv ==
    /\ SlotTypeOK
    /\ ReaderCountExact
    /\ LockOwned
    /\ WriterKnows
    /\ WriterExcludesReaders
    /\ CommittedIsComplete
    /\ CaptureIsComplete
    /\ ReadsAreStable
=============================================================================
