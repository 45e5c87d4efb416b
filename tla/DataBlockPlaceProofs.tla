------------------------ MODULE DataBlockPlaceProofs ------------------------
(***************************************************************************)
(* Lemmas about DataBlock, for DataBlockProofs: what a step of one process *)
(* leaves alone, the claims of the producer (which slot it works on, what  *)
(* the committed slots hold) and the handles of the consumers (which slot  *)
(* a handle names, how far consumption moves).                             *)
(***************************************************************************)
EXTENDS DataBlock, TLAPS

\* The leaves are Zenon's unless they cite SMT: few of them need arithmetic.
USE Zenon

-----------------------------------------------------------------------------
(* What a step leaves alone                                                *)

\* The steps of one writer and of one reader, entry and death included.
WriterActs(w) ==
    (\E s \in Slots, id \in Ids : BeginAcquireWrite(w, s, id))
    \/ WriterStep(w) \/ CrashWriter(w)
ReaderActs(r) ==
    (\E s \in Slots : BeginAcquireRead(r, s)) \/ ReaderStep(r) \/ CrashReader(r)

\* A writer's step takes the slot, fills it, or finishes with it.
Acquiring(w) ==
    (\E s \in Slots, id \in Ids : BeginAcquireWrite(w, s, id))
    \/ LockWrite(w) \/ LockTimeout(w) \/ LoadState(w) \/ EnterDraining(w)
    \/ Drained(w)
Filling(w) ==
    DrainTimeout(w) \/ RestoreCommitted(w) \/ StartWriting(w) \/ FillBuffer(w)
    \/ CommitGeneration(w)
Finishing(w) ==
    CommitState(w) \/ PublishCommit(w) \/ Abort(w) \/ AbortState(w) \/ Unlock(w)
    \/ CrashWriter(w)

\* These are all the steps of a writer.
LEMMA WriterPhases ==
    ASSUME NEW w \in Writers, WriterActs(w)
    PROVE  Acquiring(w) \/ Filling(w) \/ Finishing(w)
  BY DEF WriterActs, WriterStep, Acquiring, Filling, Finishing

\* A writer's step never touches reader_count or what a reader holds.
LEMMA WriterSparesReaders ==
    ASSUME NEW w \in Writers, WriterActs(w), SlotTypeOK
    PROVE  UNCHANGED <<reader_count, readerVars>>
<1>1. CASE Acquiring(w)
  BY <1>1 DEF Acquiring, slotVars, BeginAcquireWrite, LockWrite, LockTimeout,
     LoadState, EnterDraining, Drained
<1>2. CASE Filling(w)
  BY <1>2 DEF Filling, slotVars, DrainTimeout, RestoreCommitted, StartWriting,
     FillBuffer, CommitGeneration
<1>3. CASE Finishing(w)
  BY <1>3 DEF Finishing, slotVars, CommitState, PublishCommit, Abort,
     AbortState, Unlock, CrashWriter
<1>4. QED BY <1>1, <1>2, <1>3, WriterPhases

\* Nor what another writer holds.
LEMMA WriterSparesWriters ==
    ASSUME NEW w \in Writers, WriterActs(w), SlotTypeOK
    PROVE  \A v \in Writers \ {w} :
               /\ wpc'[v] = wpc[v] /\ wslot'[v] = wslot[v] /\ wid'[v] = wid[v]
               /\ entered_draining'[v] = entered_draining[v]
<1>1. CASE Acquiring(w)
  BY SMT, <1>1 DEF Acquiring, SlotTypeOK, writerVars, BeginAcquireWrite, LockWrite,
     LockTimeout, LoadState, EnterDraining, Drained
<1>2. CASE Filling(w)
  BY SMT, <1>2 DEF Filling, SlotTypeOK, writerVars, DrainTimeout, RestoreCommitted,
     StartWriting, FillBuffer, CommitGeneration
<1>3. CASE Finishing(w)
  BY <1>3 DEF Finishing, SlotTypeOK, writerVars, CommitState, PublishCommit,
     Abort, AbortState, Unlock, CrashWriter
<1>4. QED BY <1>1, <1>2, <1>3, WriterPhases

\* A slot's contents change only under a writer that owns the slot.
LEMMA OwnersWrite ==
    ASSUME NEW w \in Writers, WriterActs(w), SlotTypeOK
    PROVE  wpc[w] \notin Owning => UNCHANGED <<slot_state, write_generation, buffer>>
<1>1. CASE Acquiring(w)
  BY <1>1 DEF Acquiring, SlotTypeOK, slotVars, Owning, WriterPC,
     BeginAcquireWrite, LockWrite, LockTimeout, LoadState, EnterDraining,
     Drained
<1>2. CASE Filling(w)
  BY <1>2 DEF Filling, SlotTypeOK, slotVars, Owning, WriterPC, DrainTimeout,
     RestoreCommitted, StartWriting, FillBuffer, CommitGeneration
<1>3. CASE Finishing(w)
  BY <1>3 DEF Finishing, SlotTypeOK, slotVars, Owning, WriterPC, CommitState,
     PublishCommit, Abort, AbortState, Unlock, CrashWriter
<1>4. QED BY <1>1, <1>2, <1>3, WriterPhases

\* A writer touches no slot but the one it works on.
LEMMA WriterSparesSlots ==
    ASSUME NEW w \in Writers, WriterActs(w), SlotTypeOK
    PROVE  \A s \in Slots \ {wslot[w]} :
               /\ write_lock'[s] = write_lock[s]
               /\ slot_state'[s] = slot_state[s]
               /\ write_generation'[s] = write_generation[s]
               /\ buffer'[s] = buffer[s]
<1>1. CASE Acquiring(w)
  BY <1>1 DEF Acquiring, SlotTypeOK, slotVars, BeginAcquireWrite, LockWrite,
     LockTimeout, LoadState, EnterDraining, Drained
<1>2. CASE Filling(w)
  BY <1>2 DEF Filling, SlotTypeOK, slotVars, DrainTimeout, RestoreCommitted,
     StartWriting, FillBuffer, CommitGeneration
<1>3. CASE Finishing(w)
  BY <1>3 DEF Finishing, SlotTypeOK, slotVars, CommitState, PublishCommit,
     Abort, AbortState, Unlock, CrashWriter
<1>4. QED BY <1>1, <1>2, <1>3, WriterPhases

\* A reader's step touches nothing of a writer or of a slot but reader_count.
LEMMA ReaderFrame ==
    ASSUME NEW r \in Readers, ReaderActs(r), SlotTypeOK
    PROVE  /\ UNCHANGED <<write_lock, slot_state, write_generation, buffer, writerVars>>
           /\ \A q \in Readers \ {r} :
                /\ rpc'[q] = rpc[q] /\ rslot'[q] = rslot[q] /\ seen'[q] = seen[q]
                /\ captured_generation'[q] = captured_generation[q]
           /\ rpc[r] # "idle" => rslot' = rslot
  BY SMT DEF ReaderActs, ReaderStep, SlotTypeOK, slotVars, readerVars, writerVars,
         BeginAcquireRead, CheckCommitted, RegisterReader, RecheckCommitted, UnregisterReader, CaptureGeneration, EndRead, ReleaseRead, CrashReader

\* Every step is a step of one writer or of one reader.
LEMMA StepOfOne ==
    ASSUME SlotNext
    PROVE  (\E w \in Writers : WriterActs(w)) \/ (\E r \in Readers : ReaderActs(r))
  BY DEF SlotNext, WriterActs, ReaderActs

\* A writer changes neither the buffer nor the generation of a slot with a
\* reader inside.
LEMMA WriterKeepsReadSlots ==
    ASSUME SlotTypeOK, WriterExcludesReaders, NEW w \in Writers, WriterActs(w),
           NEW r \in Readers, rpc[r] \in {"capture", "reading"}
    PROVE  /\ buffer'[rslot[r]] = buffer[rslot[r]]
           /\ write_generation'[rslot[r]] = write_generation[rslot[r]]
<1>1. CASE rslot[r] # wslot[w]
  BY <1>1, WriterSparesSlots DEF SlotTypeOK
<1>2. CASE rslot[r] = wslot[w]
  <2>1. wpc[w] \notin {"start", "writing", "filling", "filled", "commit_state"}
    BY <1>2 DEF WriterExcludesReaders
  <2>2. QED
    <3>1. CASE Acquiring(w)
      BY <2>1, <3>1 DEF Acquiring, slotVars, BeginAcquireWrite, LockWrite,
         LockTimeout, LoadState, EnterDraining, Drained
    <3>2. CASE Filling(w)
      BY <2>1, <3>2 DEF Filling, slotVars, DrainTimeout, RestoreCommitted,
         StartWriting, FillBuffer, CommitGeneration
    <3>3. CASE Finishing(w)
      BY <2>1, <3>3 DEF Finishing, slotVars, CommitState, PublishCommit, Abort,
         AbortState, Unlock, CrashWriter
    <3>4. QED BY <3>1, <3>2, <3>3, WriterPhases
<1>3. QED BY <1>1, <1>2

-----------------------------------------------------------------------------
(* Indices, positions and phases                                          *)

\* The ring indices, positions and handles are slot_ids.
IndexTypes ==
    /\ write_index \in 0 .. MaxSlotId + 1
    /\ read_index \in Nat
    /\ policy \in Policies
    /\ consumer_pid \in [HbSlots -> Consumers \cup {NoPid}]
    /\ position \in [HbSlots -> Nat]
    /\ hb \in [Consumers -> HbSlots \cup {NoHb}]
    /\ slot_id \in [Consumers -> Nat]
    /\ min_pos \in [Consumers -> Nat]

\* One process at a time produces, and it counts its claims.
ProducerPhase ==
    /\ producer \in Writers
    /\ ppc \in {"idle", "claim", "slot", "aborted", "undo"}
    /\ \A w \in Writers \ {producer} : wpc[w] \in {"idle", "dead"}
    /\ ppc = "claim" => write_index <= MaxSlotId
    /\ ppc \in {"slot", "aborted", "undo"} => write_index >= 1
    /\ ppc \in {"idle", "claim", "undo"} => wpc[producer] \in {"idle", "dead"}

BlockInv == IndexTypes /\ ProducerPhase

-----------------------------------------------------------------------------
\* get_next_slot_to_read yields a slot_id or INVALID_SLOT_ID, whatever the policy.
LEMMA NextSlotType ==
    ASSUME SlotTypeOK, IndexTypes, NEW c \in Consumers
    PROVE  NextSlotToRead(c) \in Nat \cup {NoSlot}
<1>1. commit_index \in Nat \cup {NoSlot}
  BY SlotRWAssumption DEF SlotTypeOK
<1>2. policy \in {"Latest_only", "Sequential", "Sequential_sync"}
  BY DataBlockAssumption DEF IndexTypes
<1>3. QED BY <1>1, <1>2 DEF IndexTypes, NextSlotToRead, NoHb, Consumers

\* slot_id % slot_count is a slot of the ring.
LEMMA RingSlot ==
    ASSUME NEW k \in Nat
    PROVE  k % Cap \in Slots
  BY SMT, DataBlockAssumption

\* Initially the block is a fresh block of slots.
LEMMA BlockInit ==
    ASSUME Init
    PROVE  SlotInit /\ BlockInv
  BY SMT, DataBlockAssumption
     DEF Init, SlotInit, BlockInv, IndexTypes, ProducerPhase, NoHb, Consumers, HbSlots

\* Every step of a producer or consumer is a step of SlotRW or leaves the slots
\* alone: the slot it claims or reads is a slot of the ring, the slot_id it
\* publishes is one it claimed.
LEMMA BlockStepIsSlotStep ==
    ASSUME SlotTypeOK, BlockInv, [Next]_vars
    PROVE  [SlotNext]_slotRWVars
<1>1. ASSUME NEW w \in Writers, ClaimSlot(w)
      PROVE  SlotNext
  <2>1. write_index % Cap \in Slots /\ write_index \in Ids
    BY SMT, <1>1, RingSlot, DataBlockAssumption
       DEF ClaimSlot, BlockInv, IndexTypes, ProducerPhase
  <2>2. QED BY <1>1, <2>1 DEF ClaimSlot, SlotNext
<1>2. ASSUME NEW w \in Writers,
             AcquireAndFill(w) \/ AcquireTimeout(w) \/ CommitHandle(w)
             \/ AbortHandle(w) \/ ReleaseLock(w) \/ CrashProducer(w)
      PROVE  SlotNext
  BY <1>2 DEF AcquireAndFill, AcquireTimeout, CommitHandle, AbortHandle,
              ReleaseLock, CrashProducer, SlotNext, WriterStep
<1>3. ASSUME NEW w \in Writers,
             RingCheck(w) \/ UndoClaim(w) \/ CheckConsumerHealth(w) \/ AttachWriter(w)
      PROVE  UNCHANGED slotRWVars
  BY <1>3 DEF RingCheck, UndoClaim, CheckConsumerHealth, AttachWriter
<1>4. ASSUME NEW c \in Consumers, AcquireConsumeSlot(c)
      PROVE  SlotNext
  <2>1. NextSlotToRead(c) % Cap \in Slots
    BY <1>4, NextSlotType, RingSlot DEF AcquireConsumeSlot, BlockInv
  <2>2. QED BY <1>4, <2>1 DEF AcquireConsumeSlot, SlotNext, Consumers
<1>5. ASSUME NEW c \in Consumers,
             AcquireReadStep(c) \/ ValidateHandle(c) \/ ReleaseHandle(c)
             \/ CrashConsumer(c)
      PROVE  SlotNext
  BY <1>5 DEF AcquireReadStep, ValidateHandle, ReleaseHandle, CrashConsumer,
              SlotNext, ReaderStep, Consumers
<1>6. ASSUME NEW c \in Consumers,
             JoinLoad(c) \/ JoinStore(c) \/ AdvancePosition(c) \/ ScanPosition(c)
             \/ StoreMinimum(c) \/ RegisterHeartbeat(c) \/ Detach(c)
      PROVE  UNCHANGED slotRWVars
  BY <1>6 DEF JoinLoad, JoinStore, AdvancePosition, ScanPosition, StoreMinimum,
              RegisterHeartbeat, Detach
<1>7. CASE UNCHANGED vars
  BY <1>7 DEF vars
<1>8. QED
  BY <1>1, <1>2, <1>3, <1>4, <1>5, <1>6, <1>7 DEF Next, ProducerStep, ConsumerStep

\* The ring indices, positions and handles stay slot_ids.
LEMMA IndexStep ==
    ASSUME SlotTypeOK, BlockInv, [Next]_vars
    PROVE  IndexTypes'
<1> USE DEF IndexTypes, indexVars, tableVars, consumerVars, Consumers
<1>1. ASSUME NEW w \in Writers, ClaimSlot(w) \/ UndoClaim(w)
      PROVE  IndexTypes'
  BY SMT, <1>1, DataBlockAssumption DEF ClaimSlot, UndoClaim, BlockInv, ProducerPhase
<1>2. ASSUME NEW w \in Writers,
             \/ RingCheck(w) \/ AcquireAndFill(w) \/ CommitHandle(w)
             \/ ReleaseLock(w) \/ AcquireTimeout(w) \/ AbortHandle(w)
             \/ CrashProducer(w) \/ AttachWriter(w)
      PROVE  IndexTypes'
  BY <1>2 DEF RingCheck, AcquireAndFill, CommitHandle, ReleaseLock,
     AcquireTimeout, AbortHandle, CrashProducer, AttachWriter, BlockInv, dbVars
<1>3. ASSUME NEW w \in Writers, CheckConsumerHealth(w)
      PROVE  IndexTypes'
  BY <1>3 DEF CheckConsumerHealth, BlockInv
<1>4. ASSUME NEW c \in Consumers, AcquireConsumeSlot(c)
      PROVE  IndexTypes'
  <2>1. NextSlotToRead(c) \in Nat
    BY <1>4, NextSlotType DEF AcquireConsumeSlot, BlockInv
  <2>2. QED BY <1>4, <2>1 DEF AcquireConsumeSlot, BlockInv
<1>5. ASSUME NEW c \in Consumers, JoinLoad(c)
      PROVE  IndexTypes'
  BY <1>5, SlotRWAssumption DEF JoinLoad, BlockInv, SlotTypeOK
<1>6. ASSUME NEW c \in Consumers, JoinStore(c)
      PROVE  IndexTypes'
  BY <1>6 DEF JoinStore, BlockInv
<1>7. ASSUME NEW c \in Consumers, AdvancePosition(c)
      PROVE  IndexTypes'
  BY SMT, <1>7 DEF AdvancePosition, BlockInv
<1>8. ASSUME NEW c \in Consumers, ScanPosition(c)
      PROVE  IndexTypes'
  BY <1>8 DEF ScanPosition, BlockInv
<1>9. ASSUME NEW c \in Consumers, StoreMinimum(c)
      PROVE  IndexTypes'
  BY <1>9 DEF StoreMinimum, BlockInv
<1>10. ASSUME NEW c \in Consumers, RegisterHeartbeat(c)
       PROVE  IndexTypes'
  BY SMT, <1>10 DEF RegisterHeartbeat, BlockInv
<1>11. ASSUME NEW c \in Consumers, Detach(c)
       PROVE  IndexTypes'
  BY <1>11 DEF Detach, BlockInv
<1>12. ASSUME NEW c \in Consumers,
              AcquireReadStep(c) \/ ValidateHandle(c) \/ ReleaseHandle(c)
              \/ CrashConsumer(c)
       PROVE  IndexTypes'
  BY <1>12 DEF AcquireReadStep, ValidateHandle, ReleaseHandle, CrashConsumer,
     BlockInv, dbVars
<1>13. CASE UNCHANGED vars
  BY <1>13 DEF vars, dbVars, BlockInv
<1>14. QED
  BY <1>1, <1>2, <1>3, <1>4, <1>5, <1>6, <1>7, <1>8, <1>9, <1>10, <1>11, <1>12,
     <1>13 DEF Next, ProducerStep, ConsumerStep

\* A replacement producer starts from the idle phase, and only the producer
\* moves in SlotRW.
LEMMA PhaseStep ==
    ASSUME SlotTypeOK, BlockInv, [Next]_vars
    PROVE  ProducerPhase'
<1> USE DEF BlockInv, IndexTypes, ProducerPhase, indexVars, producerVars
<1>1. ASSUME NEW w \in Writers, RingCheck(w)
      PROVE  ProducerPhase'
  BY <1>1 DEF RingCheck, slotRWVars, writerVars
<1>2. ASSUME NEW w \in Writers, ClaimSlot(w)
      PROVE  ProducerPhase'
  BY SMT, <1>2 DEF ClaimSlot, BeginAcquireWrite, SlotTypeOK
<1>3. ASSUME NEW w \in Writers,
             AcquireAndFill(w) \/ CommitHandle(w) \/ CrashProducer(w)
      PROVE  ProducerPhase'
  <2>1. CASE AcquireAndFill(w)
    <3> UNCHANGED dbVars
      BY <2>1 DEF AcquireAndFill
    <3>1. CASE LockWrite(w) \/ LoadState(w)
      BY <3>1 DEF dbVars, LockWrite, LoadState, SlotTypeOK
    <3>2. CASE EnterDraining(w) \/ Drained(w)
      BY <3>2 DEF dbVars, EnterDraining, Drained, SlotTypeOK
    <3>3. CASE StartWriting(w) \/ FillBuffer(w)
      BY SMT, <3>3 DEF dbVars, StartWriting, FillBuffer, SlotTypeOK
    <3>4. QED BY <2>1, <3>1, <3>2, <3>3 DEF AcquireAndFill
  <2>2. CASE CommitHandle(w)
    BY <2>2 DEF CommitHandle, dbVars, CommitGeneration, CommitState,
       PublishCommit, SlotTypeOK
  <2>3. CASE CrashProducer(w)
    BY <2>3 DEF CrashProducer, dbVars, CrashWriter, SlotTypeOK
  <2>4. QED BY <1>3, <2>1, <2>2, <2>3
<1>4. ASSUME NEW w \in Writers, AbortHandle(w) \/ AcquireTimeout(w) \/ ReleaseLock(w)
      PROVE  ProducerPhase'
  <2>1. CASE AbortHandle(w)
    BY <2>1 DEF AbortHandle, dbVars, Abort, AbortState, SlotTypeOK
  <2>2. CASE AcquireTimeout(w)
    BY <2>2 DEF AcquireTimeout, LockTimeout, SlotTypeOK
  <2>3. CASE ReleaseLock(w)
    BY <2>3 DEF ReleaseLock, Unlock, SlotTypeOK
  <2>4. QED BY <1>4, <2>1, <2>2, <2>3
<1>5. ASSUME NEW w \in Writers, UndoClaim(w) \/ CheckConsumerHealth(w)
      PROVE  ProducerPhase'
  BY <1>5 DEF UndoClaim, CheckConsumerHealth, slotRWVars, writerVars
<1>6. ASSUME NEW w \in Writers, AttachWriter(w)
      PROVE  ProducerPhase'
  BY <1>6 DEF AttachWriter, slotRWVars, writerVars
<1>7. ASSUME NEW c \in Consumers,
             \/ ConsumerStep(c) \/ RegisterHeartbeat(c) \/ Detach(c)
             \/ CrashConsumer(c)
      PROVE  ProducerPhase'
  <2>1. UNCHANGED <<wpc, write_index, producer, ppc>>
    BY <1>7 DEF ConsumerStep, RegisterHeartbeat, Detach, CrashConsumer, JoinLoad,
       JoinStore, AcquireConsumeSlot, AcquireReadStep, ValidateHandle,
       ReleaseHandle, AdvancePosition, ScanPosition, StoreMinimum, dbVars,
       slotRWVars, writerVars, BeginAcquireRead, CheckCommitted, RegisterReader,
       RecheckCommitted, UnregisterReader, CaptureGeneration, EndRead,
       ReleaseRead, CrashReader
  <2>2. QED BY <2>1
<1>8. CASE UNCHANGED vars
  BY <1>8 DEF vars, dbVars, slotRWVars, writerVars
<1>9. QED
  BY <1>1, <1>2, <1>3, <1>4, <1>5, <1>6, <1>7, <1>8 DEF Next, ProducerStep

-----------------------------------------------------------------------------
(* Which slots hold what: the claim the producer works on and the slot_ids   *)
(* that have been committed.                                                 *)

\* The producer has claimed a slot_id and not yet made it COMMITTED.
Claimed == {"lock", "load_state", "drain_store", "drain", "start", "writing",
            "filling", "filled", "commit_state", "abort_state"}
Pending == wpc[producer] \in Claimed \/ ppc \in {"aborted", "undo"}

\* The next slot_id to become COMMITTED: the claimed one, or the next claim.
Front == IF Pending THEN write_index - 1 ELSE write_index

\* The producer works on the slot of the slot_id it claimed last, which has not
\* been published.
ClaimPhase ==
    /\ wpc[producer] \in Claimed \cup {"publish"} =>
          /\ ppc = "slot"
          /\ wid[producer] = write_index - 1
          /\ wslot[producer] = wid[producer] % Cap
          /\ commit_index < wid[producer]
    /\ wpc[producer] = "unlock" => ppc \in {"slot", "aborted"}
    /\ wpc[producer] \notin {"restore", "committed"}
    /\ wpc[producer] = "publish" =>
          /\ slot_state[wslot[producer]] = "COMMITTED"
          /\ buffer[wslot[producer]] = wid[producer]

\* A slot that is COMMITTED holds an earlier slot_id of that slot.
RingContents ==
    /\ commit_index < Front
    /\ \A s \in Slots : slot_state[s] = "COMMITTED" =>
          buffer[s] \in Nat /\ buffer[s] % Cap = s /\ buffer[s] < Front

ClaimInv == ClaimPhase /\ RingContents

\* A write lock names the writer that works on the slot, or a dead one.
LockNamed ==
    \A s \in Slots : write_lock[s] # NoPid =>
        \/ wpc[write_lock[s]] = "dead"
        \/ wpc[write_lock[s]] \in Owning /\ wslot[write_lock[s]] = s

ProducerActs(w) ==
    \/ ProducerStep(w) \/ AbortHandle(w) \/ CheckConsumerHealth(w)
    \/ CrashProducer(w) \/ AttachWriter(w)
ConsumerActs(c) ==
    \/ ConsumerStep(c) \/ RegisterHeartbeat(c) \/ Detach(c)
    \/ CrashConsumer(c)

NoDeadProducer == DeadProducers = {}

\* What a step of the producer does to the contents of the ring: nothing, ...
Quiet ==
    /\ UNCHANGED <<slot_state, buffer, commit_index>>
    /\ Front' >= Front
    /\ NoDeadProducer' =>
          Front' = Front /\ (wpc'[producer'] = "publish" <=> wpc[producer] = "publish")
\* ... it works on the slot it claimed, ...
Works ==
    /\ wpc[producer] \in Claimed /\ wpc'[producer'] # "publish"
    /\ slot_state'[wslot[producer]] # "COMMITTED"
    /\ \A s \in Slots \ {wslot[producer]} :
          slot_state'[s] = slot_state[s] /\ buffer'[s] = buffer[s]
    /\ Front' = Front /\ commit_index' = commit_index
\* ... it makes that slot COMMITTED, or ...
Commits ==
    /\ wpc[producer] = "commit_state" /\ wpc'[producer'] = "publish"
    /\ slot_state' = [slot_state EXCEPT ![wslot[producer]] = "COMMITTED"]
    /\ buffer[wslot[producer]] = wid[producer]
    /\ Front' = Front + 1 /\ UNCHANGED <<buffer, commit_index>>
\* ... it publishes the slot_id.
Publishes ==
    /\ wpc[producer] = "publish" /\ wpc'[producer'] # "publish"
    /\ commit_index' = wid[producer]
    /\ Front' = Front /\ UNCHANGED <<slot_state, buffer>>

-----------------------------------------------------------------------------
\* Two slot_ids less than a ring apart have different slots.
LEMMA SlotsApart ==
    ASSUME NEW k \in Nat, NEW m \in Nat, k < m, m - k < Cap
    PROVE  k % Cap # m % Cap
<1>1. Cap \in Nat /\ Cap > 0
  BY SMT, DataBlockAssumption
<1>2. k = (Cap * (k \div Cap)) + (k % Cap) /\ m = (Cap * (m \div Cap)) + (m % Cap)
  BY SMT, <1>1
<1>3. k \div Cap \in Int /\ m \div Cap \in Int
  BY SMT, <1>1
<1>4. SUFFICES ASSUME k % Cap = m % Cap PROVE FALSE
  OBVIOUS
<1>5. m - k = Cap * (m \div Cap - k \div Cap)
  BY SMT, <1>1, <1>2, <1>3, <1>4
<1>6. PICK d \in Int : d = m \div Cap - k \div Cap
  BY SMT, <1>3
<1>7. m - k = Cap * d
  BY <1>5, <1>6
<1>8. CASE d <= 0
  <2>1. Cap * d <= 0
    BY SMT, <1>1, <1>8
  <2>2. QED BY SMT, <1>7, <2>1
<1>9. CASE d >= 1
  <2>1. Cap * d >= Cap
    BY SMT, <1>1, <1>9
  <2>2. QED BY SMT, <1>1, <1>7, <2>1
<1>10. QED BY SMT, <1>8, <1>9

\* Every step is a step of one producer or of one consumer.
LEMMA BlockStepOfOne ==
    ASSUME Next
    PROVE  (\E w \in Writers : ProducerActs(w)) \/ (\E c \in Consumers : ConsumerActs(c))
  BY DEF Next, ProducerActs, ConsumerActs

\* A consumer's step leaves the producer, its indices and the contents of the
\* ring alone.
LEMMA ConsumerSparesProducer ==
    ASSUME NEW c \in Consumers, ConsumerActs(c)
    PROVE  UNCHANGED <<policy, write_index, producer, ppc, write_lock, slot_state,
                       buffer, commit_index, wpc, wslot, wid>>
  BY DEF ConsumerActs, ConsumerStep, RegisterHeartbeat, Detach, CrashConsumer,
     JoinLoad, JoinStore, AcquireConsumeSlot, AcquireReadStep, ValidateHandle,
     ReleaseHandle, AdvancePosition, ScanPosition, StoreMinimum, dbVars,
     slotRWVars, slotVars, writerVars, BeginAcquireRead, CheckCommitted,
     RegisterReader, RecheckCommitted, UnregisterReader, CaptureGeneration,
     EndRead, ReleaseRead, CrashReader, indexVars, producerVars

\* A producer's step leaves the consumers alone, except that it clears the
\* heartbeat slots of dead ones.
LEMMA ProducerSparesConsumers ==
    ASSUME NEW w \in Writers, ProducerActs(w)
    PROVE  /\ UNCHANGED <<policy, read_index, position, consumerVars, readerVars>>
           /\ \/ consumer_pid' = consumer_pid
              \/ \E i \in HbSlots :
                   /\ consumer_pid[i] # NoPid /\ cpc[consumer_pid[i]] = "dead"
                   /\ consumer_pid' = [consumer_pid EXCEPT ![i] = NoPid]
<1> USE DEF indexVars, tableVars, dbVars, slotRWVars
<1>1. CASE RingCheck(w) \/ ClaimSlot(w) \/ UndoClaim(w) \/ CheckConsumerHealth(w)
           \/ AttachWriter(w)
  BY <1>1 DEF RingCheck, ClaimSlot, UndoClaim, CheckConsumerHealth, AttachWriter,
     BeginAcquireWrite
<1>2. CASE AcquireAndFill(w)
  BY <1>2 DEF AcquireAndFill, LockWrite, LoadState, EnterDraining, Drained,
     StartWriting, FillBuffer
<1>3. CASE CommitHandle(w) \/ ReleaseLock(w) \/ AcquireTimeout(w) \/ AbortHandle(w)
           \/ CrashProducer(w)
  BY <1>3 DEF CommitHandle, CommitGeneration, CommitState, PublishCommit,
     ReleaseLock, Unlock, AcquireTimeout, LockTimeout, AbortHandle, Abort,
     AbortState, CrashProducer, CrashWriter
<1>4. QED BY <1>1, <1>2, <1>3 DEF ProducerActs, ProducerStep

\* A writer gives its lock up before it works on another slot.
LEMMA LockNamedStep ==
    ASSUME SlotTypeOK, LockNamed, [SlotNext]_slotRWVars
    PROVE  LockNamed'
<1>1. ASSUME NEW w \in Writers, WriterActs(w)
      PROVE  LockNamed'
  <2> USE DEF SlotTypeOK, LockNamed, Owning, WriterPC
  <2>1. CASE LockWrite(w) \/ Unlock(w)
    BY SMT, <2>1 DEF LockWrite, Unlock
  <2>2. CASE CrashWriter(w)
    BY SMT, <2>2 DEF CrashWriter, slotVars
  <2>3. CASE (\E s \in Slots, id \in Ids : BeginAcquireWrite(w, s, id)) \/ LockTimeout(w)
    BY SMT, <2>3 DEF BeginAcquireWrite, LockTimeout, slotVars
  <2>4. CASE WriterStep(w) /\ ~LockWrite(w) /\ ~Unlock(w) /\ ~LockTimeout(w)
    <3>1. write_lock' = write_lock /\ wslot' = wslot
      BY <2>4 DEF WriterStep, LoadState, EnterDraining, Drained, DrainTimeout,
         RestoreCommitted, StartWriting, FillBuffer, CommitGeneration, CommitState,
         PublishCommit, Abort, AbortState, slotVars
    <3>2. wpc[w] \in Owning /\ wpc'[w] \in Owning
      BY SMT, <2>4 DEF WriterStep, LoadState, EnterDraining, Drained, DrainTimeout,
         RestoreCommitted, StartWriting, FillBuffer, CommitGeneration, CommitState,
         PublishCommit, Abort, AbortState
    <3>3. \A v \in Writers \ {w} : wpc'[v] = wpc[v]
      BY <1>1, WriterSparesWriters
    <3>4. QED BY SMT, <3>1, <3>2, <3>3
  <2>5. QED BY <1>1, <2>1, <2>2, <2>3, <2>4 DEF WriterActs
<1>2. ASSUME NEW r \in Readers, ReaderActs(r)
      PROVE  LockNamed'
  BY SMT, <1>2, ReaderFrame DEF LockNamed, writerVars
<1>3. CASE UNCHANGED slotRWVars
  BY <1>3 DEF LockNamed, slotRWVars, slotVars, writerVars
<1>4. QED BY <1>1, <1>2, <1>3, StepOfOne

\* The facts about types that the steps of a claim need.
LEMMA ClaimTypes ==
    ASSUME SlotInv, BlockInv
    PROVE  /\ commit_index \in Int /\ write_index \in Nat
           /\ producer \in Writers /\ Front \in Int
           /\ wpc \in [Writers -> WriterPC] /\ wslot \in [Writers -> Slots]
           /\ wid \in [Writers -> Nat]
           /\ slot_state \in [Slots -> SlotState]
           /\ buffer \in [Slots -> Int]
<1>1. SlotTypeOK /\ IndexTypes /\ producer \in Writers
  BY DEF SlotInv, BlockInv, ProducerPhase
<1>2. commit_index \in Int /\ wid \in [Writers -> Nat] /\ buffer \in [Slots -> Int]
  <2>1. Ids \subseteq Nat
    BY SlotRWAssumption
  <2>2. commit_index \in Int
    BY SMT, <1>1, <2>1 DEF SlotTypeOK, NoSlot
  <2>3. wid \in [Writers -> Nat]
    BY <1>1, <2>1 DEF SlotTypeOK
  <2>4. buffer \in [Slots -> Int]
    <3>1. Ids \cup {NoSlot, Torn} \subseteq Int
      BY SMT, <2>1 DEF NoSlot, Torn
    <3>2. buffer \in [Slots -> Ids \cup {NoSlot, Torn}]
      BY <1>1 DEF SlotTypeOK
    <3>3. QED BY <3>1, <3>2
  <2>5. QED BY <2>2, <2>3, <2>4
<1>3. write_index \in Nat /\ Front \in Int
  BY SMT, <1>1, DataBlockAssumption DEF IndexTypes, Front
<1>4. QED BY <1>1, <1>2, <1>3 DEF SlotTypeOK

\* A step of a writer in SlotRW is a step of the producer.
LEMMA OnlyProducer ==
    ASSUME BlockInv, NEW w \in Writers, wpc[w] \notin {"idle", "dead"}
    PROVE  w = producer
  BY DEF BlockInv, ProducerPhase

\* The contents follow the four kinds of moves.
LEMMA ContentsStep ==
    ASSUME SlotInv, BlockInv, ClaimInv, Front' \in Int,
           Quiet \/ Works \/ Commits \/ Publishes
    PROVE  RingContents'
<1> USE ClaimTypes DEF ClaimInv, RingContents
<1>1. CASE Quiet
  BY SMT, <1>1 DEF Quiet
<1>2. CASE Works
  BY <1>2 DEF Works
<1>3. CASE Commits
  <2>1. wid[producer] = Front /\ wslot[producer] = wid[producer] % Cap
    BY <1>3 DEF Commits, ClaimPhase, Front, Pending, Claimed
  <2>2. wslot[producer] \in Slots /\ wid[producer] \in Nat
    OBVIOUS
  <2>3. QED BY SMT, <1>3, <2>1, <2>2 DEF Commits
<1>4. CASE Publishes
  <2>1. wid[producer] = Front - 1
    <3>1. ~Pending
      BY <1>4 DEF Publishes, ClaimPhase, Pending, Claimed
    <3>2. QED BY <1>4, <3>1 DEF Publishes, ClaimPhase, Front
  <2>2. QED BY SMT, <1>4, <2>1 DEF Publishes
<1>5. QED BY <1>1, <1>2, <1>3, <1>4

\* Every producer's step keeps the phase of the claim and either leaves the ring
\* alone or is one of the three moves of a claim.
LEMMA ClaimMoves ==
    ASSUME SlotInv, BlockInv, ClaimInv, LockNamed, NEW w \in Writers, ProducerActs(w)
    PROVE  ClaimPhase' /\ Front' \in Int /\ (Quiet \/ Works \/ Commits \/ Publishes)
<1>0. ClaimPhase /\ commit_index < Front
  BY DEF ClaimInv, RingContents
<1> USE ClaimTypes, <1>0
<1>a. /\ ppc \in {"idle", "claim", "slot", "aborted", "undo"}
      /\ ppc \in {"idle", "claim", "undo"} => wpc[producer] \in {"idle", "dead"}
      /\ \A v \in Writers \ {producer} : wpc[v] \in {"idle", "dead"}
  BY DEF BlockInv, ProducerPhase
<1>1. CASE RingCheck(w) \/ CheckConsumerHealth(w)
  <2>1. UNCHANGED <<wpc, wslot, wid, slot_state, buffer, commit_index, write_index,
                    producer>>
    BY <1>1 DEF RingCheck, CheckConsumerHealth, slotRWVars, writerVars, slotVars,
       indexVars, producerVars
  <2>2. ppc = "idle" /\ ppc' \in {"idle", "claim"} /\ wpc[producer] = "idle"
    BY <1>1 DEF RingCheck, CheckConsumerHealth, producerVars
  <2>3. Front' = Front
    BY <2>1, <2>2 DEF Front, Pending, Claimed
  <2>4. ClaimPhase'
    BY <2>1, <2>2 DEF ClaimPhase, Claimed
  <2>5. QED BY SMT, <2>1, <2>2, <2>3, <2>4 DEF Quiet
<1>2. CASE ClaimSlot(w)
  <2>1. /\ UNCHANGED <<slot_state, buffer, commit_index, producer>>
        /\ w = producer /\ wpc[w] = "idle" /\ wpc'[w] = "lock" /\ ppc = "claim" /\ ppc' = "slot"
        /\ write_index' = write_index + 1
        /\ wid'[w] = write_index /\ wslot'[w] = write_index % Cap
    BY <1>2 DEF ClaimSlot, BeginAcquireWrite, slotVars
  <2>2. Front' = Front /\ Front = write_index
    BY SMT, <2>1 DEF Front, Pending, Claimed
  <2>3. ClaimPhase'
    BY SMT, <2>1, <2>2 DEF ClaimPhase, Claimed
  <2>4. QED BY SMT, <2>1, <2>2, <2>3 DEF Quiet
<1>3. CASE AttachWriter(w)
  <2>1. UNCHANGED <<wpc, slot_state, buffer, commit_index, write_index>>
    BY <1>3 DEF AttachWriter, slotRWVars, writerVars, slotVars, indexVars
  <2>2. wpc[producer] = "dead" /\ producer' = w /\ ppc' = "idle" /\ wpc[w] = "idle"
    BY <1>3, <1>a DEF AttachWriter
  <2>3. ~NoDeadProducer'
    BY <2>1, <2>2 DEF NoDeadProducer, DeadProducers
  <2>4. Front' = write_index /\ Front' >= Front
    BY SMT, <2>1, <2>2 DEF Front, Pending, Claimed
  <2>5. ClaimPhase'
    BY <2>1, <2>2 DEF ClaimPhase, Claimed
  <2>6. QED BY SMT, <2>1, <2>3, <2>4, <2>5 DEF Quiet
<1>4. CASE UndoClaim(w)
  <2>1. /\ UNCHANGED <<slot_state, buffer, commit_index, producer, wpc>>
        /\ w = producer /\ wpc[w] = "idle" /\ ppc = "undo" /\ ppc' = "idle"
        /\ write_index' = write_index - 1
    BY <1>4 DEF UndoClaim, slotRWVars, slotVars, writerVars
  <2>2. Front' = Front
    BY <2>1 DEF Front, Pending, Claimed
  <2>3. ClaimPhase'
    BY <2>1 DEF ClaimPhase, Claimed
  <2>4. QED BY SMT, <2>1, <2>2, <2>3 DEF Quiet
<1>5. CASE CrashProducer(w)
  <2>1. UNCHANGED <<slot_state, buffer, commit_index, write_index, producer, ppc>>
    BY <1>5 DEF CrashProducer, CrashWriter, slotVars, dbVars, indexVars, producerVars
  <2>2. wpc'[producer] = "dead"
    BY <1>5 DEF CrashProducer, CrashWriter
  <2>3. ~NoDeadProducer'
    BY <2>1, <2>2 DEF NoDeadProducer, DeadProducers
  <2>4. Front' \in Int /\ Front' >= Front
    BY SMT, <2>1, <2>2 DEF Front, Pending, Claimed
  <2>5. ClaimPhase'
    BY <2>1, <2>2 DEF ClaimPhase, Claimed
  <2>6. QED BY <2>1, <2>3, <2>4, <2>5 DEF Quiet
<1>6. CASE AcquireTimeout(w)
  <2>1. w = producer
    BY <1>6, OnlyProducer DEF AcquireTimeout, LockTimeout
  <2>2. UNCHANGED <<slot_state, buffer, commit_index, write_index, producer>>
    BY <1>6 DEF AcquireTimeout, LockTimeout, slotVars, indexVars
  <2>3. wpc[w] = "lock" /\ wpc'[w] = "idle" /\ ppc' = "idle"
    BY <1>6 DEF AcquireTimeout, LockTimeout
  <2>4. ~NoDeadProducer'
    <3>1. write_lock[wslot[w]] # NoPid /\ write_lock[wslot[w]] \in Writers
      BY <1>6 DEF AcquireTimeout, LockTimeout, SlotInv, SlotTypeOK
    <3>2. wpc[write_lock[wslot[w]]] = "dead"
      BY SMT, <1>a, <2>1, <2>3, <3>1 DEF LockNamed, Owning, WriterPC
    <3>3. wpc'[write_lock[wslot[w]]] = "dead"
      BY <1>6, <3>1, <3>2 DEF AcquireTimeout, LockTimeout
    <3>4. QED BY <3>1, <3>3 DEF NoDeadProducer, DeadProducers
  <2>5. Front' \in Int /\ Front' >= Front
    BY SMT, <2>1, <2>2, <2>3 DEF Front, Pending, Claimed
  <2>6. ClaimPhase'
    BY <2>1, <2>2, <2>3 DEF ClaimPhase, Claimed
  <2>7. QED BY <2>2, <2>4, <2>5, <2>6 DEF Quiet
<1>7. CASE ReleaseLock(w)
  <2>1. w = producer /\ wpc[w] = "unlock" /\ wpc'[w] = "idle"
    BY <1>7, OnlyProducer DEF ReleaseLock, Unlock
  <2>2. UNCHANGED <<slot_state, buffer, commit_index, write_index, producer>>
    BY <1>7 DEF ReleaseLock, Unlock, indexVars
  <2>3. ppc' = IF ppc = "aborted" THEN "undo" ELSE "idle"
    BY <1>7 DEF ReleaseLock
  <2>4. Front' = Front
    BY <1>a, <2>1, <2>2, <2>3 DEF Front, Pending, Claimed, ClaimPhase
  <2>5. ClaimPhase'
    BY <2>1, <2>2 DEF ClaimPhase, Claimed
  <2>6. QED BY SMT, <2>1, <2>2, <2>4, <2>5 DEF Quiet
<1>8. ASSUME UNCHANGED dbVars,
             LockWrite(w) \/ LoadState(w) \/ Drained(w) \/ CommitGeneration(w) \/ Abort(w)
      PROVE  ClaimPhase' /\ Front' = Front /\ Quiet
  <2>1. w = producer
    BY <1>8, OnlyProducer DEF LockWrite, LoadState, Drained, CommitGeneration, Abort
  <2>2. wpc[w] \in Claimed
    BY <1>8, <2>1 DEF LockWrite, LoadState, Drained, CommitGeneration, Abort, Claimed,
       ClaimPhase
  <2>3. wpc'[w] \in Claimed
    BY <1>8 DEF LockWrite, LoadState, Drained, CommitGeneration, Abort, Claimed
  <2>4. UNCHANGED <<slot_state, buffer, commit_index, wslot, wid>>
    BY <1>8 DEF LockWrite, LoadState, Drained, CommitGeneration, Abort, slotVars
  <2>5. UNCHANGED <<write_index, producer, ppc>>
    BY <1>8 DEF dbVars, indexVars, producerVars
  <2>6. Front' = Front
    BY <2>1, <2>2, <2>3, <2>5 DEF Front, Pending
  <2>7. ClaimPhase'
    BY <2>1, <2>2, <2>3, <2>4, <2>5 DEF ClaimPhase, Claimed
  <2>8. QED BY SMT, <2>1, <2>2, <2>3, <2>4, <2>5, <2>6, <2>7 DEF Quiet, Claimed
<1>9. ASSUME UNCHANGED dbVars, EnterDraining(w) \/ StartWriting(w) \/ FillBuffer(w)
      PROVE  ClaimPhase' /\ Works
  <2>1. w = producer
    BY <1>9, OnlyProducer DEF EnterDraining, StartWriting, FillBuffer
  <2>2. wpc[w] \in Claimed /\ wpc'[w] \in Claimed
    BY <1>9 DEF EnterDraining, StartWriting, FillBuffer, Claimed
  <2>3. UNCHANGED <<commit_index, wslot, wid>>
    BY <1>9 DEF EnterDraining, StartWriting, FillBuffer
  <2>4. UNCHANGED <<write_index, producer, ppc>>
    BY <1>9 DEF dbVars, indexVars, producerVars
  <2>5. slot_state'[wslot[w]] # "COMMITTED"
    <3>1. Knows(w)
      BY DEF SlotInv, WriterKnows
    <3>2. CASE EnterDraining(w) \/ StartWriting(w)
      BY <3>2 DEF EnterDraining, StartWriting
    <3>3. CASE FillBuffer(w)
      BY <3>1, <3>3 DEF FillBuffer, slotVars, Knows
    <3>4. QED BY <1>9, <3>2, <3>3
  <2>6. \A s \in Slots \ {wslot[producer]} :
           slot_state'[s] = slot_state[s] /\ buffer'[s] = buffer[s]
    BY <1>9, <2>1 DEF EnterDraining, StartWriting, FillBuffer, slotVars
  <2>7. Front' = Front
    BY <2>1, <2>2, <2>4 DEF Front, Pending
  <2>8. ClaimPhase'
    BY <2>1, <2>2, <2>3, <2>4 DEF ClaimPhase, Claimed
  <2>9. QED BY <2>1, <2>2, <2>3, <2>4, <2>5, <2>6, <2>7, <2>8 DEF Works, Claimed
<1>10. CASE AbortState(w) /\ AbortHandle(w)
  <2>1. w = producer /\ wpc[w] = "abort_state" /\ wpc'[w] = "unlock" /\ ppc' = "aborted"
    BY <1>10, OnlyProducer DEF AbortHandle, AbortState, Abort
  <2>2. UNCHANGED <<commit_index, write_index, producer, buffer>>
    BY <1>10 DEF AbortHandle, AbortState, Abort, indexVars
  <2>3. slot_state' = [slot_state EXCEPT ![wslot[w]] = "FREE"]
    BY <1>10 DEF AbortState
  <2>4. Front' = Front
    BY <2>1, <2>2 DEF Front, Pending, Claimed
  <2>5. ClaimPhase'
    BY <2>1, <2>2 DEF ClaimPhase, Claimed
  <2>6. QED BY <2>1, <2>2, <2>3, <2>4, <2>5 DEF Works, Claimed
<1>11. ASSUME UNCHANGED dbVars, CommitState(w)
       PROVE  ClaimPhase' /\ Commits /\ Front' \in Int
  <2>1. w = producer /\ wpc[w] = "commit_state" /\ wpc'[w] = "publish"
    BY <1>11, OnlyProducer, DataBlockAssumption DEF CommitState
  <2>2. UNCHANGED <<commit_index, wslot, wid, buffer>>
    BY <1>11 DEF CommitState
  <2>3. UNCHANGED <<write_index, producer, ppc>>
    BY <1>11 DEF dbVars, indexVars, producerVars
  <2>4. slot_state' = [slot_state EXCEPT ![wslot[w]] = "COMMITTED"]
    BY <1>11 DEF CommitState
  <2>5. buffer[wslot[w]] = wid[w]
    BY <2>1 DEF SlotInv, WriterKnows, Knows
  <2>6. ppc = "slot"
    BY <2>1 DEF ClaimPhase, Claimed
  <2>7. Front' = Front + 1
    BY SMT, <2>1, <2>3, <2>6 DEF Front, Pending, Claimed
  <2>8. ClaimPhase'
    BY <2>1, <2>2, <2>3, <2>4, <2>5 DEF ClaimPhase, Claimed
  <2>9. QED BY SMT, <2>1, <2>2, <2>3, <2>4, <2>5, <2>7, <2>8 DEF Commits
<1>12. ASSUME UNCHANGED dbVars, PublishCommit(w)
       PROVE  ClaimPhase' /\ Publishes /\ Front' \in Int
  <2>1. w = producer /\ wpc[w] = "publish" /\ wpc'[w] = "unlock"
    BY <1>12, OnlyProducer DEF PublishCommit
  <2>2. UNCHANGED <<slot_state, buffer>>
    BY <1>12 DEF PublishCommit, slotVars
  <2>3. UNCHANGED <<write_index, producer, ppc>>
    BY <1>12 DEF dbVars, indexVars, producerVars
  <2>4. commit_index' = wid[w]
    BY <1>12 DEF PublishCommit
  <2>5. ppc = "slot"
    BY <2>1 DEF ClaimPhase, Claimed
  <2>6. Front' = Front
    BY <2>1, <2>3, <2>5 DEF Front, Pending, Claimed
  <2>7. ClaimPhase'
    BY <2>1, <2>3, <2>5 DEF ClaimPhase, Claimed
  <2>8. QED BY <2>1, <2>2, <2>3, <2>4, <2>6, <2>7 DEF Publishes
<1>13. ProducerActs(w) =>
         \/ RingCheck(w) \/ CheckConsumerHealth(w) \/ ClaimSlot(w) \/ AttachWriter(w)
         \/ UndoClaim(w) \/ CrashProducer(w) \/ AcquireTimeout(w) \/ ReleaseLock(w)
         \/ UNCHANGED dbVars /\ (\/ LockWrite(w) \/ LoadState(w) \/ Drained(w)
                                 \/ CommitGeneration(w) \/ Abort(w))
         \/ UNCHANGED dbVars /\ (EnterDraining(w) \/ StartWriting(w) \/ FillBuffer(w))
         \/ AbortState(w) /\ AbortHandle(w)
         \/ UNCHANGED dbVars /\ CommitState(w)
         \/ UNCHANGED dbVars /\ PublishCommit(w)
  BY DEF ProducerActs, ProducerStep, AcquireAndFill, CommitHandle, AbortHandle
<1>15. QED
  BY <1>1, <1>2, <1>3, <1>4, <1>5, <1>6, <1>7, <1>8, <1>9, <1>10, <1>11, <1>12, <1>13
     DEF Quiet, Works

-----------------------------------------------------------------------------
(* What a consumer's handle names                                            *)

Live(c) == cpc[c] \notin {"detached", "dead"}
Busy(c) == rpc[c] \notin {"idle", "dead", "dead_registered"}
HasHandle(c) == Busy(c) \/ cpc[c] = "advance"

HandleTypes ==
    /\ cpc \in [Consumers -> {"detached", "join_load", "join_store", "ready",
                              "advance", "scan", "dead"}]
    /\ ok \in [Consumers -> BOOLEAN]
    /\ scan \in [Consumers -> Nat]
    /\ last_consumed \in [Consumers -> Ids \cup {NoSlot}]

\* A consumer reads only between its attach and its release, and its heartbeat
\* slot is its own.
ConsumerPhase(c) ==
    /\ cpc[c] \in {"detached", "join_load", "join_store", "advance", "scan"}
          => rpc[c] = "idle"
    /\ cpc[c] = "dead" <=> rpc[c] \in {"dead", "dead_registered"}
    /\ cpc[c] \in {"join_load", "join_store", "scan"} =>
          policy = "Sequential_sync" /\ hb[c] # NoHb
    /\ cpc[c] = "advance" => Ordered
    /\ cpc[c] = "detached" => hb[c] = NoHb
    /\ Live(c) /\ hb[c] # NoHb => consumer_pid[hb[c]] = c

\* The handle of an ordered consumer names the slot_id its position names, until
\* the position has moved on.
HandleNamesNext(c) ==
    /\ Busy(c) => rslot[c] = slot_id[c] % Cap
    /\ policy = "Latest_only" /\ Busy(c) => slot_id[c] \in Ids
    /\ policy = "Sequential" /\ HasHandle(c) => slot_id[c] = read_index
    /\ policy = "Sequential_sync" /\ HasHandle(c) =>
          hb[c] # NoHb /\ slot_id[c] = position[hb[c]]
    /\ cpc[c] = "scan" => position[hb[c]] = slot_id[c] + 1

\* A Sequential block has one consumer.
OneSequentialConsumer ==
    policy = "Sequential" => \A c, d \in Consumers : Live(c) /\ Live(d) => c = d

HandleInv ==
    /\ HandleTypes /\ OneSequentialConsumer
    /\ \A c \in Consumers : ConsumerPhase(c) /\ HandleNamesNext(c)

\* A consumer whose own variables do not change keeps its part, unless its
\* position or a Sequential read_index moves.
LEMMA OtherHandle ==
    ASSUME HandleInv, NEW d \in Consumers, policy' = policy,
           UNCHANGED <<cpc[d], hb[d], slot_id[d], rpc[d], rslot[d]>>,
           Live(d) /\ hb[d] # NoHb =>
               consumer_pid'[hb[d]] = d /\ position'[hb[d]] = position[hb[d]],
           policy = "Sequential" /\ Live(d) => read_index' = read_index
    PROVE  ConsumerPhase(d)' /\ HandleNamesNext(d)'
<1>1. ConsumerPhase(d) /\ HandleNamesNext(d)
  BY DEF HandleInv
<1>2. ConsumerPhase(d)'
  BY <1>1 DEF ConsumerPhase, Live, Ordered
<1>3. HasHandle(d) \/ cpc[d] = "scan" => Live(d)
  BY <1>1 DEF ConsumerPhase, HasHandle, Busy, Live
<1>4. cpc[d] = "scan" => hb[d] # NoHb
  BY <1>1 DEF ConsumerPhase
<1>5. HandleNamesNext(d)'
  BY <1>1, <1>3, <1>4 DEF HandleNamesNext, HasHandle, Busy
<1>6. QED BY <1>2, <1>5

\* Two attached consumers have different heartbeat slots.
LEMMA HeartbeatsApart ==
    ASSUME HandleInv, NEW c \in Consumers, NEW d \in Consumers \ {c}, Live(c), Live(d),
           hb[d] # NoHb
    PROVE  hb[c] # hb[d]
  BY DEF HandleInv, ConsumerPhase

\* Producers leave the handles alone.
LEMMA ProducerKeepsHandles ==
    ASSUME IndexTypes, HandleInv, NEW w \in Writers, ProducerActs(w)
    PROVE  HandleInv'
<1>1. UNCHANGED <<policy, read_index, position, cpc, hb, slot_id, ok, last_consumed, scan,
                  rpc, rslot>>
  BY ProducerSparesConsumers DEF consumerVars, readerVars
<1>2. HandleTypes' /\ OneSequentialConsumer'
  BY <1>1 DEF HandleInv, HandleTypes, OneSequentialConsumer, Live
<1>3. ASSUME NEW d \in Consumers, Live(d), hb[d] # NoHb
      PROVE  consumer_pid'[hb[d]] = d
  <2>1. consumer_pid[hb[d]] = d /\ cpc[d] # "dead"
    BY <1>3 DEF HandleInv, ConsumerPhase, Live
  <2>2. QED BY <1>3, <2>1, ProducerSparesConsumers DEF IndexTypes
<1>4. \A d \in Consumers : ConsumerPhase(d)' /\ HandleNamesNext(d)'
  BY <1>1, <1>3, OtherHandle
<1>5. QED BY <1>2, <1>4 DEF HandleInv

\* A consumer's step leaves the other consumers' variables alone.
LEMMA ConsumerSparesOthers ==
    ASSUME SlotTypeOK, IndexTypes, HandleTypes, NEW c \in Consumers, ConsumerActs(c)
    PROVE  \A d \in Consumers \ {c} :
             /\ cpc'[d] = cpc[d] /\ hb'[d] = hb[d] /\ slot_id'[d] = slot_id[d]
             /\ scan'[d] = scan[d] /\ min_pos'[d] = min_pos[d]
             /\ rpc'[d] = rpc[d] /\ rslot'[d] = rslot[d] /\ seen'[d] = seen[d]
<1> USE DEF SlotTypeOK, IndexTypes, HandleTypes, Consumers, slotRWVars, readerVars
<1>1. CASE JoinLoad(c) \/ JoinStore(c) \/ AdvancePosition(c)
  BY SMT, <1>1 DEF JoinLoad, JoinStore, AdvancePosition
<1>2. CASE ScanPosition(c) \/ StoreMinimum(c)
  BY SMT, <1>2 DEF ScanPosition, StoreMinimum
<1>3. CASE RegisterHeartbeat(c) \/ Detach(c)
  BY SMT, <1>3 DEF RegisterHeartbeat, Detach
<1>4. CASE AcquireConsumeSlot(c) \/ CrashConsumer(c)
  BY SMT, <1>4 DEF AcquireConsumeSlot, BeginAcquireRead, CrashConsumer, CrashReader
<1>5. CASE AcquireReadStep(c)
  BY SMT, <1>5 DEF AcquireReadStep, CheckCommitted, RegisterReader, RecheckCommitted,
     UnregisterReader, CaptureGeneration, dbVars, consumerVars
<1>6. CASE ValidateHandle(c)
  BY <1>6 DEF ValidateHandle, EndRead
<1>7. CASE ReleaseHandle(c)
  BY <1>7 DEF ReleaseHandle, ReleaseRead
<1>8. QED BY <1>1, <1>2, <1>3, <1>4, <1>5, <1>6, <1>7 DEF ConsumerActs, ConsumerStep

\* Nor does it touch their heartbeat slots, positions or, where they use it, the
\* shared read_index.
LEMMA ConsumerKeepsPlaces ==
    ASSUME IndexTypes, HandleInv, NEW c \in Consumers, ConsumerActs(c),
           NEW d \in Consumers \ {c}, Live(d)
    PROVE  /\ hb[d] # NoHb => consumer_pid'[hb[d]] = d /\ position'[hb[d]] = position[hb[d]]
           /\ policy = "Sequential" => read_index' = read_index
<1>1. consumer_pid \in [HbSlots -> Consumers \cup {NoPid}] /\ position \in [HbSlots -> Nat]
  BY DEF IndexTypes
<1>2. /\ hb[d] # NoHb => consumer_pid[hb[d]] = d
      /\ Live(c) /\ hb[c] # NoHb => consumer_pid[hb[c]] = c
  BY DEF HandleInv, ConsumerPhase
<1>3. hb[d] # NoHb => hb[d] \in HbSlots
  BY DEF IndexTypes
<1>4. d # NoPid
  BY DataBlockAssumption DEF Consumers
<1>5. Live(c) /\ hb[d] # NoHb => hb[c] # hb[d]
  BY HeartbeatsApart
<1>6. policy = "Sequential" => ~Live(c)
  BY DEF HandleInv, OneSequentialConsumer
<1>7. CASE RegisterHeartbeat(c)
  BY <1>1, <1>2, <1>3, <1>4, <1>7 DEF RegisterHeartbeat, indexVars
<1>8. CASE Detach(c)
  BY <1>1, <1>2, <1>3, <1>8 DEF Detach, indexVars
<1>9. CASE JoinStore(c)
  BY <1>1, <1>2, <1>3, <1>5, <1>9 DEF JoinStore, Live, indexVars
<1>10. CASE AdvancePosition(c)
  BY <1>1, <1>2, <1>3, <1>5, <1>6, <1>10 DEF AdvancePosition, Live
<1>11. CASE StoreMinimum(c)
  BY <1>2, <1>6, <1>11 DEF StoreMinimum, Live, tableVars
<1>12. CASE JoinLoad(c) \/ AcquireConsumeSlot(c) \/ AcquireReadStep(c) \/ ValidateHandle(c)
            \/ ReleaseHandle(c) \/ ScanPosition(c) \/ CrashConsumer(c)
  BY <1>2, <1>12 DEF JoinLoad, AcquireConsumeSlot, AcquireReadStep, ValidateHandle,
     ReleaseHandle, ScanPosition, CrashConsumer, dbVars, indexVars, tableVars
<1>13. QED BY <1>7, <1>8, <1>9, <1>10, <1>11, <1>12 DEF ConsumerActs, ConsumerStep

\* The consumer's own handle, step by step.
LEMMA OwnHandle ==
    ASSUME SlotTypeOK, IndexTypes, HandleInv, NEW c \in Consumers, ConsumerActs(c)
    PROVE  ConsumerPhase(c)' /\ HandleNamesNext(c)'
<1>0. ConsumerPhase(c) /\ HandleNamesNext(c) /\ policy' = policy
  BY ConsumerSparesProducer DEF HandleInv
<1>1. /\ cpc \in [Consumers -> {"detached", "join_load", "join_store", "ready",
                              "advance", "scan", "dead"}]
      /\ rpc \in [Consumers -> ReaderPC] /\ rslot \in [Consumers -> Slots]
      /\ hb \in [Consumers -> HbSlots \cup {NoHb}] /\ slot_id \in [Consumers -> Nat]
      /\ consumer_pid \in [HbSlots -> Consumers \cup {NoPid}]
      /\ position \in [HbSlots -> Nat]
  BY DEF HandleInv, HandleTypes, SlotTypeOK, IndexTypes, Consumers
<1> USE <1>0, <1>1 DEF ConsumerPhase, HandleNamesNext, HasHandle, Busy, Live, Ordered
<1>2. CASE RegisterHeartbeat(c)
  <2>1. UNCHANGED <<rpc, rslot, read_index, position, slot_id>>
    BY <1>2 DEF RegisterHeartbeat, slotRWVars, readerVars, indexVars
  <2>2. cpc[c] = "detached" /\ cpc'[c] \in {"ready", "join_load"}
    BY <1>2 DEF RegisterHeartbeat
  <2>3. cpc'[c] = "join_load" => policy = "Sequential_sync" /\ hb'[c] # NoHb
    BY SMT, <1>2 DEF RegisterHeartbeat, HbSlots, NoHb
  <2>4. hb'[c] # NoHb => consumer_pid'[hb'[c]] = c
    BY SMT, <1>2 DEF RegisterHeartbeat
  <2>5. QED BY <2>1, <2>2, <2>3, <2>4
<1>3. CASE Detach(c)
  <2>1. UNCHANGED <<rpc, rslot, slot_id>> /\ rpc[c] = "idle" /\ cpc'[c] = "detached"
        /\ hb'[c] = NoHb
    BY <1>3 DEF Detach, slotRWVars, readerVars
  <2>2. QED BY <2>1
<1>4. CASE JoinLoad(c) \/ JoinStore(c)
  <2>1. UNCHANGED <<rpc, rslot, hb, consumer_pid>> /\ cpc[c] \in {"join_load", "join_store"}
        /\ cpc'[c] \in {"join_store", "ready"}
    BY <1>4 DEF JoinLoad, JoinStore, slotRWVars, readerVars, tableVars
  <2>2. QED BY <2>1
<1>5. CASE AdvancePosition(c)
  <2>1. UNCHANGED <<rpc, rslot, hb, consumer_pid, slot_id>> /\ cpc[c] = "advance"
    BY <1>5 DEF AdvancePosition, slotRWVars, readerVars
  <2>2. CASE policy = "Sequential"
    <3>1. cpc'[c] = "ready"
      BY <1>5, <2>2 DEF AdvancePosition
    <3>2. QED BY <2>1, <2>2, <3>1
  <2>3. CASE policy = "Sequential_sync"
    <3>1. cpc'[c] = "scan" /\ position' = [position EXCEPT ![hb[c]] = slot_id[c] + 1]
      BY <1>5, <2>3 DEF AdvancePosition
    <3>2. hb[c] \in HbSlots
      BY <2>1, <2>3
    <3>3. position'[hb[c]] = slot_id[c] + 1
      BY <3>1, <3>2
    <3>4. QED BY <2>1, <2>3, <3>1, <3>3
  <2>4. QED BY <2>1, <2>2, <2>3
<1>6. CASE ScanPosition(c) \/ StoreMinimum(c)
  <2>1. /\ UNCHANGED <<rpc, rslot, hb, consumer_pid, position, slot_id>>
        /\ cpc[c] = "scan" /\ cpc'[c] \in {"scan", "ready"}
    BY <1>6 DEF ScanPosition, StoreMinimum, slotRWVars, readerVars, tableVars
  <2>2. QED BY <2>1
<1>7. CASE AcquireConsumeSlot(c)
  <2>1. /\ UNCHANGED <<cpc, hb, consumer_pid, position, read_index>>
        /\ cpc[c] = "ready" /\ rpc'[c] = "check1"
        /\ slot_id'[c] = NextSlotToRead(c) /\ rslot'[c] = NextSlotToRead(c) % Cap
        /\ NextSlotToRead(c) # NoSlot
    BY <1>7 DEF AcquireConsumeSlot, BeginAcquireRead, tableVars, indexVars, Consumers
  <2>2. policy = "Latest_only" => NextSlotToRead(c) \in Ids
    BY <2>1 DEF NextSlotToRead, SlotTypeOK
  <2>3. policy = "Sequential" => NextSlotToRead(c) = read_index
    BY <2>1 DEF NextSlotToRead
  <2>4. policy = "Sequential_sync" => hb[c] # NoHb /\ NextSlotToRead(c) = position[hb[c]]
    BY <2>1 DEF NextSlotToRead
  <2>5. QED BY <2>1, <2>2, <2>3, <2>4
<1>8. CASE AcquireReadStep(c) \/ ValidateHandle(c)
  <2>1. UNCHANGED <<cpc, hb, consumer_pid, position, read_index, slot_id, rslot>>
    BY <1>8 DEF AcquireReadStep, ValidateHandle, CheckCommitted, RegisterReader,
       RecheckCommitted, UnregisterReader, CaptureGeneration, EndRead, dbVars,
       consumerVars, tableVars, indexVars
  <2>2. Busy(c) /\ rpc'[c] \notin {"dead", "dead_registered"}
    BY <1>8 DEF AcquireReadStep, ValidateHandle, CheckCommitted, RegisterReader,
       RecheckCommitted, UnregisterReader, CaptureGeneration, EndRead, Consumers
  <2>3. QED BY <2>1, <2>2
<1>9. CASE ReleaseHandle(c)
  <2>1. /\ UNCHANGED <<hb, consumer_pid, position, read_index, slot_id, rslot>>
        /\ rpc[c] = "releasing" /\ rpc'[c] = "idle"
        /\ cpc'[c] \in {"ready", "advance"} /\ (cpc'[c] = "advance" => Ordered)
    BY <1>9 DEF ReleaseHandle, ReleaseRead, tableVars, indexVars, Consumers
  <2>2. QED BY <2>1
<1>10. CASE CrashConsumer(c)
  <2>1. /\ UNCHANGED <<hb, consumer_pid, position, read_index, slot_id, rslot>>
        /\ rpc'[c] \in {"dead", "dead_registered"} /\ cpc'[c] = "dead"
    BY <1>10 DEF CrashConsumer, CrashReader, tableVars, indexVars, Consumers
  <2>2. QED BY <2>1
<1>11. QED
  BY <1>2, <1>3, <1>4, <1>5, <1>6, <1>7, <1>8, <1>9, <1>10 DEF ConsumerActs, ConsumerStep

\* The types of the consumers' variables, and the one consumer of a Sequential block.
LEMMA ConsumerTypes ==
    ASSUME SlotTypeOK, IndexTypes, HandleInv, NEW c \in Consumers, ConsumerActs(c)
    PROVE  HandleTypes' /\ OneSequentialConsumer'
<1>0. HandleTypes /\ OneSequentialConsumer /\ policy' = policy
  BY ConsumerSparesProducer DEF HandleInv
<1>1. HandleTypes'
  <2> USE <1>0 DEF HandleTypes
  <2>1. CASE JoinLoad(c) \/ JoinStore(c) \/ AdvancePosition(c)
    BY SMT, <2>1 DEF JoinLoad, JoinStore, AdvancePosition
  <2>2. CASE ScanPosition(c) \/ StoreMinimum(c)
    BY SMT, <2>2 DEF ScanPosition, StoreMinimum, HbSlots
  <2>3. CASE RegisterHeartbeat(c) \/ Detach(c)
    BY <2>3 DEF RegisterHeartbeat, Detach
  <2>4. CASE AcquireConsumeSlot(c) \/ CrashConsumer(c)
    BY <2>4 DEF AcquireConsumeSlot, CrashConsumer
  <2>5. CASE AcquireReadStep(c)
    BY <2>5 DEF AcquireReadStep, dbVars, consumerVars
  <2>6. CASE ValidateHandle(c)
    <3>1. UNCHANGED <<cpc, scan, last_consumed>>
      BY <2>6 DEF ValidateHandle
    <3>2. ok' \in [Consumers -> BOOLEAN]
      <4>1. PICK b \in BOOLEAN : ok' = [ok EXCEPT ![c] = ValidateRead(c) /\ b]
        BY <2>6, DataBlockAssumption DEF ValidateHandle
      <4>2. (ValidateRead(c) /\ b) \in BOOLEAN
        BY DEF ValidateRead
      <4>3. QED BY <4>1, <4>2
    <3>3. QED BY <3>1, <3>2
  <2>7. CASE ReleaseHandle(c)
    <3>1. policy = "Latest_only" => slot_id[c] \in Ids
      BY <2>7 DEF ReleaseHandle, ReleaseRead, HandleInv, HandleNamesNext, Busy
    <3>2. last_consumed' \in [Consumers -> Ids \cup {NoSlot}]
      BY <2>7, <3>1 DEF ReleaseHandle
    <3>3. UNCHANGED scan /\ ok' \in [Consumers -> BOOLEAN]
      BY <2>7 DEF ReleaseHandle
    <3>4. cpc' = [cpc EXCEPT ![c] = IF ok[c] /\ Ordered THEN "advance" ELSE "ready"]
      BY <2>7 DEF ReleaseHandle
    <3>5. QED BY <3>2, <3>3, <3>4
  <2>8. QED
    BY <2>1, <2>2, <2>3, <2>4, <2>5, <2>6, <2>7 DEF ConsumerActs, ConsumerStep
<1>2. OneSequentialConsumer'
  <2>1. \A d \in Consumers \ {c} : cpc'[d] = cpc[d]
    BY <1>0, ConsumerSparesOthers
  <2>2. CASE RegisterHeartbeat(c)
    BY <1>0, <2>1, <2>2 DEF RegisterHeartbeat, OneSequentialConsumer, Live
  <2>3. CASE ~RegisterHeartbeat(c)
    <3>1. cpc[c] = "detached" => cpc'[c] = "detached"
      <4>1. ConsumerPhase(c)
        BY DEF HandleInv
      <4>2. CASE JoinLoad(c) \/ JoinStore(c) \/ AdvancePosition(c) \/ ScanPosition(c)
                 \/ StoreMinimum(c) \/ Detach(c) \/ AcquireConsumeSlot(c) \/ CrashConsumer(c)
        BY <4>2 DEF JoinLoad, JoinStore, AdvancePosition, ScanPosition, StoreMinimum,
           Detach, AcquireConsumeSlot, CrashConsumer
      <4>3. CASE AcquireReadStep(c) \/ ValidateHandle(c)
        BY <4>3 DEF AcquireReadStep, ValidateHandle, dbVars, consumerVars
      <4>4. CASE ReleaseHandle(c)
        BY <4>1, <4>4 DEF ReleaseHandle, ReleaseRead, ConsumerPhase
      <4>5. QED BY <2>3, <4>2, <4>3, <4>4 DEF ConsumerActs, ConsumerStep
    <3>2. cpc[c] = "dead" => cpc'[c] = "dead"
      <4>1. ConsumerPhase(c)
        BY DEF HandleInv
      <4>2. CASE JoinLoad(c) \/ JoinStore(c) \/ AdvancePosition(c) \/ ScanPosition(c)
                 \/ StoreMinimum(c) \/ Detach(c) \/ AcquireConsumeSlot(c) \/ CrashConsumer(c)
        BY <4>2 DEF JoinLoad, JoinStore, AdvancePosition, ScanPosition, StoreMinimum,
           Detach, AcquireConsumeSlot, CrashConsumer
      <4>3. CASE AcquireReadStep(c) \/ ValidateHandle(c)
        BY <4>3 DEF AcquireReadStep, ValidateHandle, dbVars, consumerVars
      <4>4. CASE ReleaseHandle(c)
        BY <4>1, <4>4 DEF ReleaseHandle, ReleaseRead, ConsumerPhase
      <4>5. QED BY <2>3, <4>2, <4>3, <4>4 DEF ConsumerActs, ConsumerStep
    <3>3. QED BY <1>0, <2>1, <3>1, <3>2 DEF OneSequentialConsumer, Live
  <2>4. QED BY <2>2, <2>3
<1>3. QED BY <1>1, <1>2

\* Every step keeps what the handles name.
LEMMA HandleStep ==
    ASSUME SlotTypeOK, IndexTypes, HandleInv, [Next]_vars
    PROVE  HandleInv'
<1>1. ASSUME NEW w \in Writers, ProducerActs(w)
      PROVE  HandleInv'
  BY <1>1, ProducerKeepsHandles
<1>2. ASSUME NEW c \in Consumers, ConsumerActs(c)
      PROVE  HandleInv'
  <2>1. ASSUME NEW d \in Consumers \ {c}
        PROVE  ConsumerPhase(d)' /\ HandleNamesNext(d)'
    <3>1. UNCHANGED <<policy, cpc[d], hb[d], slot_id[d], rpc[d], rslot[d]>>
      BY <1>2, ConsumerSparesOthers, ConsumerSparesProducer DEF HandleInv
    <3>2. Live(d) => /\ hb[d] # NoHb => consumer_pid'[hb[d]] = d
                                       /\ position'[hb[d]] = position[hb[d]]
                     /\ policy = "Sequential" => read_index' = read_index
      BY <1>2, ConsumerKeepsPlaces
    <3>3. QED BY <3>1, <3>2, OtherHandle
  <2>2. QED BY <1>2, <2>1, OwnHandle, ConsumerTypes DEF HandleInv
<1>3. CASE UNCHANGED vars
  BY SMT, <1>3 DEF vars, dbVars, slotRWVars, readerVars, indexVars, tableVars, consumerVars,
     HandleInv, HandleTypes, OneSequentialConsumer, ConsumerPhase, HandleNamesNext,
     Live, Busy, HasHandle, Ordered
<1>4. QED BY <1>1, <1>2, <1>3, BlockStepOfOne

\* Positions move by one slot.
LEMMA StepByOne ==
    ASSUME SlotTypeOK, IndexTypes, HandleInv, [Next]_vars
    PROVE  /\ policy = "Sequential" => read_index' \in {read_index, read_index + 1}
           /\ \A c \in Consumers :
                hb[c] # NoHb /\ cpc[c] \in {"ready", "advance", "scan"} =>
                    position'[hb[c]] \in {position[hb[c]], position[hb[c]] + 1}
<1>1. ASSUME NEW w \in Writers, ProducerActs(w)
      PROVE  UNCHANGED <<read_index, position>>
  BY <1>1, ProducerSparesConsumers
<1>2. ASSUME NEW c \in Consumers, ConsumerActs(c)
      PROVE  /\ policy = "Sequential" => read_index' \in {read_index, read_index + 1}
             /\ hb[c] # NoHb /\ cpc[c] \in {"ready", "advance", "scan"} =>
                    position'[hb[c]] \in {position[hb[c]], position[hb[c]] + 1}
  <2>0. ConsumerPhase(c) /\ HandleNamesNext(c)
    BY DEF HandleInv
  <2>1. CASE AdvancePosition(c)
    <3>1. cpc[c] = "advance" /\ Ordered
      BY <2>0, <2>1 DEF AdvancePosition, ConsumerPhase
    <3>2. CASE policy = "Sequential"
      BY <2>0, <2>1, <3>1, <3>2 DEF AdvancePosition, HandleNamesNext, HasHandle
    <3>3. CASE policy = "Sequential_sync"
      <4>1. position' = [position EXCEPT ![hb[c]] = slot_id[c] + 1] /\ hb[c] # NoHb
            /\ slot_id[c] = position[hb[c]]
        BY <2>0, <2>1, <3>1, <3>3 DEF AdvancePosition, HandleNamesNext, HasHandle
      <4>2. hb[c] \in HbSlots /\ position \in [HbSlots -> Nat]
        BY <4>1 DEF IndexTypes
      <4>3. QED BY <3>3, <4>1, <4>2
    <3>4. QED BY <3>1, <3>2, <3>3 DEF Ordered
  <2>2. CASE StoreMinimum(c)
    BY <2>0, <2>2 DEF StoreMinimum, ConsumerPhase, tableVars
  <2>3. CASE JoinStore(c)
    BY <2>3 DEF JoinStore, indexVars
  <2>4. CASE ~AdvancePosition(c) /\ ~StoreMinimum(c) /\ ~JoinStore(c)
    <3>1. UNCHANGED <<read_index, position>>
      BY <1>2, <2>4 DEF ConsumerActs, ConsumerStep, JoinLoad, AcquireConsumeSlot,
         AcquireReadStep, ValidateHandle, ReleaseHandle, ScanPosition,
         RegisterHeartbeat, Detach, CrashConsumer, dbVars, indexVars, tableVars
    <3>2. QED BY <3>1
  <2>5. QED BY <2>1, <2>2, <2>3, <2>4
<1>3. ASSUME NEW c \in Consumers, ConsumerActs(c), NEW d \in Consumers \ {c},
             hb[d] # NoHb, cpc[d] \in {"ready", "advance", "scan"}
      PROVE  position'[hb[d]] = position[hb[d]]
  BY <1>3, ConsumerKeepsPlaces DEF Live
<1>4. CASE UNCHANGED vars
  BY <1>4 DEF vars, dbVars, indexVars, tableVars
<1>5. QED BY <1>1, <1>2, <1>3, <1>4, BlockStepOfOne

-----------------------------------------------------------------------------
\* The invariant of the claims and of the handles.
PlacesInv == SlotInv /\ BlockInv /\ ClaimInv /\ LockNamed /\ HandleInv
=============================================================================
