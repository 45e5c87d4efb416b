--------------------------- MODULE DataBlockProofs --------------------------
(***************************************************************************)
(* Theorems about the slots (SlotRW) and the ring (DataBlock): the slot    *)
(* protocol for any number of slots, writers and readers; the producers    *)
(* and consumers of a DataBlock use the slots as SlotRW prescribes; what   *)
(* they read, for any ring size, policy, number of processes and deaths.   *)
(***************************************************************************)
EXTENDS DataBlockOrderProofs, FiniteSetTheorems

\* The leaves are Zenon's unless they cite SMT: few of them need arithmetic.
USE Zenon

-----------------------------------------------------------------------------
(* Counting the registered readers                                         *)

\* The readers registered at a slot are a finite set, so their number exists.
LEMMA RegisteredFinite ==
    ASSUME NEW s
    PROVE  /\ IsFiniteSet(RegisteredAt(s))
           /\ Cardinality(RegisteredAt(s)) \in Nat
  BY SlotRWAssumption, FS_Subset, FS_CardinalityType DEF RegisteredAt

\* A step that moves no reader into or out of a registered state keeps the
\* set of readers registered at every slot.
LEMMA RegisteredUnchanged ==
    ASSUME NEW s,
           \A r \in Readers : /\ rpc'[r] \in Registered <=> rpc[r] \in Registered
                              /\ rpc[r] \in Registered => rslot'[r] = rslot[r]
    PROVE  RegisteredAt(s)' = RegisteredAt(s)
  BY DEF RegisteredAt

\* A reader that registers (acquire_read step 2) makes the count of its slot
\* one larger and leaves the counts of the other slots.
LEMMA RegisterCounts ==
    ASSUME NEW r \in Readers, SlotTypeOK, RegisterReader(r), NEW s \in Slots
    PROVE  Cardinality(RegisteredAt(s)') =
             Cardinality(RegisteredAt(s)) + (IF s = rslot[r] THEN 1 ELSE 0)
<1>1. CASE s = rslot[r]
  <2>1. RegisteredAt(s)' = RegisteredAt(s) \cup {r}
    BY <1>1 DEF RegisterReader, RegisteredAt, Registered, SlotTypeOK
  <2>2. r \notin RegisteredAt(s)
    BY DEF RegisterReader, RegisteredAt, Registered
  <2>3. QED BY ZenonT(30), <1>1, <2>1, <2>2, RegisteredFinite, FS_AddElement
<1>2. CASE s # rslot[r]
  <2>1. RegisteredAt(s)' = RegisteredAt(s)
    BY <1>2 DEF RegisterReader, RegisteredAt, Registered, SlotTypeOK
  <2>2. QED BY SMT, <1>2, <2>1, RegisteredFinite
<1>3. QED BY <1>1, <1>2

\* A reader that unregisters (lost race or release_read) makes the count of its
\* slot one smaller and leaves the counts of the other slots.
LEMMA UnregisterCounts ==
    ASSUME NEW r \in Readers, SlotTypeOK, NEW s \in Slots,
           UnregisterReader(r) \/ ReleaseRead(r)
    PROVE  Cardinality(RegisteredAt(s)') =
             Cardinality(RegisteredAt(s)) - (IF s = rslot[r] THEN 1 ELSE 0)
<1>0. /\ rpc[r] \in Registered
      /\ rpc' = [rpc EXCEPT ![r] = "idle"]
      /\ rslot' = rslot
  BY DEF UnregisterReader, ReleaseRead, Registered
<1>1. CASE s = rslot[r]
  <2>1. RegisteredAt(s)' = RegisteredAt(s) \ {r}
    BY <1>0, <1>1 DEF RegisteredAt, Registered, SlotTypeOK
  <2>2. r \in RegisteredAt(s)
    BY <1>0, <1>1 DEF RegisteredAt
  <2>3. QED BY ZenonT(30), <1>1, <2>1, <2>2, RegisteredFinite, FS_RemoveElement
<1>2. CASE s # rslot[r]
  <2>1. RegisteredAt(s)' = RegisteredAt(s)
    BY <1>0, <1>2 DEF RegisteredAt, Registered, SlotTypeOK
  <2>2. QED BY SMT, <1>2, <2>1, RegisteredFinite
<1>3. QED BY <1>1, <1>2
-----------------------------------------------------------------------------
(* Types                                                                   *)

\* A reader that has registered is counted: reader_count of its slot is not 0.
LEMMA RegisteredIsCounted ==
    ASSUME SlotTypeOK, ReaderCountExact, NEW r \in Readers, rpc[r] \in Registered
    PROVE  reader_count[rslot[r]] > 0
<1>1. r \in RegisteredAt(rslot[r]) /\ rslot[r] \in Slots
  BY DEF RegisteredAt, SlotTypeOK
<1>2. Cardinality(RegisteredAt(rslot[r])) # 0
  BY <1>1, RegisteredFinite, FS_EmptySet
<1>3. QED BY SMT, <1>1, <1>2, RegisteredFinite DEF ReaderCountExact

\* Every action of SlotRW keeps the types; the decrements of reader_count stay
\* in Nat because the reader that takes one is itself counted.
LEMMA TypeStep ==
    ASSUME SlotTypeOK, ReaderCountExact, [SlotNext]_slotRWVars
    PROVE  SlotTypeOK'
<1> USE DEF SlotTypeOK, slotVars, writerVars, readerVars, SlotState, WriterPC,
            ReaderPC, NoSlot, Torn
<1>1. ASSUME NEW w \in Writers, NEW s \in Slots, NEW id \in Ids,
             BeginAcquireWrite(w, s, id)
      PROVE  SlotTypeOK'
  BY <1>1 DEF BeginAcquireWrite
<1>2. ASSUME NEW w \in Writers, LockWrite(w)
      PROVE  SlotTypeOK'
  BY <1>2 DEF LockWrite
<1>3. ASSUME NEW w \in Writers, LockTimeout(w)
      PROVE  SlotTypeOK'
  BY <1>3 DEF LockTimeout
<1>4. ASSUME NEW w \in Writers, LoadState(w)
      PROVE  SlotTypeOK'
  BY <1>4 DEF LoadState
<1>5. ASSUME NEW w \in Writers, EnterDraining(w)
      PROVE  SlotTypeOK'
  BY <1>5 DEF EnterDraining
<1>6. ASSUME NEW w \in Writers, Drained(w)
      PROVE  SlotTypeOK'
  BY <1>6 DEF Drained
<1>7. ASSUME NEW w \in Writers, DrainTimeout(w)
      PROVE  SlotTypeOK'
  BY <1>7 DEF DrainTimeout
<1>8. ASSUME NEW w \in Writers, RestoreCommitted(w)
      PROVE  SlotTypeOK'
  BY <1>8 DEF RestoreCommitted
<1>9. ASSUME NEW w \in Writers, StartWriting(w)
      PROVE  SlotTypeOK'
  BY <1>9 DEF StartWriting
<1>10. ASSUME NEW w \in Writers, FillBuffer(w)
      PROVE  SlotTypeOK'
  BY SMT, <1>10 DEF FillBuffer
<1>11. ASSUME NEW w \in Writers, CommitGeneration(w)
      PROVE  SlotTypeOK'
  BY SMT, <1>11 DEF CommitGeneration
<1>12. ASSUME NEW w \in Writers, CommitState(w)
      PROVE  SlotTypeOK'
  BY <1>12 DEF CommitState
<1>13. ASSUME NEW w \in Writers, PublishCommit(w)
      PROVE  SlotTypeOK'
  BY <1>13 DEF PublishCommit
<1>14. ASSUME NEW w \in Writers, Abort(w)
      PROVE  SlotTypeOK'
  BY <1>14 DEF Abort
<1>15. ASSUME NEW w \in Writers, AbortState(w)
      PROVE  SlotTypeOK'
  BY <1>15 DEF AbortState
<1>16. ASSUME NEW w \in Writers, Unlock(w)
      PROVE  SlotTypeOK'
  BY <1>16 DEF Unlock
<1>17. ASSUME NEW w \in Writers, CrashWriter(w)
      PROVE  SlotTypeOK'
  BY <1>17 DEF CrashWriter
<1>18. ASSUME NEW r \in Readers, NEW s \in Slots, BeginAcquireRead(r, s)
      PROVE  SlotTypeOK'
  BY <1>18 DEF BeginAcquireRead
<1>19. ASSUME NEW r \in Readers, CheckCommitted(r)
      PROVE  SlotTypeOK'
  BY <1>19 DEF CheckCommitted
<1>20. ASSUME NEW r \in Readers, RegisterReader(r)
      PROVE  SlotTypeOK'
  BY SMT, <1>20 DEF RegisterReader
<1>21. ASSUME NEW r \in Readers, RecheckCommitted(r)
      PROVE  SlotTypeOK'
  BY <1>21 DEF RecheckCommitted
<1>22. ASSUME NEW r \in Readers, UnregisterReader(r)
      PROVE  SlotTypeOK'
  <2>1. reader_count[rslot[r]] > 0
    BY <1>22, RegisteredIsCounted DEF UnregisterReader, Registered
  <2>2. QED BY SMT, <1>22, <2>1 DEF UnregisterReader
<1>23. ASSUME NEW r \in Readers, CaptureGeneration(r)
      PROVE  SlotTypeOK'
  BY <1>23 DEF CaptureGeneration
<1>24. ASSUME NEW r \in Readers, EndRead(r)
      PROVE  SlotTypeOK'
  BY <1>24 DEF EndRead
<1>25. ASSUME NEW r \in Readers, ReleaseRead(r)
      PROVE  SlotTypeOK'
  <2>1. reader_count[rslot[r]] > 0
    BY <1>25, RegisteredIsCounted DEF ReleaseRead, Registered
  <2>2. QED BY SMT, <1>25, <2>1 DEF ReleaseRead
<1>26. ASSUME NEW r \in Readers, CrashReader(r)
      PROVE  SlotTypeOK'
  BY <1>26 DEF CrashReader
<1>27. CASE UNCHANGED slotRWVars
  BY <1>27 DEF slotRWVars
<1>28. QED
  BY <1>1, <1>2, <1>3, <1>4, <1>5, <1>6, <1>7, <1>8, <1>9, <1>10, <1>11,
     <1>12, <1>13, <1>14, <1>15, <1>16, <1>17, <1>18, <1>19, <1>20, <1>21,
     <1>22, <1>23, <1>24, <1>25, <1>26, <1>27
  DEF SlotNext, WriterStep, ReaderStep

-----------------------------------------------------------------------------
(* The parts of the inductive invariant                                    *)

\* Only registration and its undoing change the number of registered readers.
LEMMA CountStep ==
    ASSUME SlotTypeOK, ReaderCountExact, [SlotNext]_slotRWVars
    PROVE  ReaderCountExact'
<1> USE DEF ReaderCountExact
<1>1. ASSUME NEW w \in Writers, WriterActs(w)
      PROVE  ReaderCountExact'
  <2>1. UNCHANGED <<reader_count, readerVars>>
    BY <1>1, WriterSparesReaders
  <2>2. QED BY <2>1 DEF readerVars, RegisteredAt
<1>2. ASSUME NEW r \in Readers, RegisterReader(r)
      PROVE  ReaderCountExact'
  <2>1. SUFFICES ASSUME NEW s \in Slots
                 PROVE  reader_count'[s] = Cardinality(RegisteredAt(s)')
    OBVIOUS
  <2>2. reader_count'[s] = reader_count[s] + (IF s = rslot[r] THEN 1 ELSE 0)
    BY SMT, <1>2 DEF RegisterReader, SlotTypeOK
  <2>3. QED BY <1>2, <2>2, RegisterCounts
<1>3. ASSUME NEW r \in Readers, UnregisterReader(r) \/ ReleaseRead(r)
      PROVE  ReaderCountExact'
  <2>1. SUFFICES ASSUME NEW s \in Slots
                 PROVE  reader_count'[s] = Cardinality(RegisteredAt(s)')
    OBVIOUS
  <2>2. reader_count'[s] = reader_count[s] - (IF s = rslot[r] THEN 1 ELSE 0)
    BY SMT, <1>3 DEF UnregisterReader, ReleaseRead, SlotTypeOK
  <2>3. QED BY <1>3, <2>2, UnregisterCounts
<1>4. ASSUME NEW r \in Readers, ReaderActs(r),
             ~RegisterReader(r), ~UnregisterReader(r), ~ReleaseRead(r)
      PROVE  ReaderCountExact'
  <2>1. \A q \in Readers : /\ rpc'[q] \in Registered <=> rpc[q] \in Registered
                           /\ rpc[q] \in Registered => rslot'[q] = rslot[q]
    BY SMT, <1>4 DEF ReaderActs, ReaderStep, SlotTypeOK, Registered, BeginAcquireRead,
                CheckCommitted, RecheckCommitted, CaptureGeneration, EndRead,
                CrashReader
  <2>2. reader_count' = reader_count
    BY <1>4 DEF ReaderActs, ReaderStep, slotVars, BeginAcquireRead,
                CheckCommitted, RecheckCommitted, CaptureGeneration, EndRead,
                CrashReader
  <2>3. QED BY <2>1, <2>2, RegisteredUnchanged
<1>5. CASE UNCHANGED slotRWVars
  BY <1>5 DEF slotRWVars, slotVars, readerVars, RegisteredAt
<1>6. QED BY <1>1, <1>2, <1>3, <1>4, <1>5, StepOfOne

\* A writer gets the lock before it enters Owning, and nobody takes the lock of
\* a live writer: phase 1 reclaims only the locks of dead ones.
LEMMA LockStep ==
    ASSUME SlotTypeOK, LockOwned, [SlotNext]_slotRWVars
    PROVE  LockOwned'
<1>1. ASSUME NEW w \in Writers, WriterActs(w), NEW v \in Writers,
             wpc'[v] \in Owning
      PROVE  write_lock'[wslot'[v]] = v
  <2>1. CASE v = w
    <3>1. CASE Acquiring(w)
      BY SMT, <1>1, <2>1, <3>1 DEF Acquiring, SlotTypeOK, LockOwned, slotVars,
         Owning, WriterPC, BeginAcquireWrite, LockWrite, LockTimeout, LoadState,
         EnterDraining, Drained
    <3>2. CASE Filling(w)
      BY <1>1, <2>1, <3>2 DEF Filling, SlotTypeOK, LockOwned, slotVars, Owning,
         WriterPC, DrainTimeout, RestoreCommitted, StartWriting, FillBuffer,
         CommitGeneration
    <3>3. CASE Finishing(w)
      BY <1>1, <2>1, <3>3 DEF Finishing, SlotTypeOK, LockOwned, slotVars,
         Owning, WriterPC, CommitState, PublishCommit, Abort, AbortState,
         Unlock, CrashWriter
    <3>4. QED BY <1>1, <3>1, <3>2, <3>3, WriterPhases
  <2>2. CASE v # w
    <3>1. /\ wpc[v] \in Owning /\ wslot'[v] = wslot[v]
          /\ write_lock[wslot[v]] = v
          /\ wslot[v] \in Slots
      BY <1>1, <2>2, WriterSparesWriters DEF LockOwned, SlotTypeOK
    <3>2. CASE wslot[v] # wslot[w]
      BY <1>1, <3>1, <3>2, WriterSparesSlots
    <3>3. CASE wslot[v] = wslot[w]
      <4>1. wpc[w] \notin Owning
        BY <2>2, <3>1, <3>3 DEF LockOwned
      <4>2. ~LockWrite(w)
        BY <3>1, <3>3, SlotRWAssumption DEF LockWrite, Owning
      <4>3. write_lock' = write_lock
        <5>1. CASE Acquiring(w)
          BY <1>1, <4>1, <4>2, <5>1 DEF Acquiring, slotVars, Owning, WriterPC,
             BeginAcquireWrite, LockTimeout, LoadState, EnterDraining, Drained
        <5>2. CASE Filling(w)
          BY <1>1, <4>1, <4>2, <5>2 DEF Filling, slotVars, Owning, WriterPC,
             DrainTimeout, RestoreCommitted, StartWriting, FillBuffer,
             CommitGeneration
        <5>3. CASE Finishing(w)
          BY <1>1, <4>1, <4>2, <5>3 DEF Finishing, slotVars, Owning, WriterPC,
             CommitState, PublishCommit, Abort, AbortState, Unlock, CrashWriter
        <5>4. QED BY <1>1, <5>1, <5>2, <5>3, WriterPhases
      <4>4. QED BY <3>1, <4>3
    <3>4. QED BY <3>2, <3>3
  <2>3. QED BY <2>1, <2>2
<1>2. ASSUME NEW r \in Readers, ReaderActs(r)
      PROVE  LockOwned'
  BY <1>2, ReaderFrame DEF LockOwned, writerVars
<1>3. CASE UNCHANGED slotRWVars
  BY <1>3 DEF slotRWVars, slotVars, writerVars, LockOwned
<1>4. QED BY <1>1, <1>2, <1>3, StepOfOne DEF LockOwned

\* A writer past phase 1 works on a slot no other writer past phase 1 works on.
LEMMA OwnersApart ==
    ASSUME LockOwned
    PROVE  SingleWriterPerSlot
  BY DEF LockOwned, SingleWriterPerSlot

\* What a writer knows of its slot stays true: it establishes it by its own
\* steps, and every other writer in Owning works on another slot.
LEMMA KnowsStep ==
    ASSUME SlotTypeOK, LockOwned, WriterKnows, [SlotNext]_slotRWVars
    PROVE  WriterKnows'
<1>1. ASSUME NEW w \in Writers, WriterActs(w)
      PROVE  Knows(w)'
  <2>1. ASSUME NEW s \in Slots, NEW id \in Ids, BeginAcquireWrite(w, s, id)
        PROVE  Knows(w)'
    BY <2>1 DEF BeginAcquireWrite, Knows, SlotTypeOK
  <2>2. CASE LockWrite(w)
    BY <2>2 DEF LockWrite, Knows, WriterKnows, SlotTypeOK, slotVars
  <2>3. CASE LockTimeout(w)
    BY <2>3 DEF LockTimeout, Knows, WriterKnows, SlotTypeOK, slotVars
  <2>4. CASE LoadState(w)
    BY <2>4 DEF LoadState, Knows, WriterKnows, SlotTypeOK, slotVars
  <2>5. CASE EnterDraining(w)
    BY <2>5 DEF EnterDraining, Knows, WriterKnows, SlotTypeOK, slotVars
  <2>6. CASE Drained(w)
    BY <2>6 DEF Drained, Knows, WriterKnows, SlotTypeOK, slotVars
  <2>7. CASE DrainTimeout(w)
    BY <2>7 DEF DrainTimeout, Knows, WriterKnows, SlotTypeOK, slotVars
  <2>8. CASE RestoreCommitted(w)
    BY <2>8 DEF RestoreCommitted, Knows, WriterKnows, SlotTypeOK, slotVars
  <2>9. CASE StartWriting(w)
    BY <2>9 DEF StartWriting, Knows, WriterKnows, SlotTypeOK, slotVars
  <2>10. CASE FillBuffer(w)
    BY SMT, <2>10 DEF FillBuffer, Knows, WriterKnows, SlotTypeOK, slotVars
  <2>11. CASE CommitGeneration(w)
    BY <2>11 DEF CommitGeneration, Knows, WriterKnows, SlotTypeOK, slotVars
  <2>12. CASE CommitState(w)
    BY <2>12 DEF CommitState, Knows, WriterKnows, SlotTypeOK, slotVars
  <2>13. CASE PublishCommit(w)
    BY <2>13 DEF PublishCommit, Knows, WriterKnows, SlotTypeOK, slotVars
  <2>14. CASE Abort(w)
    BY <2>14 DEF Abort, Knows, WriterKnows, SlotTypeOK, slotVars
  <2>15. CASE AbortState(w)
    BY <2>15 DEF AbortState, Knows, WriterKnows, SlotTypeOK, slotVars
  <2>16. CASE Unlock(w)
    BY <2>16 DEF Unlock, Knows, WriterKnows, SlotTypeOK, slotVars
  <2>17. CASE CrashWriter(w)
    BY <2>17 DEF CrashWriter, Knows, WriterKnows, SlotTypeOK, slotVars
  <2>18. QED
    BY <1>1, <2>1, <2>2, <2>3, <2>4, <2>5, <2>6, <2>7, <2>8, <2>9,
       <2>10, <2>11, <2>12, <2>13, <2>14, <2>15, <2>16, <2>17 DEF WriterActs, WriterStep
<1>2. ASSUME NEW w \in Writers, WriterActs(w), NEW v \in Writers \ {w}
      PROVE  Knows(v)'
  <2>1. /\ wpc'[v] = wpc[v] /\ wslot'[v] = wslot[v] /\ wid'[v] = wid[v]
        /\ entered_draining'[v] = entered_draining[v]
    BY <1>2, WriterSparesWriters
  <2>2. CASE wpc[v] \notin Owning
    BY <2>1, <2>2 DEF Knows, Owning, WriterPC
  <2>3. CASE wpc[v] \in Owning
    <3>1. /\ slot_state'[wslot[v]] = slot_state[wslot[v]]
          /\ buffer'[wslot[v]] = buffer[wslot[v]]
      BY SMT, <1>2, <2>3, WriterSparesSlots, OwnersWrite, OwnersApart
         DEF SingleWriterPerSlot, SlotTypeOK
    <3>2. QED BY SMT, <1>2, <2>1, <3>1 DEF Knows, WriterKnows
  <2>4. QED BY <2>2, <2>3
<1>3. ASSUME NEW r \in Readers, ReaderActs(r)
      PROVE  WriterKnows'
  BY SMT, <1>3, ReaderFrame DEF WriterKnows, Knows, writerVars
<1>4. CASE UNCHANGED slotRWVars
  BY <1>4 DEF slotRWVars, slotVars, writerVars, WriterKnows, Knows
<1>5. QED BY <1>1, <1>2, <1>3, <1>4, StepOfOne DEF WriterKnows

\* The drained check sees every reader inside the slot, because each of them is
\* counted; and a reader that passes the second check after that check would
\* have found the slot COMMITTED, which the writer's state excludes.
LEMMA ExclusionStep ==
    ASSUME SlotTypeOK, ReaderCountExact, WriterKnows, WriterExcludesReaders,
           [SlotNext]_slotRWVars
    PROVE  WriterExcludesReaders'
<1> DEFINE Excl == {"start", "writing", "filling", "filled", "commit_state"}
           Inside == {"capture", "reading"}
<1>1. ASSUME NEW w \in Writers, WriterActs(w), NEW v \in Writers, NEW r \in Readers,
             wpc'[v] \in Excl, rpc'[r] \in Inside
      PROVE  rslot'[r] # wslot'[v]
  <2>1. rpc' = rpc /\ rslot' = rslot
    BY <1>1, WriterSparesReaders DEF readerVars
  <2>2. CASE v # w
    BY <1>1, <2>1, <2>2, WriterSparesWriters DEF WriterExcludesReaders
  <2>3. CASE v = w /\ Drained(w)
    <3>1. reader_count[wslot[w]] = 0 /\ wslot' = wslot
      BY <2>3 DEF Drained
    <3>2. rpc[r] \in Registered
      BY <1>1, <2>1 DEF Registered
    <3>3. QED BY SMT, <2>1, <2>3, <3>1, <3>2, RegisteredIsCounted
  <2>4. CASE v = w /\ ~Drained(w)
    <3>1. wpc[w] \in Excl /\ wslot' = wslot
      <4>1. CASE Acquiring(w)
        BY SMT, <1>1, <2>4, <4>1 DEF Acquiring, SlotTypeOK, BeginAcquireWrite,
           LockWrite, LockTimeout, LoadState, EnterDraining
      <4>2. CASE Filling(w)
        BY <1>1, <2>4, <4>2 DEF Filling, SlotTypeOK, DrainTimeout,
           RestoreCommitted, StartWriting, FillBuffer, CommitGeneration
      <4>3. CASE Finishing(w)
        BY <1>1, <2>4, <4>3 DEF Finishing, SlotTypeOK, CommitState,
           PublishCommit, Abort, AbortState, Unlock, CrashWriter
      <4>4. QED BY <1>1, <4>1, <4>2, <4>3, WriterPhases
    <3>2. QED BY <1>1, <2>1, <2>4, <3>1 DEF WriterExcludesReaders
  <2>5. QED BY <2>2, <2>3, <2>4
<1>2. ASSUME NEW q \in Readers, ReaderActs(q), NEW v \in Writers, NEW r \in Readers,
             wpc'[v] \in Excl, rpc'[r] \in Inside
      PROVE  rslot'[r] # wslot'[v]
  <2>1. wpc' = wpc /\ wslot' = wslot
    BY <1>2, ReaderFrame DEF writerVars
  <2>2. CASE r # q \/ rpc[r] \in Inside
    BY <1>2, <2>1, <2>2, ReaderFrame DEF WriterExcludesReaders
  <2>3. CASE r = q /\ rpc[r] \notin Inside
    <3>1. RecheckCommitted(r)
      BY <1>2, <2>3 DEF ReaderActs, ReaderStep, SlotTypeOK, BeginAcquireRead,
         CheckCommitted, RegisterReader, UnregisterReader, CaptureGeneration,
         EndRead, ReleaseRead, CrashReader
    <3>2. slot_state[rslot[r]] = "COMMITTED" /\ rslot' = rslot
      BY <1>2, <3>1 DEF RecheckCommitted, SlotTypeOK
    <3>3. slot_state[wslot[v]] # "COMMITTED"
      BY <1>2, <2>1 DEF WriterKnows, Knows
    <3>4. QED BY <2>1, <3>2, <3>3
  <2>4. QED BY <2>2, <2>3
<1>3. CASE UNCHANGED slotRWVars
  BY <1>3 DEF slotRWVars, writerVars, readerVars, WriterExcludesReaders
<1>4. QED BY <1>1, <1>2, <1>3, StepOfOne DEF WriterExcludesReaders

\* Partial data exists only between StartWriting and the end of the copy, and
\* commit_write stores COMMITTED only after it.
LEMMA CompleteStep ==
    ASSUME SlotTypeOK, WriterKnows, CommittedIsComplete, [SlotNext]_slotRWVars
    PROVE  CommittedIsComplete'
<1>1. ASSUME NEW w \in Writers, WriterActs(w), NEW s \in Slots,
             slot_state'[s] \in {"COMMITTED", "DRAINING"}
      PROVE  buffer'[s] # Torn
  <2>1. CASE s # wslot[w]
    BY <1>1, <2>1, WriterSparesSlots DEF CommittedIsComplete
  <2>2. CASE s = wslot[w] /\ wpc[w] \notin Owning
    BY <1>1, <2>2, OwnersWrite DEF CommittedIsComplete
  <2>3. CASE s = wslot[w] /\ FillBuffer(w)
    BY <1>1, <2>3 DEF FillBuffer, WriterKnows, Knows, slotVars
  <2>4. CASE s = wslot[w] /\ CommitState(w)
    <3>1. wpc[w] = "commit_state" /\ buffer' = buffer
      BY <2>4 DEF CommitState
    <3>2. buffer[wslot[w]] = wid[w]
      BY <3>1 DEF WriterKnows, Knows
    <3>3. wid[w] \in Nat
      BY SlotRWAssumption DEF SlotTypeOK
    <3>4. QED BY SMT, <2>4, <3>1, <3>2, <3>3 DEF Torn
  <2>5. CASE s = wslot[w] /\ wpc[w] \in Owning /\ ~FillBuffer(w) /\ ~CommitState(w)
    <3>1. buffer' = buffer
      <4>1. CASE Acquiring(w)
        BY <1>1, <2>5, <4>1 DEF Acquiring, slotVars, Owning, BeginAcquireWrite,
           LockWrite, LockTimeout, LoadState, EnterDraining, Drained
      <4>2. CASE Filling(w)
        BY <1>1, <2>5, <4>2 DEF Filling, slotVars, Owning, DrainTimeout,
           RestoreCommitted, StartWriting, CommitGeneration
      <4>3. CASE Finishing(w)
        BY <1>1, <2>5, <4>3 DEF Finishing, slotVars, Owning, PublishCommit,
           Abort, AbortState, Unlock, CrashWriter
      <4>4. QED BY <1>1, <4>1, <4>2, <4>3, WriterPhases
    <3>2. slot_state[s] \in {"COMMITTED", "DRAINING"}
      <4>1. CASE Acquiring(w)
        BY <1>1, <2>5, <4>1 DEF Acquiring, WriterKnows, Knows, SlotTypeOK,
           slotVars, Owning, BeginAcquireWrite, LockWrite, LockTimeout,
           LoadState, EnterDraining, Drained
      <4>2. CASE Filling(w)
        BY SMT, <1>1, <2>5, <4>2 DEF Filling, WriterKnows, Knows, SlotTypeOK,
           slotVars, Owning, DrainTimeout, RestoreCommitted, StartWriting,
           CommitGeneration
      <4>3. CASE Finishing(w)
        BY <1>1, <2>5, <4>3 DEF Finishing, WriterKnows, Knows, SlotTypeOK,
           slotVars, Owning, PublishCommit, Abort, AbortState, Unlock,
           CrashWriter
      <4>4. QED BY <1>1, <4>1, <4>2, <4>3, WriterPhases
    <3>3. QED BY <3>1, <3>2 DEF CommittedIsComplete
  <2>6. QED BY <2>1, <2>2, <2>3, <2>4, <2>5
<1>2. ASSUME NEW r \in Readers, ReaderActs(r)
      PROVE  CommittedIsComplete'
  BY <1>2, ReaderFrame DEF CommittedIsComplete
<1>3. CASE UNCHANGED slotRWVars
  BY <1>3 DEF slotRWVars, slotVars, CommittedIsComplete
<1>4. QED BY <1>1, <1>2, <1>3, StepOfOne DEF CommittedIsComplete

\* A reader enters complete data and what it then holds does not change.
LEMMA ReadStep ==
    ASSUME SlotTypeOK, WriterExcludesReaders, CommittedIsComplete,
           CaptureIsComplete, ReadsAreStable, [SlotNext]_slotRWVars
    PROVE  CaptureIsComplete' /\ ReadsAreStable'
<1> USE DEF CaptureIsComplete, ReadsAreStable, ValidateRead
<1>1. ASSUME NEW w \in Writers, WriterActs(w)
      PROVE  CaptureIsComplete' /\ ReadsAreStable'
  <2>1. /\ rpc' = rpc /\ rslot' = rslot /\ seen' = seen
        /\ captured_generation' = captured_generation
    BY <1>1, WriterSparesReaders DEF readerVars
  <2>2. \A r \in Readers : rpc[r] \in {"capture", "reading"} =>
            /\ buffer'[rslot[r]] = buffer[rslot[r]]
            /\ write_generation'[rslot[r]] = write_generation[rslot[r]]
    BY <1>1, WriterKeepsReadSlots
  <2>3. QED BY <2>1, <2>2
<1>2. ASSUME NEW q \in Readers, ReaderActs(q)
      PROVE  CaptureIsComplete' /\ ReadsAreStable'
  <2>1. ASSUME NEW r \in Readers, r # q
        PROVE  /\ rpc'[r] = "capture" => buffer'[rslot'[r]] # Torn
               /\ rpc'[r] = "reading" => /\ seen'[r] # Torn
                                         /\ buffer'[rslot'[r]] = seen'[r]
                                         /\ ValidateRead(r)'
    <3>1. /\ rpc'[r] = rpc[r] /\ rslot'[r] = rslot[r] /\ seen'[r] = seen[r]
          /\ captured_generation'[r] = captured_generation[r]
          /\ buffer' = buffer /\ write_generation' = write_generation
      BY <1>2, <2>1, ReaderFrame
    <3>2. QED BY <2>1, <3>1
  <2>2. /\ rpc'[q] = "capture" => buffer'[rslot'[q]] # Torn
        /\ rpc'[q] = "reading" => /\ seen'[q] # Torn
                                  /\ buffer'[rslot'[q]] = seen'[q]
                                  /\ ValidateRead(q)'
    <3>1. CASE RecheckCommitted(q)
      BY <3>1 DEF RecheckCommitted, SlotTypeOK, CommittedIsComplete
    <3>2. CASE CaptureGeneration(q)
      BY <3>2 DEF CaptureGeneration, SlotTypeOK, slotVars
    <3>3. CASE ~RecheckCommitted(q) /\ ~CaptureGeneration(q)
      BY SMT, <1>2, <3>3 DEF ReaderActs, ReaderStep, SlotTypeOK, BeginAcquireRead,
         CheckCommitted, RegisterReader, UnregisterReader, EndRead, ReleaseRead,
         CrashReader
    <3>4. QED BY <3>1, <3>2, <3>3
  <2>3. QED BY <2>1, <2>2
<1>3. CASE UNCHANGED slotRWVars
  BY <1>3 DEF slotRWVars, slotVars, readerVars
<1>4. QED BY <1>1, <1>2, <1>3, StepOfOne

-----------------------------------------------------------------------------
(* Theorems                                                                *)

\* No slot is written and no reader is inside one at the start.
LEMMA InitInv == ASSUME SlotInit PROVE SlotInv
<1>1. SlotTypeOK
  BY DEF SlotInit, SlotTypeOK, SlotState, WriterPC, ReaderPC
<1>2. ReaderCountExact
  <2>1. \A s \in Slots : RegisteredAt(s) = {}
    BY DEF SlotInit, RegisteredAt, Registered
  <2>2. QED BY <2>1, FS_EmptySet DEF SlotInit, ReaderCountExact
<1>3. LockOwned /\ WriterKnows /\ WriterExcludesReaders /\ CaptureIsComplete
      /\ ReadsAreStable
  BY DEF SlotInit, LockOwned, Owning, WriterKnows, Knows, WriterExcludesReaders,
         CaptureIsComplete, ReadsAreStable
<1>4. CommittedIsComplete
  BY DEF SlotInit, CommittedIsComplete
<1>5. QED BY <1>1, <1>2, <1>3, <1>4 DEF SlotInv

\* The inductive invariant of the slot protocol: acquire_write, commit_write,
\* release_write, acquire_read and release_read keep it, whatever dies.
THEOREM SlotInvariant == SlotSpec => []SlotInv
<1>1. SlotInit => SlotInv
  BY InitInv
<1>2. SlotInv /\ [SlotNext]_slotRWVars => SlotInv'
  BY TypeStep, CountStep, LockStep, KnowsStep, ExclusionStep, CompleteStep,
     ReadStep DEF SlotInv
<1>3. QED BY <1>1, <1>2, PTL DEF SlotSpec

\* acquire_write lets one live writer into a slot, also by zombie reclaim;
\* acquire_read and release_read keep reader_count exact and above zero; reads are
\* stable, and what readers can enter is complete, wherever its writer died.
THEOREM SlotProtocolHolds == SlotSpec => []SlotProtocol
<1>1. SlotInv => SingleWriterPerSlot
  BY OwnersApart DEF SlotInv
<1>2. SlotInv => SlotProtocol
  BY <1>1 DEF SlotInv, SlotProtocol
<1>3. QED BY <1>2, SlotInvariant, PTL

\* A read that acquire_read admitted is never torn and always validates.
THEOREM StableReads == SlotSpec => []ReadsAreStable
<1>1. SlotInv => ReadsAreStable
  BY DEF SlotInv
<1>2. QED BY <1>1, SlotInvariant, PTL

\* commit_write counts one generation per commit, while the slot is WRITING.
THEOREM GenerationGrows == SlotSpec => GenerationGrowsUnderWriting
<1> DEFINE Grows == \A s \in Slots : write_generation'[s] # write_generation[s] =>
                      /\ write_generation'[s] = write_generation[s] + 1
                      /\ slot_state[s] = "WRITING"
<1>1. SlotInv /\ [SlotNext]_slotRWVars => [Grows]_slotRWVars
  <2>1. SUFFICES ASSUME SlotInv, SlotNext PROVE Grows
    OBVIOUS
  <2> USE DEF SlotInv
  <2>2. ASSUME NEW r \in Readers, ReaderActs(r) PROVE Grows
    BY <2>1, <2>2, ReaderFrame
  <2>3. ASSUME NEW w \in Writers, CommitGeneration(w) PROVE Grows
    BY <2>1, <2>3 DEF CommitGeneration, WriterKnows, Knows, SlotTypeOK
  <2>4. ASSUME NEW w \in Writers, WriterActs(w), ~CommitGeneration(w) PROVE Grows
    BY <2>4 DEF WriterActs, WriterStep, slotVars, BeginAcquireWrite, LockWrite,
       LockTimeout, LoadState, EnterDraining, Drained, DrainTimeout,
       RestoreCommitted, StartWriting, FillBuffer, CommitState, PublishCommit,
       Abort, AbortState, Unlock, CrashWriter
  <2>5. QED BY <2>1, <2>2, <2>3, <2>4, StepOfOne
<1>2. QED BY <1>1, SlotInvariant, PTL DEF SlotSpec, GenerationGrowsUnderWriting

-----------------------------------------------------------------------------
\* The DataBlock layer keeps its own invariant and that of the slots.
THEOREM BlockInvariant == Spec => [](SlotInv /\ BlockInv)
<1>1. Init => SlotInv /\ BlockInv
  BY BlockInit, InitInv
<1>2. SlotInv /\ BlockInv /\ [Next]_vars => (SlotInv /\ BlockInv)'
  <2>1. SUFFICES ASSUME SlotInv, BlockInv, [Next]_vars
                 PROVE  SlotInv' /\ BlockInv'
    OBVIOUS
  <2>2. SlotTypeOK
    BY <2>1 DEF SlotInv
  <2>3. [SlotNext]_slotRWVars
    BY <2>1, <2>2, BlockStepIsSlotStep
  <2>4. SlotInv'
    BY <2>1, <2>3, TypeStep, CountStep, LockStep, KnowsStep, ExclusionStep,
       CompleteStep, ReadStep DEF SlotInv
  <2>5. BlockInv'
    BY <2>1, <2>2, IndexStep, PhaseStep DEF BlockInv
  <2>6. QED BY <2>4, <2>5
<1>3. QED BY <1>1, <1>2, PTL DEF Spec

\* DataBlockProducer and DataBlockConsumer use the slots only through the slot
\* operations, on slots of the ring and with slot_ids they claimed: the
\* DataBlock implements SlotRW.
THEOREM BlockImplementsSlots == Spec => SlotSpec
<1>1. Init => SlotInit
  BY BlockInit
<1>2. SlotInv /\ BlockInv /\ [Next]_vars => [SlotNext]_slotRWVars
  BY BlockStepIsSlotStep DEF SlotInv
<1>3. QED BY <1>1, <1>2, BlockInvariant, PTL DEF Spec, SlotSpec

\* A consumer that acquire_consume_slot handed a slot never sees it change
\* before it releases it, under every policy, also when producers die and are
\* replaced.
THEOREM BlockStableReads == Spec => []ReadsAreStable
  BY BlockImplementsSlots, StableReads, PTL

\* A fresh block satisfies it.
LEMMA PlacesInit ==
    ASSUME Init
    PROVE  PlacesInv
<1>1. SlotInv /\ BlockInv /\ SlotInit
  BY BlockInit, InitInv
<1>2. producer \in Writers /\ wpc[producer] = "idle" /\ ppc = "idle" /\ write_index = 0
      /\ commit_index = -1 /\ slot_state = [s \in Slots |-> "FREE"]
      /\ write_lock = [s \in Slots |-> NoPid]
  BY <1>1 DEF Init, SlotInit, NoSlot
<1>3. ClaimInv
  BY SMT, <1>2 DEF ClaimInv, ClaimPhase, RingContents, Front, Pending, Claimed
<1>4. LockNamed
  BY <1>2 DEF LockNamed
<1>5. HandleTypes /\ OneSequentialConsumer
  BY DEF Init, HandleTypes, OneSequentialConsumer, Live
<1>6. ASSUME NEW c \in Consumers
      PROVE  ConsumerPhase(c) /\ HandleNamesNext(c)
  <2>1. cpc[c] = "detached" /\ rpc[c] = "idle" /\ hb[c] = NoHb
    BY <1>1 DEF Init, SlotInit, Consumers
  <2>2. QED BY <2>1 DEF ConsumerPhase, HandleNamesNext, Live, Busy, HasHandle
<1>7. QED BY <1>1, <1>3, <1>4, <1>5, <1>6 DEF PlacesInv, HandleInv

\* Every step of a producer or a consumer keeps it.
LEMMA PlacesStep ==
    ASSUME PlacesInv, [Next]_vars
    PROVE  PlacesInv'
<1> USE DEF PlacesInv
<1>1. SlotTypeOK /\ IndexTypes
  BY DEF SlotInv, BlockInv
<1>2. [SlotNext]_slotRWVars
  BY <1>1, BlockStepIsSlotStep
<1>3. SlotInv'
  BY <1>2, TypeStep, CountStep, LockStep, KnowsStep, ExclusionStep, CompleteStep, ReadStep
     DEF SlotInv
<1>4. BlockInv'
  BY <1>1, IndexStep, PhaseStep DEF BlockInv
<1>5. LockNamed'
  BY <1>1, <1>2, LockNamedStep
<1>6. HandleInv'
  BY <1>1, HandleStep
<1>7. ClaimInv'
  <2>1. ASSUME NEW w \in Writers, ProducerActs(w) PROVE ClaimInv'
    BY <2>1, ClaimMoves, ContentsStep DEF ClaimInv
  <2>2. ASSUME NEW c \in Consumers, ConsumerActs(c) PROVE ClaimInv'
    BY <2>2, ConsumerSparesProducer DEF ClaimInv, ClaimPhase, RingContents, Front, Pending
  <2>3. CASE UNCHANGED vars
    BY <2>3 DEF vars, dbVars, slotRWVars, slotVars, writerVars, indexVars, producerVars,
       ClaimInv, ClaimPhase, RingContents, Front, Pending
  <2>4. QED BY <2>1, <2>2, <2>3, BlockStepOfOne
<1>8. QED BY <1>3, <1>4, <1>5, <1>6, <1>7

\* The producer works on the slot of its last claim, COMMITTED slots hold an
\* earlier slot_id of theirs, and an ordered handle names the consumer's position:
\* in every behaviour, also when processes die at any point.
THEOREM BlockPlaces == Spec => []PlacesInv
<1>1. QED BY PlacesInit, PlacesStep, PTL DEF Spec

\* release_consume_handle moves read_index (Sequential) and a consumer's position
\* (Sequential_sync) by one slot only, whatever the interleaving and whoever dies:
\* consumption is gap-free.
THEOREM ConsumersAdvance == Spec => AdvancesByOne
<1> DEFINE A == /\ policy = "Sequential" => read_index' \in {read_index, read_index + 1}
                /\ \A c \in Consumers :
                     hb[c] # NoHb /\ cpc[c] \in {"ready", "advance", "scan"} =>
                         position'[hb[c]] \in {position[hb[c]], position[hb[c]] + 1}
<1>1. PlacesInv /\ [Next]_vars => [A]_vars
  BY StepByOne DEF PlacesInv, SlotInv, BlockInv
<1>2. QED BY <1>1, BlockPlaces, PTL DEF Spec, AdvancesByOne

\* acquire_consume_slot of a Latest_only consumer never yields data older than the
\* newest commit when it began, also when producers die and are replaced; and with
\* two slots or more and no dead producer the newest commit stays readable.
THEOREM LatestReadsHold == Spec => []LatestReads
<1>1. Init => PlacesInv /\ LatestInv /\ WindowInv
  BY PlacesInit, FreshInit
<1>2. PlacesInv /\ LatestInv /\ WindowInv /\ [Next]_vars => (PlacesInv /\ LatestInv /\ WindowInv)'
  BY PlacesStep, LatestStep, WindowStep
<1>3. PlacesInv /\ LatestInv /\ WindowInv => LatestReads
  <2> SUFFICES ASSUME PlacesInv, LatestInv, WindowInv
               PROVE  LatestReadsFresh /\ LatestStaysReadable
    BY DEF LatestReads
  <2> USE DEF PlacesInv
  <2>1. LatestReadsFresh
    BY DEF LatestReadsFresh, LatestInv, SlotInv, ReadsAreStable, Busy, Consumers
  <2>2. ASSUME Cap >= 2, commit_index # NoSlot, \A w \in Writers : wpc[w] # "dead"
        PROVE  slot_state[commit_index % Cap] = "COMMITTED"
    <3>1. commit_index \in Nat /\ Cap \in Nat
      BY <2>2, SlotRWAssumption, DataBlockAssumption DEF SlotInv, SlotTypeOK
    <3>2. Front \in Nat /\ commit_index < Front
      BY ClaimIsFront DEF ClaimInv, RingContents
    <3>3. Stored(commit_index)
      BY SMT, <2>2, <3>1, <3>2 DEF WindowInv, NoDeadProducer, DeadProducers
    <3>4. QED BY <3>3 DEF Stored
  <2>3. QED BY <2>1, <2>2 DEF LatestStaysReadable
<1>4. QED BY <1>1, <1>2, <1>3, PTL DEF Spec

\* A Sequential or Sequential_sync consumer reads every slot in order: what it gets
\* is the slot_id it asked for, the producer stays within a ring of every consumer
\* and never drains a slot that one of them holds.  For every ring size, number of
\* consumers and heartbeat slots, and with consumers that die and are cleaned up.
THEOREM OrderedReadsHold == Spec => [](InOrder => OrderedReads)
<1> DEFINE Inv == PlacesInv /\ WindowInv /\ OrderInv
<1>1. Init => Inv
  BY PlacesInit, FreshInit, OrderInit
<1>2. Inv /\ [Next]_vars => Inv'
  BY PlacesStep, WindowStep, OrderStep
<1>3. Inv => (InOrder => OrderedReads)
  BY OrderedReadsFollow
<1>4. QED BY <1>1, <1>2, <1>3, PTL DEF Spec
=============================================================================
