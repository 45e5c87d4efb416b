------------------------ MODULE DataBlockOrderProofs ------------------------
(***************************************************************************)
(* What the consumers of a DataBlock read, for any ring size and number of *)
(* consumers: Latest_only reads are fresh (LatestInv), and ordered reads   *)
(* are complete and in order while no producer dies (WindowInv, then       *)
(* SequentialInv and SyncInv).  All of it rests on one fact: the producer  *)
(* only touches the slot of the slot_id it claimed last, so a slot_id less *)
(* than a ring below that claim stays where it is.                         *)
(***************************************************************************)
EXTENDS DataBlockPlaceProofs

\* The leaves are Zenon's unless they cite SMT: few of them need arithmetic.
USE Zenon

-----------------------------------------------------------------------------
(* What the slot of a committed slot_id holds                              *)

\* The slot of slot_id k, if it is readable, holds k or a later slot_id.
NotOlder(k) == slot_state[k % Cap] = "COMMITTED" => buffer[k % Cap] >= k
\* It holds k.
Stored(k) == slot_state[k % Cap] = "COMMITTED" /\ buffer[k % Cap] = k

\* The slot the producer works on is that of the slot_id Front.
LEMMA ClaimIsFront ==
    ASSUME SlotInv, BlockInv, ClaimInv
    PROVE  /\ Front \in Nat /\ Front <= write_index
           /\ wpc[producer] \in Claimed =>
                /\ Front = write_index - 1
                /\ wid[producer] = Front /\ wslot[producer] = Front % Cap
           /\ wpc[producer] = "publish" =>
                wid[producer] = Front - 1 /\ wslot[producer] = (Front - 1) % Cap
<1> USE ClaimTypes DEF ClaimInv
<1>1. ClaimPhase /\ commit_index < Front
  BY DEF RingContents
<1>2. commit_index >= -1
  BY SMT, SlotRWAssumption DEF SlotInv, SlotTypeOK, NoSlot
<1>3. Front <= write_index
  BY SMT DEF Front
<1>4. wpc[producer] \in Claimed => Front = write_index - 1
  BY DEF Front, Pending
<1>5. wpc[producer] = "publish" => Front = write_index
  BY <1>1 DEF Front, Pending, ClaimPhase, Claimed
<1>6. QED BY SMT, <1>1, <1>2, <1>3, <1>4, <1>5 DEF ClaimPhase

\* No move of the producer makes the slot of a published slot_id older.
LEMMA NotOlderStays ==
    ASSUME SlotInv, BlockInv, ClaimInv, Quiet \/ Works \/ Commits \/ Publishes,
           NEW k \in Nat, k < Front, NotOlder(k)
    PROVE  NotOlder(k)'
<1> USE ClaimTypes, ClaimIsFront DEF NotOlder
<1>0. k % Cap \in Slots
  BY RingSlot
<1>1. CASE Quiet \/ Publishes
  BY <1>1 DEF Quiet, Publishes
<1>2. CASE Works
  BY <1>0, <1>2 DEF Works
<1>3. CASE Commits
  <2>1. wpc[producer] \in Claimed /\ wslot[producer] \in Slots
    BY <1>3 DEF Commits, Claimed
  <2>2. CASE k % Cap = wslot[producer]
    BY SMT, <1>3, <2>1, <2>2 DEF Commits
  <2>3. CASE k % Cap # wslot[producer]
    BY <1>0, <1>3, <2>1, <2>3 DEF Commits
  <2>4. QED BY <2>2, <2>3
<1>4. QED BY <1>1, <1>2, <1>3

\* Nor does it touch the slot of a slot_id less than a ring below its claim.
LEMMA StoredStays ==
    ASSUME SlotInv, BlockInv, ClaimInv, Quiet \/ Works \/ Commits \/ Publishes,
           NEW k \in Nat, k < Front, Stored(k),
           wpc[producer] \in Claimed => Front - k < Cap
    PROVE  Stored(k)'
<1> USE ClaimTypes, ClaimIsFront DEF Stored
<1>0. k % Cap \in Slots
  BY RingSlot
<1>1. CASE Quiet \/ Publishes
  BY <1>1 DEF Quiet, Publishes
<1>2. CASE Works \/ Commits
  <2>1. wpc[producer] \in Claimed /\ wslot[producer] \in Slots
    BY <1>2 DEF Works, Commits, Claimed
  <2>2. k % Cap # wslot[producer]
    BY <2>1, SlotsApart
  <2>3. QED BY <1>0, <1>2, <2>1, <2>2 DEF Works, Commits
<1>3. QED BY <1>1, <1>2

\* The slot_id that a commit adds is in its slot.
LEMMA CommitStores ==
    ASSUME SlotInv, BlockInv, ClaimInv, Commits, NEW k \in Nat, k = Front
    PROVE  Stored(k)'
<1> USE ClaimTypes, ClaimIsFront DEF Stored
<1>1. k % Cap = wslot[producer] /\ wslot[producer] \in Slots /\ wid[producer] = k
  BY DEF Commits, Claimed
<1>2. slot_state'[wslot[producer]] = "COMMITTED" /\ buffer'[wslot[producer]] = k
  BY <1>1 DEF Commits
<1>3. QED BY <1>1, <1>2

-----------------------------------------------------------------------------
(* Latest_only                                                             *)

\* commit_index and the handles of Latest_only consumers name slots that hold
\* nothing older.
LatestInv ==
    /\ commit_index # NoSlot => NotOlder(commit_index)
    /\ policy = "Latest_only" =>
         \A c \in Consumers : Busy(c) =>
            /\ slot_id[c] <= commit_index
            /\ NotOlder(slot_id[c])
            /\ rpc[c] \in {"capture", "reading"} => buffer[rslot[c]] >= slot_id[c]

\* No step changes the buffer a reader is inside.
LEMMA ReadSlotsKept ==
    ASSUME SlotInv, [SlotNext]_slotRWVars, NEW c \in Consumers, rpc[c] \in {"capture", "reading"}
    PROVE  buffer'[rslot[c]] = buffer[rslot[c]]
<1> USE DEF SlotInv, Consumers
<1>1. ASSUME NEW w \in Writers, WriterActs(w) PROVE buffer'[rslot[c]] = buffer[rslot[c]]
  BY <1>1, WriterKeepsReadSlots
<1>2. ASSUME NEW r \in Readers, ReaderActs(r) PROVE buffer'[rslot[c]] = buffer[rslot[c]]
  BY <1>2, ReaderFrame
<1>3. CASE UNCHANGED slotRWVars
  BY <1>3 DEF slotRWVars
<1>4. QED BY <1>1, <1>2, <1>3, StepOfOne

\* The producer's steps keep the Latest_only invariant.
LEMMA LatestProducerStep ==
    ASSUME PlacesInv, LatestInv, NEW w \in Writers, ProducerActs(w)
    PROVE  LatestInv'
<1> USE DEF PlacesInv
<1>0. SlotTypeOK /\ IndexTypes /\ Next
  BY DEF SlotInv, BlockInv, ProducerActs, Next
<1>1. Quiet \/ Works \/ Commits \/ Publishes
  BY ClaimMoves
<1>2. UNCHANGED <<policy, rpc, rslot, slot_id>>
  BY ProducerSparesConsumers DEF consumerVars, readerVars
<1>3. commit_index \in Nat \cup {NoSlot} /\ commit_index < Front
  BY <1>0, SlotRWAssumption DEF SlotTypeOK, ClaimInv, RingContents
<1>4. commit_index' # commit_index =>
        Publishes /\ commit_index' = wid[producer] /\ wid[producer] = Front - 1
  BY <1>1, ClaimIsFront DEF Quiet, Works, Commits, Publishes
<1>5. Front \in Nat /\ slot_id \in [Consumers -> Nat]
  BY <1>0, ClaimIsFront DEF IndexTypes
<1>6. commit_index' >= commit_index
  BY SMT, <1>3, <1>4, <1>5 DEF NoSlot
<1>7. commit_index' # NoSlot => NotOlder(commit_index)'
  <2>1. CASE commit_index' = commit_index
    <3>1. ASSUME commit_index # NoSlot PROVE NotOlder(commit_index)'
      <4>1. PICK k \in Nat : k = commit_index
        BY <1>3, <3>1
      <4>2. NotOlder(k)'
        BY <1>1, <1>3, <3>1, <4>1, NotOlderStays DEF LatestInv
      <4>3. QED BY <2>1, <4>1, <4>2 DEF NotOlder
    <3>2. QED BY <2>1, <3>1
  <2>2. CASE commit_index' # commit_index
    <3>1. /\ UNCHANGED <<slot_state, buffer>>
          /\ wpc[producer] = "publish" /\ commit_index' = wid[producer]
      BY <1>4, <2>2 DEF Publishes
    <3>2. slot_state[wslot[producer]] = "COMMITTED" /\ buffer[wslot[producer]] = wid[producer]
          /\ wslot[producer] = wid[producer] % Cap
      BY <3>1 DEF ClaimInv, ClaimPhase
    <3>3. wid[producer] \in Nat
      BY ClaimTypes
    <3>4. QED BY SMT, <3>1, <3>2, <3>3 DEF NotOlder
  <2>3. QED BY <2>1, <2>2
<1>8. ASSUME policy = "Latest_only", NEW c \in Consumers, Busy(c)
      PROVE  /\ slot_id[c] <= commit_index'
             /\ NotOlder(slot_id[c])'
             /\ rpc[c] \in {"capture", "reading"} => buffer'[rslot[c]] >= slot_id[c]
  <2>1. /\ slot_id[c] <= commit_index /\ NotOlder(slot_id[c])
        /\ rpc[c] \in {"capture", "reading"} => buffer[rslot[c]] >= slot_id[c]
    BY <1>8 DEF LatestInv
  <2>2. slot_id[c] <= commit_index'
    BY SMT, <1>3, <1>4, <1>5, <1>6, <2>1, ClaimTypes DEF NoSlot
  <2>3. PICK k \in Nat : k = slot_id[c]
    BY <1>5
  <2>4. k < Front /\ NotOlder(k)
    BY SMT, <1>3, <1>5, <2>1, <2>3 DEF NoSlot
  <2>5. NotOlder(k)'
    BY <1>1, <2>4, NotOlderStays
  <2>6. NotOlder(slot_id[c])'
    BY <1>2, <2>3, <2>5 DEF NotOlder
  <2>7. rpc[c] \in {"capture", "reading"} => buffer'[rslot[c]] >= slot_id[c]
    BY <1>0, <2>1, BlockStepIsSlotStep, ReadSlotsKept
  <2>8. QED BY <2>2, <2>6, <2>7
<1>9. QED BY <1>2, <1>7, <1>8 DEF LatestInv, Busy

\* How the handle of a consumer changes in its own steps: it takes a new one, or
\* it goes on with the one it has.
LEMMA HandleMoves ==
    ASSUME SlotTypeOK, HandleTypes, NEW c \in Consumers, ConsumerPhase(c), ConsumerActs(c)
    PROVE  \/ /\ AcquireConsumeSlot(c) /\ rpc'[c] = "check1" /\ cpc'[c] = "ready"
           \/ /\ HasHandle(c)' => HasHandle(c) /\ slot_id'[c] = slot_id[c]
              /\ Busy(c)' => Busy(c) /\ rslot'[c] = rslot[c] /\ slot_id'[c] = slot_id[c]
              /\ rpc'[c] = "capture" /\ rpc[c] # "capture" =>
                    rpc[c] = "check2" /\ slot_state[rslot[c]] = "COMMITTED"
              /\ rpc'[c] = "reading" => rpc[c] \in {"capture", "reading"}
              /\ rpc'[c] = "releasing" => rpc[c] \in {"reading", "releasing"}
              /\ cpc'[c] = "advance" => \/ rpc[c] = "releasing"
                                        \/ cpc[c] = "advance"
<1> USE DEF SlotTypeOK, HandleTypes, HasHandle, Busy, ConsumerPhase, Consumers
<1>1. CASE AcquireConsumeSlot(c)
  BY <1>1 DEF AcquireConsumeSlot, BeginAcquireRead
<1>2. CASE RegisterHeartbeat(c) \/ Detach(c)
  BY <1>2 DEF RegisterHeartbeat, Detach, slotRWVars, readerVars
<1>3. CASE JoinLoad(c)
  BY <1>3 DEF JoinLoad, slotRWVars, readerVars
<1>4. CASE JoinStore(c) \/ AdvancePosition(c) \/ ScanPosition(c) \/ StoreMinimum(c)
  BY <1>4 DEF JoinStore, AdvancePosition, ScanPosition, StoreMinimum, slotRWVars, readerVars
<1>5. CASE AcquireReadStep(c)
  BY SMT, <1>5 DEF AcquireReadStep, CheckCommitted, RegisterReader, RecheckCommitted,
     UnregisterReader, CaptureGeneration, dbVars, consumerVars
<1>6. CASE ValidateHandle(c)
  BY <1>6 DEF ValidateHandle, EndRead
<1>7. CASE ReleaseHandle(c)
  BY <1>7 DEF ReleaseHandle, ReleaseRead
<1>8. CASE CrashConsumer(c)
  BY <1>8 DEF CrashConsumer, CrashReader
<1>9. QED
  BY <1>1, <1>2, <1>3, <1>4, <1>5, <1>6, <1>7, <1>8 DEF ConsumerActs, ConsumerStep

\* So do the consumers' steps.
LEMMA LatestConsumerStep ==
    ASSUME PlacesInv, LatestInv, NEW c \in Consumers, ConsumerActs(c)
    PROVE  LatestInv'
<1> USE DEF PlacesInv
<1>0. SlotTypeOK /\ IndexTypes /\ HandleTypes /\ ConsumerPhase(c) /\ HandleNamesNext(c)
  BY DEF SlotInv, BlockInv, HandleInv
<1>1. UNCHANGED <<policy, slot_state, buffer, commit_index>>
  BY ConsumerSparesProducer
<1>2. commit_index' # NoSlot => NotOlder(commit_index)'
  BY <1>1 DEF LatestInv, NotOlder
<1>3. ASSUME policy = "Latest_only", NEW d \in Consumers, Busy(d)'
      PROVE  (/\ slot_id[d] <= commit_index
              /\ NotOlder(slot_id[d])
              /\ rpc[d] \in {"capture", "reading"} => buffer[rslot[d]] >= slot_id[d])'
  <2>1. CASE d # c
    <3>1. UNCHANGED <<rpc[d], rslot[d], slot_id[d]>>
      BY <1>0, <2>1, ConsumerSparesOthers
    <3>2. QED BY <1>1, <1>3, <3>1 DEF LatestInv, Busy, NotOlder
  <2>2. CASE d = c /\ AcquireConsumeSlot(c) /\ rpc'[c] = "check1"
    <3>1. slot_id'[c] = commit_index /\ commit_index # NoSlot
      BY <1>0, <1>3, <2>2 DEF AcquireConsumeSlot, NextSlotToRead, IndexTypes
    <3>2. commit_index \in Int
      BY ClaimTypes
    <3>3. QED BY SMT, <1>1, <2>2, <3>1, <3>2 DEF LatestInv, NotOlder
  <2>3. CASE d = c /\ ~(AcquireConsumeSlot(c) /\ rpc'[c] = "check1")
    <3>1. /\ Busy(c) /\ rslot'[c] = rslot[c] /\ slot_id'[c] = slot_id[c]
          /\ rpc'[c] = "capture" /\ rpc[c] # "capture" => slot_state[rslot[c]] = "COMMITTED"
          /\ rpc'[c] = "reading" => rpc[c] \in {"capture", "reading"}
      BY <1>0, <1>3, <2>3, HandleMoves
    <3>2. /\ slot_id[c] <= commit_index /\ NotOlder(slot_id[c])
          /\ rpc[c] \in {"capture", "reading"} => buffer[rslot[c]] >= slot_id[c]
      BY <1>3, <3>1 DEF LatestInv
    <3>3. rslot[c] = slot_id[c] % Cap
      BY <1>0, <3>1 DEF HandleNamesNext
    <3>4. QED BY <1>1, <2>3, <3>1, <3>2, <3>3 DEF NotOlder
  <2>4. QED BY <2>1, <2>2, <2>3
<1>4. QED BY <1>1, <1>2, <1>3 DEF LatestInv

-----------------------------------------------------------------------------
(* While no producer has died                                              *)

\* The slot_ids below the front that are less than a ring older than the next
\* commit are in their slots; commit_index lags behind the front only while the
\* last commit is being published.
WindowInv ==
    NoDeadProducer =>
        /\ commit_index = IF wpc[producer] = "publish" THEN Front - 2 ELSE Front - 1
        /\ \A k \in Nat : k < Front /\ commit_index + 1 - k < Cap => Stored(k)

\* A process that died stays dead.
LEMMA DeadStay ==
    ASSUME SlotTypeOK, [SlotNext]_slotRWVars, NoDeadProducer'
    PROVE  NoDeadProducer
<1> SUFFICES ASSUME NEW v \in Writers, wpc[v] = "dead" PROVE wpc'[v] = "dead"
  BY DEF NoDeadProducer, DeadProducers
<1>1. ASSUME NEW w \in Writers, WriterActs(w) PROVE wpc'[v] = "dead"
  <2>1. wpc[w] # "dead"
    BY <1>1 DEF WriterActs, WriterStep, BeginAcquireWrite, LockWrite, LockTimeout, LoadState,
       EnterDraining, Drained, DrainTimeout, RestoreCommitted, StartWriting, FillBuffer,
       CommitGeneration, CommitState, PublishCommit, Abort, AbortState, Unlock, CrashWriter
  <2>2. QED BY <1>1, <2>1, WriterSparesWriters
<1>2. ASSUME NEW r \in Readers, ReaderActs(r) PROVE wpc'[v] = "dead"
  BY <1>2, ReaderFrame DEF writerVars
<1>3. CASE UNCHANGED slotRWVars
  BY <1>3 DEF slotRWVars, writerVars
<1>4. QED BY <1>1, <1>2, <1>3, StepOfOne

\* The producer's moves keep the window.
LEMMA WindowProducerStep ==
    ASSUME PlacesInv, WindowInv, NEW w \in Writers, ProducerActs(w), NoDeadProducer,
           NoDeadProducer'
    PROVE  WindowInv'
<1> USE DEF PlacesInv
<1>1. Quiet \/ Works \/ Commits \/ Publishes
  BY ClaimMoves
<1>2. /\ commit_index = IF wpc[producer] = "publish" THEN Front - 2 ELSE Front - 1
      /\ \A k \in Nat : k < Front /\ commit_index + 1 - k < Cap => Stored(k)
  BY DEF WindowInv
<1>3. Front \in Nat /\ commit_index \in Int /\ Cap \in Nat
  BY ClaimIsFront, ClaimTypes, DataBlockAssumption
<1>4. "publish" \notin Claimed
  BY DEF Claimed
<1>5. CASE Quiet
  <2>1. /\ UNCHANGED <<slot_state, buffer, commit_index>> /\ Front' = Front
        /\ wpc'[producer'] = "publish" <=> wpc[producer] = "publish"
    BY <1>5 DEF Quiet
  <2>2. QED BY <1>2, <2>1 DEF WindowInv, Stored
<1>6. CASE Works
  <2>1. /\ commit_index' = commit_index /\ Front' = Front
        /\ wpc'[producer'] # "publish" /\ wpc[producer] # "publish"
    BY <1>4, <1>6 DEF Works
  <2>2. ASSUME NEW k \in Nat, k < Front', commit_index' + 1 - k < Cap PROVE Stored(k)'
    BY SMT, <1>1, <1>2, <1>3, <2>1, <2>2, StoredStays
  <2>3. QED BY <1>2, <2>1, <2>2 DEF WindowInv
<1>7. CASE Commits
  <2>1. /\ commit_index' = commit_index /\ Front' = Front + 1
        /\ wpc'[producer'] = "publish" /\ wpc[producer] # "publish"
    BY <1>7 DEF Commits
  <2>2. ASSUME NEW k \in Nat, k < Front', commit_index' + 1 - k < Cap PROVE Stored(k)'
    <3>1. CASE k = Front
      BY <1>7, <3>1, CommitStores
    <3>2. CASE k < Front
      BY SMT, <1>1, <1>2, <1>3, <2>1, <2>2, <3>2, StoredStays
    <3>3. QED BY SMT, <1>3, <2>1, <2>2, <3>1, <3>2
  <2>3. QED BY SMT, <1>2, <1>3, <2>1, <2>2 DEF WindowInv
<1>8. CASE Publishes
  <2>1. /\ commit_index' = Front - 1 /\ Front' = Front /\ UNCHANGED <<slot_state, buffer>>
        /\ wpc'[producer'] # "publish" /\ wpc[producer] = "publish"
    BY <1>8, ClaimIsFront DEF Publishes
  <2>2. ASSUME NEW k \in Nat, k < Front', commit_index' + 1 - k < Cap PROVE Stored(k)'
    BY SMT, <1>2, <1>3, <2>1, <2>2 DEF Stored
  <2>3. QED BY <2>1, <2>2 DEF WindowInv
<1>9. QED BY <1>1, <1>5, <1>6, <1>7, <1>8

\* Every step keeps the window.
LEMMA WindowStep ==
    ASSUME PlacesInv, WindowInv, [Next]_vars
    PROVE  WindowInv'
<1> SUFFICES ASSUME NoDeadProducer' PROVE WindowInv'
  BY DEF WindowInv
<1>1. SlotTypeOK /\ BlockInv
  BY DEF PlacesInv, SlotInv
<1>2. NoDeadProducer
  BY <1>1, BlockStepIsSlotStep, DeadStay
<1>3. ASSUME NEW w \in Writers, ProducerActs(w) PROVE WindowInv'
  BY <1>2, <1>3, WindowProducerStep
<1>4. ASSUME NEW c \in Consumers, ConsumerActs(c) PROVE WindowInv'
  BY <1>4, ConsumerSparesProducer
     DEF WindowInv, Stored, Front, Pending, NoDeadProducer, DeadProducers
<1>5. CASE UNCHANGED vars
  BY <1>5 DEF vars, dbVars, slotRWVars, slotVars, writerVars, indexVars, producerVars,
     WindowInv, Stored, Front, Pending, NoDeadProducer, DeadProducers
<1>6. QED BY <1>3, <1>4, <1>5, BlockStepOfOne

\* Every step keeps the Latest_only invariant.
LEMMA LatestStep ==
    ASSUME PlacesInv, LatestInv, [Next]_vars
    PROVE  LatestInv'
<1>1. CASE UNCHANGED vars
  BY <1>1 DEF vars, dbVars, slotRWVars, slotVars, readerVars, consumerVars, LatestInv,
     NotOlder, Busy
<1>2. QED BY <1>1, LatestProducerStep, LatestConsumerStep, BlockStepOfOne

\* A fresh block has nothing to read.
LEMMA FreshInit ==
    ASSUME Init
    PROVE  LatestInv /\ WindowInv
<1>1. /\ commit_index = -1 /\ write_index = 0 /\ producer \in Writers /\ ppc = "idle"
      /\ wpc[producer] = "idle"
      /\ \A c \in Consumers : rpc[c] = "idle"
  BY DEF Init, SlotInit, NoSlot, Consumers
<1>2. Front = 0
  BY <1>1 DEF Front, Pending, Claimed
<1>3. QED BY SMT, <1>1, <1>2 DEF LatestInv, WindowInv, Busy, NoSlot

-----------------------------------------------------------------------------
(* Ordered policies                                                        *)

\* A reader at position p: it is not ahead of the front, the producer is at most
\* a ring ahead of it, and what it has not read is in the ring.
Kept(p) ==
    /\ p <= Front
    /\ write_index - p <= Cap
    /\ ppc = "claim" => write_index - p < Cap
    /\ \A k \in Nat : p <= k /\ k < Front => Stored(k)

\* The reader may move up to the front.
LEMMA KeptUp ==
    ASSUME PlacesInv, NEW p \in Nat, NEW q \in Nat, Kept(p), p <= q, q <= Front
    PROVE  Kept(q)
<1>1. write_index \in Nat /\ Cap \in Nat /\ Front \in Nat
  BY ClaimTypes, ClaimIsFront, DataBlockAssumption DEF PlacesInv
<1>2. QED BY SMT, <1>1 DEF Kept

\* write_index and the phase of the producer.
LEMMA IndexMoves ==
    ASSUME NEW w \in Writers, ProducerActs(w)
    PROVE  \/ write_index' = write_index /\ (ppc' = "claim" => ppc = "claim" \/ RingCheck(w))
           \/ write_index' = write_index + 1 /\ ppc = "claim" /\ ppc' = "slot"
           \/ write_index' = write_index - 1 /\ ppc' = "idle"
<1> USE DEF dbVars, indexVars, producerVars
<1>1. CASE RingCheck(w) \/ ClaimSlot(w) \/ UndoClaim(w) \/ CheckConsumerHealth(w)
  BY <1>1 DEF RingCheck, ClaimSlot, UndoClaim, CheckConsumerHealth
<1>2. CASE AcquireAndFill(w) \/ CommitHandle(w) \/ CrashProducer(w) \/ AbortHandle(w)
  BY <1>2 DEF AcquireAndFill, CommitHandle, CrashProducer, AbortHandle
<1>3. CASE ReleaseLock(w) \/ AcquireTimeout(w) \/ AttachWriter(w)
  BY <1>3 DEF ReleaseLock, AcquireTimeout, AttachWriter
<1>4. QED BY <1>1, <1>2, <1>3 DEF ProducerActs, ProducerStep

\* The producer keeps what a reader at p has not read, if its ring check saw p or
\* an earlier position.
LEMMA KeptStep ==
    ASSUME PlacesInv, NEW w \in Writers, ProducerActs(w), NEW p \in Nat, Kept(p),
           NoDeadProducer', RingCheck(w) => write_index - p < Cap
    PROVE  Kept(p)'
<1> USE DEF PlacesInv
<1>1. Front' \in Int /\ (Quiet \/ Works \/ Commits \/ Publishes)
  BY ClaimMoves
<1>2. write_index \in Nat /\ Cap \in Nat /\ Front \in Nat
  BY ClaimTypes, ClaimIsFront, DataBlockAssumption
<1>3. Front' = Front \/ (Commits /\ Front' = Front + 1)
  BY <1>1 DEF Quiet, Works, Commits, Publishes
<1>4. p <= Front'
  BY SMT, <1>1, <1>2, <1>3 DEF Kept
<1>5. write_index' - p <= Cap /\ (ppc' = "claim" => write_index' - p < Cap)
  BY SMT, <1>2, IndexMoves DEF Kept
<1>6. ASSUME NEW k \in Nat, p <= k, k < Front' PROVE Stored(k)'
  <2>1. CASE k < Front
    <3>1. wpc[producer] \in Claimed => Front - k < Cap
      BY SMT, <1>2, <1>6, ClaimIsFront DEF Kept
    <3>2. QED BY <1>1, <1>6, <2>1, <3>1, StoredStays DEF Kept
  <2>2. CASE ~(k < Front)
    BY SMT, <1>1, <1>2, <1>3, <1>6, <2>2, CommitStores
  <2>3. QED BY <2>1, <2>2
<1>7. QED BY <1>4, <1>5, <1>6 DEF Kept

-----------------------------------------------------------------------------
\* Sequential: the one reader is at read_index.
SequentialInv ==
    policy = "Sequential" =>
        /\ Kept(read_index)
        /\ \A c \in Consumers : HasHandle(c) => slot_id[c] < Front

\* The ring check of acquire_write_slot keeps the unread slots of a Sequential block.
LEMMA SequentialProducerStep ==
    ASSUME PlacesInv, SequentialInv, NEW w \in Writers, ProducerActs(w), NoDeadProducer'
    PROVE  SequentialInv'
<1>1. UNCHANGED <<policy, read_index, rpc, cpc, slot_id>>
  BY ProducerSparesConsumers DEF consumerVars, readerVars
<1> SUFFICES ASSUME policy = "Sequential"
             PROVE  Kept(read_index)' /\ \A c \in Consumers : HasHandle(c)' => slot_id[c] < Front'
  BY <1>1 DEF SequentialInv
<1>2. /\ write_index \in Nat /\ Cap \in Nat /\ Front \in Nat /\ Front <= write_index
      /\ 2 * Cap < WORD /\ read_index \in Nat /\ slot_id \in [Consumers -> Nat]
  BY ClaimTypes, ClaimIsFront, DataBlockAssumption DEF PlacesInv, BlockInv, IndexTypes
<1>3. Kept(read_index) /\ read_index <= Front /\ write_index - read_index <= Cap
  BY DEF SequentialInv, Kept
<1>4. RingCheck(w) => write_index - read_index < Cap
  <2>1. RingCheck(w) => (write_index - read_index) % WORD < Cap
    BY DEF RingCheck, Ordered
  <2>2. (write_index - read_index) % WORD = write_index - read_index
    BY SMT, <1>2, <1>3 DEF WORD
  <2>3. QED BY <2>1, <2>2
<1>5. PICK p \in Nat : p = read_index
  BY <1>2
<1>6. Kept(p)'
  BY <1>3, <1>4, <1>5, KeptStep
<1>7. Kept(read_index)'
  BY <1>1, <1>5, <1>6 DEF Kept
<1>8. Front' \in Int /\ Front' >= Front
  BY SMT, <1>2, ClaimMoves DEF PlacesInv, Quiet, Works, Commits, Publishes
<1>9. ASSUME NEW c \in Consumers, HasHandle(c)' PROVE slot_id[c] < Front'
  BY SMT, <1>1, <1>2, <1>8, <1>9 DEF SequentialInv, HasHandle, Busy
<1>10. QED BY <1>7, <1>9

\* The reader of a Sequential block moves over slots that are in the ring.
LEMMA SequentialConsumerStep ==
    ASSUME PlacesInv, SequentialInv, NEW c \in Consumers, ConsumerActs(c)
    PROVE  SequentialInv'
<1>0. SlotTypeOK /\ IndexTypes /\ HandleTypes /\ ConsumerPhase(c) /\ HandleNamesNext(c)
  BY DEF PlacesInv, SlotInv, BlockInv, HandleInv
<1>1. UNCHANGED <<policy, write_index, ppc, slot_state, buffer, commit_index>> /\ Front' = Front
  BY ConsumerSparesProducer DEF Front, Pending
<1> SUFFICES ASSUME policy = "Sequential"
             PROVE  Kept(read_index)' /\ \A d \in Consumers : HasHandle(d)' => slot_id'[d] < Front
  BY <1>1 DEF SequentialInv
<1>2. /\ Front \in Nat /\ read_index \in Nat /\ slot_id \in [Consumers -> Nat]
      /\ commit_index \in Int /\ commit_index < Front /\ Kept(read_index)
  BY <1>0, ClaimTypes, ClaimIsFront DEF PlacesInv, IndexTypes, SequentialInv, ClaimInv, RingContents
<1>3. ASSUME NEW d \in Consumers, HasHandle(d)' PROVE slot_id'[d] < Front
  <2>1. CASE d # c
    <3>1. UNCHANGED <<rpc[d], cpc[d], slot_id[d]>>
      BY <1>0, <2>1, ConsumerSparesOthers
    <3>2. QED BY <1>3, <3>1 DEF SequentialInv, HasHandle, Busy
  <2>2. CASE d = c /\ AcquireConsumeSlot(c)
    <3>1. slot_id'[c] = read_index /\ read_index <= commit_index
      BY SMT, <1>0, <1>2, <2>2 DEF AcquireConsumeSlot, NextSlotToRead, IndexTypes
    <3>2. QED BY SMT, <1>2, <2>2, <3>1
  <2>3. CASE d = c /\ ~AcquireConsumeSlot(c)
    BY <1>0, <1>3, <2>3, HandleMoves DEF SequentialInv
  <2>4. QED BY <2>1, <2>2, <2>3
<1>4. Kept(read_index)'
  <2>1. CASE AdvancePosition(c)
    <3>1. read_index' = slot_id[c] + 1 /\ cpc[c] = "advance"
      BY <2>1 DEF AdvancePosition
    <3>2. slot_id[c] = read_index /\ slot_id[c] < Front
      BY <1>0, <3>1 DEF HandleNamesNext, HasHandle, SequentialInv
    <3>3. PICK q \in Nat : q = read_index + 1
      BY SMT, <1>2
    <3>4. Kept(q)
      BY SMT, <1>2, <3>2, <3>3, KeptUp
    <3>5. QED BY <1>1, <3>1, <3>2, <3>3, <3>4 DEF Kept, Stored
  <2>2. CASE ~AdvancePosition(c)
    <3>1. ~StoreMinimum(c)
      BY <1>0 DEF StoreMinimum, ConsumerPhase
    <3>2. read_index' = read_index
      BY <2>2, <3>1 DEF ConsumerActs, ConsumerStep, JoinLoad, JoinStore, AcquireConsumeSlot,
         AcquireReadStep, ValidateHandle, ReleaseHandle, ScanPosition,
         RegisterHeartbeat, Detach, CrashConsumer, dbVars, indexVars
    <3>3. QED BY <1>1, <1>2, <3>2 DEF Kept, Stored
  <2>3. QED BY <2>1, <2>2
<1>5. QED BY <1>3, <1>4

-----------------------------------------------------------------------------
\* Sequential_sync: read_index is at most a ring below the slowest reader.
Taken(i) == consumer_pid[i] # NoPid
Holds(c) == rpc[c] \in {"capture", "reading", "releasing"} \/ cpc[c] = "advance"

SyncBlock == policy = "Sequential_sync" /\ ~LateJoin /\ Cap >= 2

\* read_index lags: it may be the minimum of positions that have moved on.
LagInv ==
    /\ read_index <= Front
    /\ write_index - read_index <= 2 * Cap
    /\ ppc = "claim" => write_index - read_index < 2 * Cap

\* Every registered position is kept, and read_index has not passed it.
PositionsKept ==
    \A i \in HbSlots :
        /\ position[i] <= Front
        /\ Taken(i) => read_index <= position[i] /\ Kept(position[i])

\* What a consumer knows at each step of joining, reading and advancing.
SyncHandle(c) ==
    /\ cpc[c] \in {"join_load", "join_store"} => position[hb[c]] = 0
    /\ cpc[c] = "join_store" => slot_id[c] <= Front
    /\ Busy(c) => slot_id[c] < Front \/ slot_id[c] <= 1
    /\ Holds(c) => slot_id[c] < Front
    /\ cpc[c] = "scan" =>
         /\ min_pos[c] <= position[hb[c]]
         /\ position[hb[c]] <= min_pos[c] + Cap
         /\ \A i \in HbSlots : Taken(i) /\ i < scan[c] => min_pos[c] <= position[i]

SyncInv == SyncBlock => LagInv /\ PositionsKept /\ \A c \in Consumers : SyncHandle(c)

\* The ring check against read_index, although that may lag, keeps the unread slots
\* of every registered consumer.
LEMMA SyncProducerStep ==
    ASSUME PlacesInv, SyncInv, NEW w \in Writers, ProducerActs(w), NoDeadProducer'
    PROVE  SyncInv'
<1>1. UNCHANGED <<policy, read_index, position, rpc, cpc, hb, slot_id, scan, min_pos>>
  BY ProducerSparesConsumers DEF consumerVars, readerVars
<1> SUFFICES ASSUME SyncBlock
             PROVE  LagInv' /\ PositionsKept' /\ \A c \in Consumers : SyncHandle(c)'
  BY <1>1 DEF SyncInv, SyncBlock
<1>2. /\ write_index \in Nat /\ Cap \in Nat /\ Front \in Nat /\ Front <= write_index
      /\ 2 * Cap < WORD /\ read_index \in Nat /\ slot_id \in [Consumers -> Nat]
      /\ position \in [HbSlots -> Nat]
      /\ consumer_pid \in [HbSlots -> Consumers \cup {NoPid}]
  BY ClaimTypes, ClaimIsFront, DataBlockAssumption DEF PlacesInv, BlockInv, IndexTypes
<1>3. LagInv /\ PositionsKept /\ \A c \in Consumers : SyncHandle(c)
  BY DEF SyncInv
<1>4. RingCheck(w) => write_index - read_index < Cap
  <2>1. RingCheck(w) => (write_index - read_index) % WORD < Cap
    BY DEF RingCheck, Ordered, SyncBlock
  <2>2. (write_index - read_index) % WORD = write_index - read_index
    BY SMT, <1>2, <1>3 DEF WORD, LagInv
  <2>3. QED BY <2>1, <2>2
<1>5. Front' \in Int /\ Front' >= Front
  BY SMT, <1>2, ClaimMoves DEF PlacesInv, Quiet, Works, Commits, Publishes
<1>6. LagInv'
  BY SMT, <1>1, <1>2, <1>3, <1>4, <1>5, IndexMoves DEF LagInv
<1>7. \A i \in HbSlots : Taken(i)' => Taken(i)
  BY <1>2, ProducerSparesConsumers DEF Taken
<1>8. ASSUME NEW i \in HbSlots
      PROVE  /\ position'[i] <= Front'
             /\ Taken(i)' => read_index' <= position'[i] /\ Kept(position[i])'
  <2>1. position[i] <= Front /\ (Taken(i) => read_index <= position[i] /\ Kept(position[i]))
    BY <1>3 DEF PositionsKept
  <2>2. PICK p \in Nat : p = position[i]
    BY <1>2
  <2>3. position'[i] <= Front'
    BY SMT, <1>1, <1>2, <1>5, <2>1, <2>2
  <2>4. ASSUME Taken(i) PROVE Kept(position[i])'
    <3>1. Kept(p) /\ (RingCheck(w) => write_index - p < Cap)
      BY SMT, <1>2, <1>4, <2>1, <2>2, <2>4
    <3>2. Kept(p)'
      BY <3>1, KeptStep
    <3>3. QED BY <1>1, <2>2, <3>2 DEF Kept
  <2>5. QED BY <1>1, <1>7, <2>1, <2>3, <2>4
<1>9. ASSUME NEW c \in Consumers PROVE SyncHandle(c)'
  <2>1. SyncHandle(c) /\ slot_id[c] \in Nat
    BY <1>2, <1>3
  <2>2. QED BY SMT, <1>1, <1>2, <1>5, <1>7, <2>1 DEF SyncHandle, Busy, Holds
<1>10. QED BY <1>6, <1>8, <1>9 DEF PositionsKept

\* A consumer's step leaves what is kept where it is.
LEMMA KeptByConsumer ==
    ASSUME PlacesInv, NEW c \in Consumers, ConsumerActs(c), NEW p \in Nat, Kept(p)
    PROVE  Kept(p)'
<1>1. UNCHANGED <<write_index, ppc, slot_state, buffer>> /\ Front' = Front
  BY ConsumerSparesProducer DEF Front, Pending
<1>2. QED BY <1>1 DEF Kept, Stored

\* The types of the words and locals of a Sequential_sync block.
LEMMA SyncTypes ==
    ASSUME PlacesInv
    PROVE  /\ write_index \in Nat /\ Cap \in Nat /\ Front \in Nat /\ Front <= write_index
           /\ read_index \in Nat /\ commit_index \in Int /\ commit_index < Front
           /\ slot_id \in [Consumers -> Nat] /\ min_pos \in [Consumers -> Nat]
           /\ scan \in [Consumers -> Nat] /\ position \in [HbSlots -> Nat]
           /\ hb \in [Consumers -> HbSlots \cup {NoHb}]
           /\ consumer_pid \in [HbSlots -> Consumers \cup {NoPid}]
           /\ cpc \in [Consumers -> {"detached", "join_load", "join_store", "ready",
                                     "advance", "scan", "dead"}]
           /\ SlotTypeOK /\ IndexTypes /\ HandleTypes
  BY ClaimTypes, ClaimIsFront, DataBlockAssumption
     DEF PlacesInv, SlotInv, BlockInv, HandleInv, HandleTypes, IndexTypes, ClaimInv, RingContents

\* The other consumers keep what they know when positions only grow.
LEMMA SyncOtherHandle ==
    ASSUME PlacesInv, NEW c \in Consumers, ConsumerActs(c), NEW d \in Consumers \ {c},
           SyncHandle(d), cpc[d] = "scan" => \A i \in HbSlots : Taken(i)' => Taken(i),
           \A i \in HbSlots : position'[i] \in Nat /\ position'[i] >= position[i]
    PROVE  SyncHandle(d)'
<1>1. UNCHANGED <<cpc[d], hb[d], slot_id[d], rpc[d], scan[d], min_pos[d]>>
  BY SyncTypes, ConsumerSparesOthers
<1>2. Front' = Front
  BY ConsumerSparesProducer DEF Front, Pending
<1>3. cpc[d] \in {"join_load", "join_store", "scan"} => hb[d] # NoHb /\ Live(d)
  BY DEF PlacesInv, HandleInv, ConsumerPhase, Live
<1>4. cpc[d] \in {"join_load", "join_store", "scan"} => position'[hb[d]] = position[hb[d]]
  BY <1>3, ConsumerKeepsPlaces, SyncTypes DEF PlacesInv
<1>5. \A i \in HbSlots : min_pos[d] <= position[i] => min_pos[d] <= position'[i]
  BY SMT, SyncTypes
<1>6. (cpc[d] = "scan" => \A i \in HbSlots : Taken(i) /\ i < scan[d] => min_pos[d] <= position[i])'
  BY <1>1, <1>5 DEF SyncHandle
<1>7. QED BY <1>1, <1>2, <1>4, <1>6 DEF SyncHandle, Busy, Holds

\* The words of the block, when neither read_index nor a position moves.
LEMMA SyncFrame ==
    ASSUME PlacesInv, LagInv, PositionsKept, NEW c \in Consumers, ConsumerActs(c),
           UNCHANGED <<read_index, position>>, \A i \in HbSlots : Taken(i)' => Taken(i)
    PROVE  LagInv' /\ PositionsKept'
<1>1. UNCHANGED <<write_index, ppc>> /\ Front' = Front
  BY ConsumerSparesProducer DEF Front, Pending
<1>2. LagInv'
  BY <1>1 DEF LagInv
<1>3. ASSUME NEW i \in HbSlots, Taken(i) PROVE Kept(position[i])'
  <2>1. PICK p \in Nat : p = position[i]
    BY SyncTypes
  <2>2. Kept(p)'
    BY <1>3, <2>1, KeptByConsumer DEF PositionsKept
  <2>3. QED BY <2>1, <2>2 DEF Kept
<1>4. QED BY <1>1, <1>2, <1>3 DEF PositionsKept

\* Attaching before the first claim.
LEMMA SyncRegister ==
    ASSUME PlacesInv, SyncBlock, LagInv, PositionsKept, \A d \in Consumers : SyncHandle(d),
           NEW c \in Consumers, ConsumerActs(c), RegisterHeartbeat(c)
    PROVE  LagInv' /\ PositionsKept' /\ \A d \in Consumers : SyncHandle(d)'
<1>1. UNCHANGED <<write_index, ppc, slot_state, buffer>> /\ Front' = Front
  BY ConsumerSparesProducer DEF Front, Pending
<1>2. UNCHANGED <<read_index, position, rpc, slot_id, scan, min_pos>> /\ write_index = 0
  BY DEF RegisterHeartbeat, SyncBlock, indexVars, slotRWVars, readerVars
<1>3. Front = 0 /\ read_index = 0 /\ \A i \in HbSlots : position[i] = 0
  BY SMT, <1>2, SyncTypes DEF LagInv, PositionsKept
<1>4. LagInv'
  BY <1>1, <1>2 DEF LagInv
<1>5. ASSUME NEW i \in HbSlots PROVE Kept(position[i])'
  BY SMT, <1>1, <1>2, <1>3, DataBlockAssumption DEF Kept
<1>6. PositionsKept'
  BY <1>1, <1>2, <1>3, <1>5 DEF PositionsKept
<1>7. \A d \in Consumers : cpc[d] # "scan"
  <2>1. SUFFICES ASSUME NEW d \in Consumers, cpc[d] = "scan" PROVE FALSE
    OBVIOUS
  <2>2. hb[d] # NoHb /\ position[hb[d]] = slot_id[d] + 1
    BY <2>1 DEF PlacesInv, HandleInv, ConsumerPhase, HandleNamesNext
  <2>3. hb[d] \in HbSlots /\ slot_id[d] \in Nat
    BY <2>2, SyncTypes
  <2>4. QED BY SMT, <1>3, <2>2, <2>3
<1>8. \A d \in Consumers \ {c} : SyncHandle(d)'
  BY SMT, <1>2, <1>7, SyncTypes, SyncOtherHandle
<1>9. SyncHandle(c)'
  <2>1. cpc[c] = "detached" /\ cpc'[c] \in {"ready", "join_load"}
        /\ (cpc'[c] = "join_load" => hb'[c] \in HbSlots)
    BY SyncTypes DEF RegisterHeartbeat
  <2>2. rpc[c] = "idle"
    BY <2>1 DEF PlacesInv, HandleInv, ConsumerPhase
  <2>3. QED BY <1>2, <1>3, <2>1, <2>2 DEF SyncHandle, Busy, Holds
<1>10. QED BY <1>4, <1>6, <1>8, <1>9

\* A position that moves up to the front.
LEMMA SyncMoveUp ==
    ASSUME PlacesInv, LagInv, PositionsKept, \A d \in Consumers : SyncHandle(d),
           NEW c \in Consumers, ConsumerActs(c), hb[c] \in HbSlots, Taken(hb[c]),
           NEW q \in Nat, position[hb[c]] <= q, q <= Front,
           position' = [position EXCEPT ![hb[c]] = q], UNCHANGED <<read_index, consumer_pid>>
    PROVE  LagInv' /\ PositionsKept' /\ \A d \in Consumers \ {c} : SyncHandle(d)'
<1>1. UNCHANGED <<write_index, ppc, slot_state, buffer>> /\ Front' = Front
  BY ConsumerSparesProducer DEF Front, Pending
<1>2. LagInv'
  BY <1>1 DEF LagInv
<1>3. \A i \in HbSlots : position'[i] = IF i = hb[c] THEN q ELSE position[i]
  BY SyncTypes
<1>4. ASSUME NEW i \in HbSlots
      PROVE  /\ position'[i] <= Front
             /\ Taken(i) => read_index <= position'[i] /\ Kept(position[i])'
  <2>1. position[i] <= Front /\ (Taken(i) => read_index <= position[i] /\ Kept(position[i]))
    BY DEF PositionsKept
  <2>2. PICK p \in Nat : p = position'[i]
    BY <1>3, SyncTypes
  <2>3. Taken(i) => Kept(p) /\ read_index <= p
    BY SMT, <1>3, <2>1, <2>2, SyncTypes, KeptUp
  <2>4. Taken(i) => Kept(p)'
    BY <2>3, KeptByConsumer
  <2>5. Taken(i) => Kept(position[i])'
    BY <2>2, <2>4 DEF Kept
  <2>6. p <= Front
    BY <1>3, <2>1, <2>2
  <2>7. QED BY <2>2, <2>3, <2>5, <2>6
<1>5. PositionsKept'
  BY <1>1, <1>4 DEF PositionsKept, Taken
<1>6. \A i \in HbSlots : position'[i] \in Nat /\ position'[i] >= position[i]
  BY SMT, <1>3, SyncTypes
<1>7. \A d \in Consumers \ {c} : SyncHandle(d)'
  BY <1>6, SyncOtherHandle DEF Taken
<1>8. QED BY <1>2, <1>5, <1>7

\* Joining: the position moves from 0 to the commit_index that was read.
LEMMA SyncJoin ==
    ASSUME PlacesInv, LagInv, PositionsKept, \A d \in Consumers : SyncHandle(d),
           NEW c \in Consumers, ConsumerActs(c), JoinLoad(c) \/ JoinStore(c)
    PROVE  LagInv' /\ PositionsKept' /\ \A d \in Consumers : SyncHandle(d)'
<1>0. ConsumerPhase(c) /\ SyncHandle(c)
  BY DEF PlacesInv, HandleInv
<1>1. Front' = Front
  BY ConsumerSparesProducer DEF Front, Pending
<1>2. cpc[c] \in {"join_load", "join_store"} /\ rpc[c] = "idle" /\ rpc' = rpc /\ hb' = hb
      /\ hb[c] \in HbSlots /\ Taken(hb[c])
  <2>1. cpc[c] \in {"join_load", "join_store"} /\ rpc' = rpc /\ hb' = hb
    BY DEF JoinLoad, JoinStore, slotRWVars, readerVars
  <2>2. rpc[c] = "idle" /\ hb[c] # NoHb /\ consumer_pid[hb[c]] = c
    BY <1>0, <2>1 DEF ConsumerPhase, Live
  <2>3. hb[c] \in HbSlots /\ c # NoPid
    BY <2>2, SyncTypes, DataBlockAssumption DEF Consumers
  <2>4. QED BY <2>1, <2>2, <2>3 DEF Taken
<1>3. CASE JoinLoad(c)
  <2>1. UNCHANGED <<read_index, position, consumer_pid>> /\ cpc'[c] = "join_store"
        /\ position[hb[c]] = 0 /\ slot_id'[c] <= Front
    BY SMT, <1>0, <1>3, SyncTypes DEF JoinLoad, SyncHandle, indexVars, tableVars
  <2>2. LagInv' /\ PositionsKept'
    BY <2>1, SyncFrame DEF Taken
  <2>3. \A d \in Consumers \ {c} : SyncHandle(d)'
    BY SMT, <2>1, SyncTypes, SyncOtherHandle DEF Taken
  <2>4. SyncHandle(c)'
    BY <1>1, <1>2, <2>1 DEF SyncHandle, Busy, Holds
  <2>5. QED BY <2>2, <2>3, <2>4
<1>4. CASE JoinStore(c)
  <2>1. /\ UNCHANGED <<read_index, consumer_pid>> /\ cpc'[c] = "ready" /\ cpc[c] = "join_store"
        /\ position' = [position EXCEPT ![hb[c]] = slot_id[c]]
    BY <1>4, SyncTypes DEF JoinStore, indexVars
  <2>2. position[hb[c]] = 0 /\ slot_id[c] <= Front /\ slot_id[c] \in Nat
    BY <1>0, <2>1, SyncTypes DEF SyncHandle
  <2>3. PICK q \in Nat : q = slot_id[c]
    BY <2>2
  <2>4. LagInv' /\ PositionsKept' /\ \A d \in Consumers \ {c} : SyncHandle(d)'
    <3>1. position[hb[c]] <= q /\ q <= Front /\ position' = [position EXCEPT ![hb[c]] = q]
      BY SMT, <2>1, <2>2, <2>3
    <3>2. QED BY <1>2, <2>1, <3>1, SyncMoveUp
  <2>5. SyncHandle(c)'
    BY <1>1, <1>2, <2>1 DEF SyncHandle, Busy, Holds
  <2>6. QED BY <2>4, <2>5
<1>5. QED BY <1>3, <1>4

\* release_consume_handle: the own position, then the minimum over the table.
LEMMA SyncAdvance ==
    ASSUME PlacesInv, SyncBlock, LagInv, PositionsKept, \A d \in Consumers : SyncHandle(d),
           NEW c \in Consumers, ConsumerActs(c), AdvancePosition(c)
    PROVE  LagInv' /\ PositionsKept' /\ \A d \in Consumers : SyncHandle(d)'
<1>0. ConsumerPhase(c) /\ HandleNamesNext(c) /\ SyncHandle(c)
  BY DEF PlacesInv, HandleInv
<1>1. Front' = Front
  BY ConsumerSparesProducer DEF Front, Pending
<1>2. /\ cpc[c] = "advance" /\ cpc'[c] = "scan" /\ rpc' = rpc /\ hb' = hb
      /\ position' = [position EXCEPT ![hb[c]] = slot_id[c] + 1]
      /\ scan'[c] = 0 /\ min_pos'[c] = slot_id[c] + 1
      /\ UNCHANGED <<read_index, consumer_pid>>
  BY SyncTypes DEF AdvancePosition, SyncBlock, slotRWVars, readerVars
<1>3. rpc[c] = "idle" /\ hb[c] # NoHb /\ consumer_pid[hb[c]] = c /\ slot_id[c] = position[hb[c]]
  BY <1>0, <1>2 DEF ConsumerPhase, HandleNamesNext, HasHandle, Live, SyncBlock
<1>4. hb[c] \in HbSlots /\ Taken(hb[c]) /\ slot_id[c] < Front /\ slot_id[c] \in Nat
  BY <1>0, <1>2, <1>3, SyncTypes, DataBlockAssumption DEF Taken, Consumers, SyncHandle, Holds
<1>5. PICK q \in Nat : q = slot_id[c] + 1
  BY SMT, <1>4
<1>6. q <= Front /\ position[hb[c]] <= q
  BY SMT, <1>3, <1>4, <1>5, SyncTypes
<1>7. LagInv' /\ PositionsKept' /\ \A d \in Consumers \ {c} : SyncHandle(d)'
  BY <1>2, <1>4, <1>5, <1>6, SyncMoveUp
<1>8. position'[hb[c]] = slot_id[c] + 1
  BY <1>2, <1>4, SyncTypes
<1>9. \A i \in HbSlots : ~(i < 0)
  BY SMT DEF HbSlots
<1>10. SyncHandle(c)'
  BY SMT, <1>2, <1>3, <1>4, <1>8, <1>9, SyncTypes DEF SyncHandle, Busy, Holds
<1>11. QED BY <1>7, <1>10

\* One table entry of the minimum.
LEMMA SyncScan ==
    ASSUME PlacesInv, SyncBlock, LagInv, PositionsKept, \A d \in Consumers : SyncHandle(d),
           NEW c \in Consumers, ConsumerActs(c), ScanPosition(c)
    PROVE  LagInv' /\ PositionsKept' /\ \A d \in Consumers : SyncHandle(d)'
<1>0. ConsumerPhase(c) /\ SyncHandle(c)
  BY DEF PlacesInv, HandleInv
<1>1. /\ UNCHANGED <<read_index, position, consumer_pid, cpc, rpc, hb, slot_id>>
      /\ cpc[c] = "scan" /\ scan[c] \in HbSlots /\ scan'[c] = scan[c] + 1
      /\ min_pos'[c] = IF Taken(scan[c]) /\ position[scan[c]] < min_pos[c]
                         THEN position[scan[c]] ELSE min_pos[c]
  BY SyncTypes DEF ScanPosition, Taken, indexVars, tableVars, slotRWVars, readerVars
<1>2. LagInv' /\ PositionsKept'
  BY <1>1, SyncFrame DEF Taken
<1>3. \A d \in Consumers \ {c} : SyncHandle(d)'
  BY SMT, <1>1, SyncTypes, SyncOtherHandle DEF Taken
<1>4. rpc[c] = "idle" /\ hb[c] \in HbSlots
  BY <1>0, <1>1, SyncTypes DEF ConsumerPhase
<1>5. /\ min_pos[c] <= position[hb[c]] /\ position[hb[c]] <= min_pos[c] + Cap
      /\ \A i \in HbSlots : Taken(i) /\ i < scan[c] => min_pos[c] <= position[i]
  BY <1>0, <1>1 DEF SyncHandle
<1>6. position[hb[c]] <= Front /\ (Taken(scan[c]) => write_index - position[scan[c]] <= Cap)
  BY <1>1, <1>4 DEF PositionsKept, Kept
<1>7. /\ min_pos[c] \in Nat /\ position[hb[c]] \in Nat /\ position[scan[c]] \in Nat
      /\ Front \in Nat /\ write_index \in Nat /\ Cap \in Nat /\ Front <= write_index
      /\ scan[c] \in Nat
  BY <1>1, <1>4, SyncTypes
<1>8. /\ min_pos'[c] \in Nat /\ min_pos'[c] <= min_pos[c]
      /\ position[hb[c]] <= min_pos'[c] + Cap
      /\ Taken(scan[c]) => min_pos'[c] <= position[scan[c]]
  <2>1. CASE Taken(scan[c]) /\ position[scan[c]] < min_pos[c]
    <3>1. min_pos'[c] = position[scan[c]]
      BY <1>1, <2>1
    <3>2. QED BY SMT, <1>6, <1>7, <2>1, <3>1
  <2>2. CASE ~(Taken(scan[c]) /\ position[scan[c]] < min_pos[c])
    <3>1. min_pos'[c] = min_pos[c]
      BY <1>1, <2>2
    <3>2. QED BY SMT, <1>5, <1>7, <2>2, <3>1
  <2>3. QED BY <2>1, <2>2
<1>9. ASSUME NEW i \in HbSlots, Taken(i), i < scan'[c] PROVE min_pos'[c] <= position[i]
  <2>1. i \in Int /\ position[i] \in Nat
    BY SMT, SyncTypes DEF HbSlots
  <2>2. CASE i = scan[c]
    BY <1>8, <1>9, <2>2
  <2>3. CASE i # scan[c]
    <3>1. i < scan[c]
      BY SMT, <1>1, <1>7, <1>9, <2>1, <2>3
    <3>2. min_pos[c] <= position[i]
      BY <1>5, <1>9, <3>1
    <3>3. QED BY SMT, <1>7, <1>8, <2>1, <3>2
  <2>4. QED BY <2>2, <2>3
<1>10. min_pos'[c] <= position[hb[c]]
  BY SMT, <1>5, <1>7, <1>8
<1>11. SyncHandle(c)'
  BY <1>1, <1>4, <1>8, <1>9, <1>10 DEF SyncHandle, Busy, Holds, Taken
<1>12. QED BY <1>2, <1>3, <1>11

\* The minimum is stored, although positions may have moved since it was computed.
LEMMA SyncStoreMinimum ==
    ASSUME PlacesInv, SyncBlock, LagInv, PositionsKept, \A d \in Consumers : SyncHandle(d),
           NEW c \in Consumers, ConsumerActs(c), StoreMinimum(c)
    PROVE  LagInv' /\ PositionsKept' /\ \A d \in Consumers : SyncHandle(d)'
<1>0. ConsumerPhase(c) /\ SyncHandle(c)
  BY DEF PlacesInv, HandleInv
<1>1. /\ UNCHANGED <<position, consumer_pid, rpc, hb, slot_id>>
      /\ cpc[c] = "scan" /\ cpc'[c] = "ready" /\ scan[c] \notin HbSlots
      /\ read_index' = min_pos[c]
  BY SyncTypes DEF StoreMinimum, tableVars, slotRWVars, readerVars
<1>2. UNCHANGED <<write_index, ppc>> /\ Front' = Front
  BY ConsumerSparesProducer DEF Front, Pending
<1>3. rpc[c] = "idle" /\ hb[c] \in HbSlots /\ Taken(hb[c])
  BY <1>0, <1>1, SyncTypes, DataBlockAssumption DEF ConsumerPhase, Live, Taken, Consumers
<1>4. /\ min_pos[c] <= position[hb[c]] /\ position[hb[c]] <= min_pos[c] + Cap
      /\ \A i \in HbSlots : Taken(i) /\ i < scan[c] => min_pos[c] <= position[i]
  BY <1>0, <1>1 DEF SyncHandle
<1>5. position[hb[c]] <= Front /\ Kept(position[hb[c]])
  BY <1>3 DEF PositionsKept
<1>6. LagInv'
  <2>1. /\ min_pos[c] \in Nat /\ position[hb[c]] \in Nat
        /\ Front \in Nat /\ write_index \in Nat /\ Cap \in Nat
    BY <1>3, SyncTypes
  <2>2. QED BY SMT, <1>1, <1>2, <1>4, <1>5, <2>1 DEF LagInv, Kept
<1>7. \A i \in HbSlots : Taken(i) => min_pos[c] <= position[i]
  <2>1. scan[c] \in Nat /\ HbCount \in Nat
    BY SyncTypes, DataBlockAssumption
  <2>2. \A i \in HbSlots : i < scan[c]
    BY SMT, <1>1, <2>1 DEF HbSlots
  <2>3. QED BY <1>4, <2>2
<1>8. ASSUME NEW i \in HbSlots, Taken(i) PROVE Kept(position[i])'
  <2>1. PICK p \in Nat : p = position[i]
    BY SyncTypes
  <2>2. Kept(p)'
    BY <1>8, <2>1, KeptByConsumer DEF PositionsKept
  <2>3. QED BY <1>1, <2>1, <2>2 DEF Kept
<1>9. PositionsKept'
  BY <1>1, <1>2, <1>7, <1>8 DEF PositionsKept, Taken
<1>10. \A d \in Consumers \ {c} : SyncHandle(d)'
  BY SMT, <1>1, SyncTypes, SyncOtherHandle DEF Taken
<1>11. SyncHandle(c)'
  BY <1>1, <1>3 DEF SyncHandle, Busy, Holds
<1>12. QED BY <1>6, <1>9, <1>10, <1>11

\* A handle that is held names a slot_id below the front.
LEMMA SyncRead ==
    ASSUME PlacesInv, WindowInv, NoDeadProducer, SyncBlock, LagInv, PositionsKept,
           \A d \in Consumers : SyncHandle(d), NEW c \in Consumers, ConsumerActs(c),
           UNCHANGED <<read_index, position, hb>>,
           \A i \in HbSlots : Taken(i)' => Taken(i),
           cpc'[c] \in {"ready", "advance", "dead"}
    PROVE  LagInv' /\ PositionsKept' /\ \A d \in Consumers : SyncHandle(d)'
<1>0. ConsumerPhase(c) /\ HandleNamesNext(c) /\ SyncHandle(c)
  BY DEF PlacesInv, HandleInv
<1>1. Front' = Front
  BY ConsumerSparesProducer DEF Front, Pending
<1>2. LagInv' /\ PositionsKept'
  BY SyncFrame
<1>3. \A d \in Consumers \ {c} : SyncHandle(d)'
  BY SMT, SyncTypes, SyncOtherHandle
<1>4. SyncHandle(c)'
  <2>1. CASE AcquireConsumeSlot(c) /\ rpc'[c] = "check1" /\ cpc'[c] = "ready"
    <3>1. hb[c] # NoHb /\ slot_id'[c] = position[hb[c]]
          /\ (commit_index = NoSlot \/ ~(commit_index < position[hb[c]]))
      BY <2>1, SyncTypes DEF AcquireConsumeSlot, NextSlotToRead, SyncBlock
    <3>2. hb[c] \in HbSlots /\ position[hb[c]] \in Nat /\ position[hb[c]] <= Front
      BY <3>1, SyncTypes DEF PositionsKept
    <3>3. commit_index = NoSlot => Front <= 1
      BY SMT, SyncTypes DEF WindowInv, NoSlot
    <3>4. slot_id'[c] < Front \/ slot_id'[c] <= 1
      BY SMT, <3>1, <3>2, <3>3, SyncTypes
    <3>5. QED BY <1>1, <2>1, <3>4 DEF SyncHandle, Holds
  <2>2. CASE ~(AcquireConsumeSlot(c) /\ rpc'[c] = "check1" /\ cpc'[c] = "ready")
    <3>1. /\ HasHandle(c)' => HasHandle(c) /\ slot_id'[c] = slot_id[c]
          /\ Busy(c)' => Busy(c) /\ rslot'[c] = rslot[c] /\ slot_id'[c] = slot_id[c]
          /\ rpc'[c] = "capture" /\ rpc[c] # "capture" =>
                rpc[c] = "check2" /\ slot_state[rslot[c]] = "COMMITTED"
          /\ rpc'[c] = "reading" => rpc[c] \in {"capture", "reading"}
          /\ rpc'[c] = "releasing" => rpc[c] \in {"reading", "releasing"}
          /\ cpc'[c] = "advance" => rpc[c] = "releasing" \/ cpc[c] = "advance"
      BY <1>0, <2>2, SyncTypes, HandleMoves
    <3>2. Busy(c)' => slot_id'[c] < Front \/ slot_id'[c] <= 1
      BY <1>0, <3>1 DEF SyncHandle
    <3>3. ASSUME rpc[c] = "check2", slot_state[rslot[c]] = "COMMITTED"
          PROVE  slot_id[c] < Front
      <4>1. Busy(c) /\ HasHandle(c)
        BY <3>3 DEF Busy, HasHandle
      <4>2. /\ rslot[c] = slot_id[c] % Cap /\ hb[c] \in HbSlots
            /\ slot_id[c] = position[hb[c]] /\ slot_id[c] \in Nat
        BY <1>0, <4>1, SyncTypes DEF HandleNamesNext, SyncBlock
      <4>3. slot_id[c] <= Front /\ (slot_id[c] < Front \/ slot_id[c] <= 1)
        BY <1>0, <4>1, <4>2 DEF SyncHandle, PositionsKept
      <4>4. SUFFICES ASSUME slot_id[c] = Front, Front <= 1 PROVE FALSE
        BY SMT, <4>2, <4>3, SyncTypes
      <4>5. rslot[c] \in Slots
        BY SyncTypes DEF SlotTypeOK, Consumers
      <4>6. buffer[rslot[c]] \in Nat /\ buffer[rslot[c]] % Cap = rslot[c] /\ buffer[rslot[c]] < Front
        BY <3>3, <4>5 DEF PlacesInv, ClaimInv, RingContents
      <4>7. buffer[rslot[c]] = 0 /\ Front = 1
        BY SMT, <4>4, <4>6, SyncTypes
      <4>8. 0 % Cap = 1 % Cap
        BY <4>2, <4>4, <4>6, <4>7
      <4>9. 0 % Cap # 1 % Cap
        BY SMT, SlotsApart, SyncTypes DEF SyncBlock
      <4>10. QED BY <4>8, <4>9
    <3>4. Holds(c)' => slot_id'[c] < Front
      BY <1>0, <3>1, <3>3 DEF SyncHandle, Holds, HasHandle, Busy
    <3>5. QED BY <1>1, <3>2, <3>4 DEF SyncHandle
  <2>3. QED BY <2>1, <2>2
<1>5. QED BY <1>2, <1>3, <1>4

\* Every step of a consumer keeps the Sequential_sync invariant.
LEMMA SyncConsumerStep ==
    ASSUME PlacesInv, WindowInv, NoDeadProducer, SyncInv, NEW c \in Consumers, ConsumerActs(c)
    PROVE  SyncInv'
<1>1. policy' = policy
  BY ConsumerSparesProducer
<1> SUFFICES ASSUME SyncBlock
             PROVE  LagInv' /\ PositionsKept' /\ \A d \in Consumers : SyncHandle(d)'
  BY <1>1 DEF SyncInv, SyncBlock
<1>2. LagInv /\ PositionsKept /\ \A d \in Consumers : SyncHandle(d)
  BY DEF SyncInv
<1>3. CASE RegisterHeartbeat(c) \/ JoinLoad(c) \/ JoinStore(c) \/ AdvancePosition(c)
           \/ ScanPosition(c) \/ StoreMinimum(c)
  BY <1>2, <1>3, SyncRegister, SyncJoin, SyncAdvance, SyncScan, SyncStoreMinimum
<1>4. CASE Detach(c)
  <2>1. /\ UNCHANGED <<read_index, position, rpc>> /\ rpc[c] = "idle" /\ cpc'[c] = "detached"
        /\ \A i \in HbSlots : Taken(i)' => Taken(i)
    BY <1>4, SyncTypes DEF Detach, indexVars, slotRWVars, readerVars, Taken
  <2>2. LagInv' /\ PositionsKept'
    BY <1>2, <2>1, SyncFrame
  <2>3. \A d \in Consumers \ {c} : SyncHandle(d)'
    BY SMT, <1>2, <2>1, SyncTypes, SyncOtherHandle
  <2>4. SyncHandle(c)'
    BY <2>1 DEF SyncHandle, Busy, Holds
  <2>5. QED BY <2>2, <2>3, <2>4
<1>5. CASE AcquireConsumeSlot(c) \/ AcquireReadStep(c) \/ ValidateHandle(c)
           \/ ReleaseHandle(c) \/ CrashConsumer(c)
  <2>0. ConsumerPhase(c)
    BY DEF PlacesInv, HandleInv
  <2>1. UNCHANGED <<read_index, position, hb, consumer_pid>>
    BY <1>5 DEF AcquireConsumeSlot, AcquireReadStep, ValidateHandle, ReleaseHandle,
       CrashConsumer, dbVars, indexVars, tableVars, consumerVars
  <2>2. cpc'[c] \in {"ready", "advance", "dead"}
    <3>1. CASE AcquireConsumeSlot(c) \/ CrashConsumer(c) \/ ReleaseHandle(c)
      BY <3>1, SyncTypes DEF AcquireConsumeSlot, CrashConsumer, ReleaseHandle
    <3>2. CASE AcquireReadStep(c) \/ ValidateHandle(c)
      <4>1. cpc'[c] = cpc[c]
        BY <3>2 DEF AcquireReadStep, ValidateHandle, dbVars, consumerVars
      <4>2. rpc[c] \notin {"idle", "dead", "dead_registered"}
        BY <3>2 DEF AcquireReadStep, ValidateHandle, CheckCommitted, RegisterReader,
           RecheckCommitted, UnregisterReader, CaptureGeneration, EndRead
      <4>3. QED BY <2>0, <4>1, <4>2, SyncTypes DEF ConsumerPhase
    <3>3. QED BY <1>5, <3>1, <3>2
  <2>3. QED BY <1>2, <2>1, <2>2, SyncRead DEF Taken
<1>6. QED BY <1>3, <1>4, <1>5 DEF ConsumerActs, ConsumerStep

-----------------------------------------------------------------------------
(* All policies                                                            *)

\* The blocks whose consumers read in order: no producer died and, under
\* Sequential_sync, consumers attach before the first claim and the ring has at
\* least two slots.
InOrder == NoDeadProducer /\ (policy = "Sequential_sync" => ~LateJoin /\ Cap >= 2)

\* The words a policy does not use stay 0.
UnusedWords ==
    /\ policy = "Latest_only" => read_index = 0
    /\ policy # "Sequential_sync" => \A i \in HbSlots : position[i] = 0

HandleBound == \A c \in Consumers : slot_id[c] <= MaxSlotId + 1

OrderInv == UnusedWords /\ (InOrder => SequentialInv /\ SyncInv /\ HandleBound)

\* No step touches the words the policy does not use.
LEMMA UnusedStep ==
    ASSUME PlacesInv, UnusedWords, [Next]_vars
    PROVE  UnusedWords'
<1>1. ASSUME NEW w \in Writers, ProducerActs(w) PROVE UnusedWords'
  BY <1>1, ProducerSparesConsumers DEF UnusedWords
<1>2. ASSUME NEW c \in Consumers, ConsumerActs(c) PROVE UnusedWords'
  <2>0. ConsumerPhase(c) /\ policy' = policy
    BY <1>2, ConsumerSparesProducer DEF PlacesInv, HandleInv
  <2>1. CASE JoinStore(c) \/ StoreMinimum(c)
    <3>1. policy = "Sequential_sync"
      BY <2>0, <2>1 DEF JoinStore, StoreMinimum, ConsumerPhase
    <3>2. QED BY <2>0, <3>1 DEF UnusedWords
  <2>2. CASE AdvancePosition(c)
    <3>1. Ordered
      BY <2>0, <2>2 DEF AdvancePosition, ConsumerPhase
    <3>2. policy = "Sequential" => position' = position
      BY <2>2 DEF AdvancePosition
    <3>3. QED BY <2>0, <3>1, <3>2 DEF UnusedWords, Ordered
  <2>3. CASE ~JoinStore(c) /\ ~StoreMinimum(c) /\ ~AdvancePosition(c)
    <3>1. UNCHANGED <<read_index, position>>
      BY <1>2, <2>3 DEF ConsumerActs, ConsumerStep, JoinLoad, AcquireConsumeSlot,
         AcquireReadStep, ValidateHandle, ReleaseHandle, ScanPosition,
         RegisterHeartbeat, Detach, CrashConsumer, dbVars, indexVars, tableVars
    <3>2. QED BY <2>0, <3>1 DEF UnusedWords
  <2>4. QED BY <2>1, <2>2, <2>3
<1>3. CASE UNCHANGED vars
  BY <1>3 DEF vars, dbVars, indexVars, tableVars, UnusedWords
<1>4. QED BY <1>1, <1>2, <1>3, BlockStepOfOne

\* The words name slot_ids up to the next one to be claimed.
LEMMA WordsBounded ==
    ASSUME PlacesInv, UnusedWords, InOrder, SequentialInv, SyncInv
    PROVE  /\ read_index \in 0 .. MaxSlotId + 1
           /\ \A i \in HbSlots : position[i] \in 0 .. MaxSlotId + 1
<1>1. /\ policy \in {"Latest_only", "Sequential", "Sequential_sync"} /\ MaxSlotId \in Nat
      /\ write_index <= MaxSlotId + 1
  BY SMT, DataBlockAssumption DEF PlacesInv, BlockInv, IndexTypes
<1>2. CASE policy = "Latest_only"
  BY SMT, <1>1, <1>2 DEF UnusedWords
<1>3. CASE policy = "Sequential"
  BY SMT, <1>1, <1>3, SyncTypes DEF UnusedWords, SequentialInv, Kept
<1>4. CASE policy = "Sequential_sync"
  <2>1. read_index <= Front /\ \A i \in HbSlots : position[i] <= Front
    BY <1>4 DEF InOrder, SyncInv, SyncBlock, LagInv, PositionsKept
  <2>2. QED BY SMT, <1>1, <2>1, SyncTypes
<1>5. QED BY <1>1, <1>2, <1>3, <1>4

\* A handle names a slot_id of the ring.
LEMMA HandleBoundStep ==
    ASSUME PlacesInv, OrderInv, InOrder, NEW c \in Consumers, ConsumerActs(c)
    PROVE  HandleBound'
<1>1. SequentialInv /\ SyncInv /\ HandleBound /\ UnusedWords
  BY DEF OrderInv
<1>2. \A d \in Consumers \ {c} : slot_id'[d] = slot_id[d]
  BY SyncTypes, ConsumerSparesOthers
<1>3. slot_id'[c] <= MaxSlotId + 1
  <2>0. /\ MaxSlotId \in Nat /\ policy \in {"Latest_only", "Sequential", "Sequential_sync"}
        /\ commit_index = NoSlot \/ commit_index <= MaxSlotId
    <3>1. SlotTypeOK /\ IndexTypes
      BY SyncTypes
    <3>2. commit_index \in Ids \cup {NoSlot} /\ Ids = 0 .. MaxSlotId /\ MaxSlotId \in Nat
      BY <3>1, DataBlockAssumption DEF SlotTypeOK
    <3>3. commit_index = NoSlot \/ commit_index <= MaxSlotId
      BY SMT, <3>2
    <3>4. QED BY <3>1, <3>2, <3>3, DataBlockAssumption DEF IndexTypes
  <2>1. CASE JoinLoad(c)
    <3>1. slot_id'[c] = IF commit_index = NoSlot THEN 0 ELSE commit_index
      BY <2>1, SyncTypes DEF JoinLoad
    <3>2. commit_index \in Int
      BY SyncTypes
    <3>3. QED BY SMT, <2>0, <3>1, <3>2
  <2>2. CASE AcquireConsumeSlot(c)
    <3>1. slot_id'[c] = NextSlotToRead(c) /\ NextSlotToRead(c) # NoSlot
      BY <2>2, SyncTypes DEF AcquireConsumeSlot
    <3>2. policy = "Latest_only" => NextSlotToRead(c) = commit_index
      BY <3>1 DEF NextSlotToRead
    <3>3. policy = "Sequential" => NextSlotToRead(c) = read_index
      BY <3>1 DEF NextSlotToRead
    <3>4. policy = "Sequential_sync" => hb[c] \in HbSlots /\ NextSlotToRead(c) = position[hb[c]]
      BY <3>1, SyncTypes DEF NextSlotToRead
    <3>5. /\ read_index <= MaxSlotId + 1
          /\ \A i \in HbSlots : position[i] <= MaxSlotId + 1
      BY SMT, <1>1, <2>0, WordsBounded
    <3>6. commit_index # NoSlot => commit_index <= MaxSlotId + 1
      BY SMT, <2>0, SyncTypes
    <3>7. QED BY <2>0, <3>1, <3>2, <3>3, <3>4, <3>5, <3>6
  <2>3. CASE ~JoinLoad(c) /\ ~AcquireConsumeSlot(c)
    <3>1. slot_id' = slot_id
      BY <2>3 DEF ConsumerActs, ConsumerStep, JoinStore, AdvancePosition, StoreMinimum,
         AcquireReadStep, ValidateHandle, ReleaseHandle, ScanPosition,
         RegisterHeartbeat, Detach, CrashConsumer, dbVars, consumerVars
    <3>2. QED BY <1>1, <3>1 DEF HandleBound
  <2>4. QED BY <2>1, <2>2, <2>3
<1>4. QED BY <1>1, <1>2, <1>3 DEF HandleBound

\* Every step keeps the invariant of the ordered policies.
LEMMA OrderStep ==
    ASSUME PlacesInv, WindowInv, OrderInv, [Next]_vars
    PROVE  OrderInv'
<1>1. UnusedWords'
  BY UnusedStep DEF OrderInv
<1> SUFFICES ASSUME InOrder' PROVE SequentialInv' /\ SyncInv' /\ HandleBound'
  BY <1>1 DEF OrderInv
<1>2. NoDeadProducer
  BY SyncTypes, BlockStepIsSlotStep, DeadStay DEF PlacesInv, InOrder
<1>3. ASSUME policy' = policy PROVE InOrder /\ SequentialInv /\ SyncInv /\ HandleBound
  BY <1>2, <1>3 DEF InOrder, OrderInv
<1>4. ASSUME NEW w \in Writers, ProducerActs(w) PROVE SequentialInv' /\ SyncInv' /\ HandleBound'
  <2>1. policy' = policy /\ slot_id' = slot_id
    BY <1>4, ProducerSparesConsumers DEF consumerVars
  <2>2. QED BY <1>3, <1>4, <2>1, SequentialProducerStep, SyncProducerStep DEF InOrder, HandleBound
<1>5. ASSUME NEW c \in Consumers, ConsumerActs(c) PROVE SequentialInv' /\ SyncInv' /\ HandleBound'
  <2>1. policy' = policy
    BY <1>5, ConsumerSparesProducer
  <2>2. QED
    BY <1>2, <1>3, <1>5, <2>1, SequentialConsumerStep, SyncConsumerStep, HandleBoundStep
<1>6. CASE UNCHANGED vars
  <2>1. policy' = policy
    BY <1>6 DEF vars, dbVars
  <2>2. Front' = Front /\ UNCHANGED <<slot_state, buffer, write_index, ppc>>
    BY <1>6 DEF vars, dbVars, slotRWVars, slotVars, writerVars, indexVars, producerVars,
       Front, Pending
  <2>3. UNCHANGED <<read_index, position, consumer_pid, cpc, hb, slot_id, scan, min_pos, rpc>>
    BY <1>6 DEF vars, dbVars, slotRWVars, readerVars, indexVars, tableVars, consumerVars
  <2>4. SequentialInv' /\ HandleBound'
    BY <1>3, <2>1, <2>2, <2>3 DEF SequentialInv, HandleBound, Kept, Stored, HasHandle, Busy
  <2>5. SyncInv'
    BY <1>3, <2>1, <2>2, <2>3 DEF SyncInv, SyncBlock, LagInv, PositionsKept, SyncHandle,
       Kept, Stored, Busy, Holds, Taken
  <2>6. QED BY <2>4, <2>5
<1>7. QED BY <1>4, <1>5, <1>6, BlockStepOfOne

\* A fresh block satisfies it.
LEMMA OrderInit ==
    ASSUME Init
    PROVE  OrderInv
<1>1. /\ write_index = 0 /\ read_index = 0 /\ producer \in Writers /\ ppc = "idle"
      /\ wpc[producer] = "idle" /\ MaxSlotId \in Nat /\ Cap \in Nat
      /\ \A i \in HbSlots : position[i] = 0 /\ consumer_pid[i] = NoPid
      /\ \A c \in Consumers : rpc[c] = "idle" /\ cpc[c] = "detached" /\ slot_id[c] = 0
  BY DataBlockAssumption DEF Init, SlotInit, Consumers
<1>2. Front = 0
  BY <1>1 DEF Front, Pending, Claimed
<1>3. Kept(0)
  BY SMT, <1>1, <1>2 DEF Kept
<1>4. SequentialInv
  BY <1>1, <1>3 DEF SequentialInv, HasHandle, Busy
<1>5. LagInv /\ PositionsKept
  BY SMT, <1>1, <1>2 DEF LagInv, PositionsKept, Taken
<1>6. \A c \in Consumers : SyncHandle(c)
  BY <1>1 DEF SyncHandle, Busy, Holds
<1>7. UnusedWords /\ HandleBound
  BY SMT, <1>1 DEF UnusedWords, HandleBound
<1>8. QED BY <1>4, <1>5, <1>6, <1>7 DEF OrderInv, SyncInv

\* An ordered reader is at a kept position.
LEMMA ReaderIsKept ==
    ASSUME PlacesInv, OrderInv, InOrder, Ordered, NEW c \in Consumers,
           rpc[c] \in {"capture", "reading"}
    PROVE  Kept(slot_id[c]) /\ slot_id[c] < Front /\ rslot[c] = slot_id[c] % Cap
<1>0. ConsumerPhase(c) /\ HandleNamesNext(c) /\ SequentialInv /\ SyncInv
  BY DEF PlacesInv, HandleInv, OrderInv
<1>1. Busy(c) /\ HasHandle(c) /\ Holds(c) /\ cpc[c] # "dead" /\ cpc[c] # "detached"
  BY <1>0 DEF Busy, HasHandle, Holds, ConsumerPhase
<1>2. rslot[c] = slot_id[c] % Cap
  BY <1>0, <1>1 DEF HandleNamesNext
<1>3. CASE policy = "Sequential"
  BY <1>0, <1>1, <1>2, <1>3 DEF HandleNamesNext, SequentialInv
<1>4. CASE policy = "Sequential_sync"
  <2>1. hb[c] # NoHb /\ slot_id[c] = position[hb[c]] /\ consumer_pid[hb[c]] = c
    BY <1>0, <1>1, <1>4 DEF HandleNamesNext, ConsumerPhase, Live
  <2>2. hb[c] \in HbSlots /\ Taken(hb[c])
    BY <2>1, SyncTypes, DataBlockAssumption DEF Taken, Consumers
  <2>3. PositionsKept /\ SyncHandle(c)
    BY <1>0, <1>4 DEF SyncInv, SyncBlock, InOrder
  <2>4. QED BY <1>1, <1>2, <2>1, <2>2, <2>3 DEF PositionsKept, SyncHandle
<1>5. QED BY <1>3, <1>4 DEF Ordered

\* The invariants give the property the runs check.
LEMMA OrderedReadsFollow ==
    ASSUME PlacesInv, OrderInv, InOrder
    PROVE  OrderedReads
<1>0. SequentialInv /\ SyncInv /\ HandleBound /\ UnusedWords
  BY DEF OrderInv
<1>1. TypeOK
  <2>1. SlotTypeOK /\ IndexTypes /\ HandleTypes /\ ProducerPhase
    BY SyncTypes DEF PlacesInv, BlockInv
  <2>2. read_index \in 0 .. MaxSlotId + 1
    BY <1>0, WordsBounded
  <2>3. position \in [HbSlots -> 0 .. MaxSlotId + 1]
    BY <1>0, SyncTypes, WordsBounded
  <2>4. slot_id \in [Consumers -> 0 .. MaxSlotId + 1]
    <3>1. MaxSlotId \in Nat
      BY DataBlockAssumption
    <3>2. \A c \in Consumers : slot_id[c] \in 0 .. MaxSlotId + 1
      BY SMT, <1>0, <3>1, SyncTypes DEF HandleBound
    <3>3. QED BY <3>2, SyncTypes
  <2>5. QED BY <2>1, <2>2, <2>3, <2>4 DEF TypeOK, IndexTypes, HandleTypes, ProducerPhase
<1>2. OrderedReadsOwnSlot
  <2> SUFFICES ASSUME NEW c \in Consumers, Ordered, rpc[c] = "reading"
               PROVE  seen[c] = slot_id[c]
    BY DEF OrderedReadsOwnSlot
  <2>1. Kept(slot_id[c]) /\ slot_id[c] < Front /\ rslot[c] = slot_id[c] % Cap
    BY ReaderIsKept
  <2>2. Stored(slot_id[c])
    <3>1. slot_id[c] \in Nat
      BY SyncTypes
    <3>2. QED BY SMT, <2>1, <3>1 DEF Kept
  <2>3. buffer[rslot[c]] = seen[c]
    BY DEF PlacesInv, SlotInv, ReadsAreStable, Consumers
  <2>4. QED BY <2>1, <2>2, <2>3 DEF Stored
<1>3. RingBound
  <2>1. policy = "Sequential" => write_index - read_index \in 0 .. Cap
    BY SMT, <1>0, SyncTypes DEF SequentialInv, Kept
  <2>2. ASSUME policy = "Sequential_sync", NEW c \in Consumers,
               cpc[c] \notin {"detached", "dead"}, hb[c] # NoHb
        PROVE  /\ write_index - position[hb[c]] \in 0 .. Cap
               /\ read_index <= position[hb[c]]
    <3>1. consumer_pid[hb[c]] = c
      BY <2>2 DEF PlacesInv, HandleInv, ConsumerPhase, Live
    <3>2. hb[c] \in HbSlots /\ Taken(hb[c]) /\ position[hb[c]] \in Nat
      BY <2>2, <3>1, SyncTypes, DataBlockAssumption DEF Taken, Consumers
    <3>3. read_index <= position[hb[c]] /\ Kept(position[hb[c]])
      BY <1>0, <2>2, <3>2 DEF SyncInv, SyncBlock, InOrder, PositionsKept
    <3>4. QED BY SMT, <3>2, <3>3, SyncTypes DEF Kept
  <2>3. QED BY <2>1, <2>2 DEF RingBound
<1>4. WriterNeverReachesHeldSlot
  <2> SUFFICES ASSUME NEW w \in Writers, NEW c \in Consumers, Ordered, wpc[w] = "drain",
                      rpc[c] \in {"capture", "reading"}
               PROVE  rslot[c] # wslot[w]
    BY DEF WriterNeverReachesHeldSlot
  <2>1. w = producer /\ wpc[producer] \in Claimed
    BY OnlyProducer DEF PlacesInv, Claimed
  <2>2. Front = write_index - 1 /\ wslot[w] = Front % Cap
    BY <2>1, ClaimIsFront DEF PlacesInv
  <2>3. Kept(slot_id[c]) /\ slot_id[c] < Front /\ rslot[c] = slot_id[c] % Cap
    BY ReaderIsKept
  <2>4. Front - slot_id[c] < Cap /\ slot_id[c] \in Nat
    BY SMT, <2>2, <2>3, SyncTypes DEF Kept
  <2>5. QED BY <2>2, <2>3, <2>4, SlotsApart, SyncTypes
<1>5. QED BY <1>1, <1>2, <1>3, <1>4 DEF OrderedReads
=============================================================================
