--------------------------- MODULE ThreadManager ---------------------------
(***************************************************************************)
(* The thread registry of one owner (thread_manager.cpp): spawning, the    *)
(* per-slot shutdown flag, the active-loop bracket that a thread holds     *)
(* while it touches its owner's state, the quiescence wait of a teardown,  *)
(* and the bounded join of drain() with its master/peer ordering and its   *)
(* detach-on-timeout.                                                      *)
(*                                                                         *)
(* Locks are held only for single table updates, so every locked section   *)
(* is one step.  Time is not counted: a bounded wait may always give up,   *)
(* and the places where the model lets it do so are named ...Expires.      *)
(***************************************************************************)
EXTENDS Naturals, Sequences, Functions

(* The two ends of a non-empty sequence (the library module that defines      *)
(* them would bring many more definitions into every proof about a role).     *)
Last(s) == s[Len(s)]
Front(s) == SubSeq(s, 1, Len(s) - 1)

CONSTANTS Threads,     \* the names of the slots this owner may spawn
          MasterThread \* the slot spawned with is_master

VARIABLES slots,       \* pImpl->slots, in spawn order
          closing,     \* pImpl->closing
          stopAsked,   \* threads whose shutdown_requested flag is set
          inLoop,      \* threads inside with_active_loop (active_loop_depth > 0)
          done,        \* threads whose body has returned
          drainPc,     \* where drain() stands
          toJoin,      \* the slots drain() moved out of the table
          overdue,     \* peers drain() stopped waiting for
          detached,    \* threads detached by the last drain
          pending      \* slots the running wait_for_quiescence waits for

tmVars == <<slots, closing, stopAsked, inLoop, done, drainPc, toJoin, overdue,
            detached, pending>>
drainVars == <<drainPc, toJoin, overdue, detached>>

ManagerInit ==
    /\ slots = <<>> /\ toJoin = <<>>
    /\ closing = FALSE
    /\ stopAsked = {} /\ inLoop = {} /\ done = {}
    /\ overdue = {} /\ detached = {} /\ pending = {}
    /\ drainPc = "idle"

\* spawn() refuses a closing manager and a second master.
CanSpawn(t) ==
    /\ ~closing
    /\ t = MasterThread => t \notin Range(slots)

Spawn(ts) ==
    /\ \A i \in 1..Len(ts) : CanSpawn(ts[i])
    /\ slots' = slots \o ts
    /\ UNCHANGED <<closing, stopAsked, inLoop, done, drainVars, pending>>

\* SlotContext::with_active_loop, on entry.
EnterLoop(t) ==
    /\ inLoop' = inLoop \cup {t}
    /\ UNCHANGED <<slots, closing, stopAsked, done, drainVars, pending>>

\* The bracket closes and the wrapper around every body sets done.
BodyReturns(t) ==
    /\ done' = done \cup {t}
    /\ inLoop' = inLoop \ {t}
    /\ UNCHANGED <<slots, closing, stopAsked, drainVars, pending>>

\* request_shutdown_all(): closes the manager and asks every slot still in the
\* table, the master excepted.
RequestShutdownAll ==
    /\ closing' = TRUE
    /\ stopAsked' = stopAsked \cup (Range(slots) \ {MasterThread})
    /\ UNCHANGED <<slots, inLoop, done, drainVars, pending>>

\* wait_for_quiescence() first notes, under the mutex, the slots of the table
\* that are inside their bracket, the caller excepted; it waits for those only.
QuiescenceSnapshot(self) ==
    /\ pending' = (Range(slots) \cap inLoop) \ {self}
    /\ UNCHANGED <<slots, closing, stopAsked, inLoop, done, drainVars>>

\* The poll of wait_for_quiescence: every snapshotted depth has been seen at 0.
Quiescent == pending \cap inLoop = {}

----------------------------------------------------------------------------
(* drain(), run by the owner's thread.                                     *)

\* Variant: every slot, the master included, is told to stop at once.
DrainBeginSignalsAll ==
    /\ drainPc = "idle"
    /\ closing' = TRUE
    /\ toJoin' = slots
    /\ slots' = <<>>
    /\ drainPc' = "join"
    /\ stopAsked' = stopAsked \cup Range(slots)
    /\ UNCHANGED <<inLoop, done, overdue, detached, pending>>

\* The table is closed and emptied; with a master present the peers are told
\* first, without one nobody is told here and each join polls done.
DrainBegin ==
    /\ drainPc = "idle"
    /\ closing' = TRUE
    /\ toJoin' = slots
    /\ slots' = <<>>
    /\ drainPc' = IF MasterThread \in Range(slots) THEN "peers" ELSE "join"
    /\ stopAsked' = IF MasterThread \in Range(slots)
                    THEN stopAsked \cup (Range(slots) \ {MasterThread})
                    ELSE stopAsked
    /\ UNCHANGED <<inLoop, done, overdue, detached, pending>>

\* A peer outlives its join_timeout while drain() waits for the peers.
PeerExpires(t) ==
    /\ drainPc = "peers"
    /\ t \in (Range(toJoin) \ {MasterThread}) \ (done \cup overdue)
    /\ overdue' = overdue \cup {t}
    /\ UNCHANGED <<slots, closing, stopAsked, inLoop, done, drainPc, toJoin, detached, pending>>

\* Phase 3: once every peer has returned or expired the master is told.
SignalMaster ==
    /\ drainPc = "peers"
    /\ Range(toJoin) \ {MasterThread} \subseteq done \cup overdue
    /\ stopAsked' = stopAsked \cup {MasterThread}
    /\ drainPc' = "join"
    /\ UNCHANGED <<slots, closing, inLoop, done, toJoin, overdue, detached, pending>>

\* process_slot_bounded_join, last spawned first: join a finished thread,
\* detach one that has used up its timeout.
JoinLast ==
    /\ drainPc = "join" /\ toJoin # <<>>
    /\ Last(toJoin) \in done
    /\ toJoin' = Front(toJoin)
    /\ UNCHANGED <<slots, closing, stopAsked, inLoop, done, drainPc, overdue, detached, pending>>

JoinExpires ==
    /\ drainPc = "join" /\ toJoin # <<>>
    /\ Last(toJoin) \notin done
    /\ detached' = detached \cup {Last(toJoin)}
    /\ toJoin' = Front(toJoin)
    /\ UNCHANGED <<slots, closing, stopAsked, inLoop, done, drainPc, overdue, pending>>

Drained == drainPc = "join" /\ toJoin = <<>>

AllDetachedDone == detached \subseteq done

ManagerTypeOK ==
    /\ slots \in Seq(Threads) /\ toJoin \in Seq(Threads)
    /\ closing \in BOOLEAN
    /\ {stopAsked, inLoop, done, overdue, detached, pending} \subseteq SUBSET Threads
    /\ drainPc \in {"idle", "peers", "join"}
=============================================================================
