------------------------------ MODULE DataLoop ------------------------------
(***************************************************************************)
(* The data loop of a role process (data_loop.hpp, data_loop.cpp and the   *)
(* three CycleOps of cycle_ops.hpp) with the flags, the stop reason and    *)
(* the incoming queue of RoleHostCore that it shares with the control      *)
(* threads and with main().                                                *)
(*                                                                         *)
(* One cycle is: the outer guard, the init gate, acquiring the input       *)
(* and/or output slot, the shutdown observation, and one step that drains  *)
(* the incoming queue, dispatches notifications, runs the script and       *)
(* returns or keeps the slots.  The flags only ever grow while the loop    *)
(* runs, so reading several of them is one step.  The role's data queues   *)
(* are Active for the whole loop: only the teardown stops them.            *)
(***************************************************************************)
EXTENDS Naturals, Sequences

CONSTANTS Roles,       \* records [shape, timed, dropMode, stopOnError, overrides, dual]
          IncomingCap  \* kMaxIncomingQueue

\* Only a processor has its two channels on two hubs.
ASSUME RolesAssumption ==
    /\ IncomingCap \in Nat
    /\ \A r \in Roles : /\ r.shape \in {"producer", "consumer", "processor"}
                        /\ r.dual \in BOOLEAN
                        /\ r.dual => r.shape = "processor"

VARIABLES role,        \* the configuration of this process
          flags,       \* running, shutdown, critical, exit
          reason,      \* stop_reason_
          incoming,    \* incoming_queue_
          presence,    \* registration_state of each side's presence
          loopPc,      \* where the loop stands
          initDone,    \* init_done
          first,       \* the deadline is still time_point::max()
          input,       \* the input item held, 0 when none
          out,         \* an output slot is held
          supply,      \* items waiting in the input queue
          taken,       \* items taken from it so far
          offered,     \* inputs the script saw together with an output slot
          iterated     \* the loop has completed a cycle since the last heartbeat

coreVars == <<flags, reason, incoming>>
loopVars == <<role, flags, reason, incoming, presence, loopPc, initDone, first, input, out,
              supply, taken, offered, iterated>>

Sides(r) == CASE r.shape = "producer"  -> {"out"}
              [] r.shape = "consumer"  -> {"in"}
              [] r.shape = "processor" -> {"in", "out"}

Reads  == role.shape # "producer"
Writes == role.shape # "consumer"

LoopInit ==
    /\ role \in Roles
    /\ flags = {} /\ reason = "Normal" /\ incoming = <<>>
    /\ presence = [s \in {"in", "out"} |-> "Unregistered"]
    /\ loopPc = "off"
    /\ initDone = FALSE /\ first = TRUE /\ iterated = FALSE
    /\ input = 0 /\ out = FALSE
    /\ supply = 0 /\ taken = 0 /\ offered = 0

StopSeen == "running" \notin flags \/ flags \cap {"shutdown", "critical", "exit"} # {}

AnyPresenceAuthorized == \E s \in Sides(role) : presence[s] = "Authorized"

\* enqueue_message refuses a message when the queue is full.
Enqueued(q, m) == IF Len(q) >= IncomingCap THEN q ELSE Append(q, m)

----------------------------------------------------------------------------
\* The outer guard and the process-exit check at the top of a cycle.
LoopTop ==
    /\ loopPc = "top"
    /\ loopPc' = IF StopSeen \/ ~AnyPresenceAuthorized THEN "exit" ELSE "init"
    /\ UNCHANGED <<role, coreVars, presence, initDone, first, input, out, supply, taken,
                   offered, iterated>>

\* The init gate: default_init_ready and the script's on_init.
InitReady ==
    /\ loopPc = "init"
    /\ initDone' = TRUE
    /\ loopPc' = IF Reads THEN "read" ELSE "write"
    /\ UNCHANGED <<role, coreVars, presence, first, input, out, supply, taken, offered, iterated>>

\* Not ready: the cycle sleeps instead of acquiring, and still runs its script.
InitNotReady ==
    /\ loopPc = "init" /\ ~initDone
    /\ loopPc' = "observe"
    /\ UNCHANGED <<role, coreVars, presence, initDone, first, input, out, supply, taken,
                   offered, iterated>>

InitTimesOut ==
    /\ loopPc = "init" /\ ~initDone
    /\ flags' = flags \cup {"critical"}
    /\ reason' = "InitTimeout"
    /\ loopPc' = "exit"
    /\ UNCHANGED <<role, incoming, presence, initDone, first, input, out, supply, taken,
                   offered, iterated>>

\* Variant: a blocked acquire looks at its deadline only.
MayGiveUpOnDeadline == ~role.timed \/ ~first

\* retry_acquire gives up: one try under MaxRate; otherwise on a stop flag or
\* on the cycle's deadline, which the first cycle does not have.
MayGiveUp == ~role.timed \/ StopSeen \/ ~first

\* read_acquire (ConsumerCycleOps, ProcessorCycleOps): a held input is kept.
AcquireInput ==
    /\ loopPc = "read"
    /\ \/ input # 0 /\ UNCHANGED <<input, supply, taken>>
       \/ /\ input = 0 /\ supply > 0
          /\ input' = taken + 1 /\ taken' = taken + 1 /\ supply' = supply - 1
       \/ input = 0 /\ supply = 0 /\ MayGiveUp /\ UNCHANGED <<input, supply, taken>>
    /\ loopPc' = IF Writes /\ input' # 0 THEN "write" ELSE "observe"
    /\ UNCHANGED <<role, coreVars, presence, initDone, first, out, offered, iterated>>

\* write_acquire: the processor's has a finite timeout of its own, the
\* producer's is retried like the read.  Room comes and goes with the readers.
AcquireOutput ==
    /\ loopPc = "write"
    /\ out' \in {TRUE} \cup IF Reads \/ MayGiveUp THEN {FALSE} ELSE {}
    /\ loopPc' = "observe"
    /\ UNCHANGED <<role, coreVars, presence, initDone, first, input, supply, taken, offered,
                   iterated>>

\* cleanup_on_shutdown: release the input, discard the output.
CleanupOnShutdown == out' = FALSE /\ input' = 0

\* The shutdown observation after the acquire.
Observe ==
    /\ loopPc = "observe"
    /\ IF StopSeen THEN CleanupOnShutdown /\ loopPc' = "exit"
                   ELSE loopPc' = "invoke" /\ UNCHANGED <<input, out>>
    /\ UNCHANGED <<role, coreVars, presence, initDone, first, supply, taken, offered, iterated>>

----------------------------------------------------------------------------
(* invoke_and_commit                                                       *)

\* dispatch_notifications with the default handlers: a closing channel and
\* the death of the master hub stop the role unless the script overrides
\* the callback; the last of them to be handled names the reason.
StopsRole(m) == m.kind = "closing" \/ (m.kind = "hubdead" /\ m.master)
Stoppers(msgs) == IF role.overrides THEN <<>> ELSE SelectSeq(msgs, StopsRole)
ReasonOf(m) == IF m.kind = "closing" THEN "ChannelClosed" ELSE "HubDead"

\* ProducerCycleOps: commit on a result, discard otherwise; the slot is gone.
ProducerReturns == out' = FALSE /\ UNCHANGED input

\* ConsumerCycleOps: the input goes back whatever the script said.
ConsumerReturns == input' = 0 /\ UNCHANGED out

\* ProcessorCycleOps: in Block mode the input stays for the next cycle until
\* an output slot was there for it.
ProcessorReturns ==
    /\ out' = FALSE
    /\ input' = IF out \/ role.dropMode THEN 0 ELSE input

SlotsReturned ==
    CASE role.shape = "producer"  -> ProducerReturns
      [] role.shape = "consumer"  -> ConsumerReturns
      [] role.shape = "processor" -> ProcessorReturns

\* drain_messages, dispatch, the script (its result, and whether it called
\* api.stop()), commit or discard, and the stop-on-error rule.
Invoke(result, calledStop) ==
    /\ loopPc = "invoke"
    /\ LET stoppers == Stoppers(incoming)
           fatal    == result = "error" /\ role.stopOnError
       IN /\ flags' = flags \cup IF stoppers # <<>> \/ fatal \/ calledStop
                                 THEN {"shutdown"} ELSE {}
          /\ reason' = IF fatal THEN "ScriptError"
                       ELSE IF stoppers # <<>> THEN ReasonOf(stoppers[Len(stoppers)]) ELSE reason
          /\ loopPc' = IF fatal THEN "exit" ELSE "top"
          /\ iterated' = (iterated \/ ~fatal)
          /\ first' = (first /\ (fatal \/ ~role.timed))
    /\ incoming' = <<>>
    /\ offered' = IF input # 0 /\ out THEN offered + 1 ELSE offered
    /\ SlotsReturned
    /\ UNCHANGED <<role, presence, initDone, supply, taken>>

\* cleanup_on_exit: a processor may still hold its input from a cycle that had
\* no output slot.
CleanupOnExit ==
    /\ loopPc = "exit"
    /\ loopPc' = "done"
    /\ input' = IF Reads /\ Writes THEN 0 ELSE input
    /\ UNCHANGED <<role, coreVars, presence, initDone, first, out, supply, taken, offered,
                   iterated>>

LoopStep ==
    \/ LoopTop \/ InitReady \/ InitNotReady \/ InitTimesOut
    \/ AcquireInput \/ AcquireOutput \/ Observe \/ CleanupOnExit
    \/ \E result \in {"commit", "discard", "error"}, calledStop \in BOOLEAN :
          Invoke(result, calledStop)

\* An item reaches the input queue.
RxArrives ==
    /\ Reads
    /\ supply' = supply + 1
    /\ UNCHANGED <<role, coreVars, presence, loopPc, initDone, first, input, out, taken,
                   offered, iterated>>

----------------------------------------------------------------------------
\* Properties.

\* Every slot the loop acquired has been returned when run_data_loop returns,
\* whichever of its five ways out it took.
SlotsAreReturned == loopPc = "done" => input = 0 /\ ~out

\* A Block-mode processor shows every input to its script together with an
\* output slot, once and in order: an input it took is either the one it
\* holds or has been offered, until the role is told to stop.
BlockModeOffersEveryInput ==
    (role.shape = "processor" /\ ~role.dropMode /\ loopPc \notin {"exit", "done"})
        => taken = offered + (IF input = 0 THEN 0 ELSE 1)
=============================================================================
