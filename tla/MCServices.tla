----------------------------- MODULE MCServices -----------------------------
(***************************************************************************)
(* The services of a process for TLC: the script hosts, the logger, the    *)
(* lifecycle manager and the main functions with their signal handler.     *)
(* They do not share state; which says which one a behaviour explores, and *)
(* the others rest in a first state.                                       *)
(***************************************************************************)
EXTENDS ScriptHosts, TLC

CONSTANTS
    Users, MaxQueue,        \* Logger
    Binaries, MaxSignals,   \* ProcessMain
    MaxUnloads              \* bound: roots that wait for the shutdown thread

VARIABLES
    which,
    state, logStop, logQueue, drop, worker, sink, written, lost, user, callbacks,
    closer, calls,                                                 \* the logger
    app, graph, mutex, thread, pending, tainted, dyn, live,        \* the lifecycle
    proc, procHost, flag, bridge, installed, force, tty, pipe, count, writing,
    watcher, status, exit, sent, asked                             \* the process

scriptVars ==
    <<kind, eng, queue, frames, caller, children, plugin, ran, errors, host, owner,
      stop, main, api, holds, incoming, subscribed, broker, orders>>
logVars ==
    <<state, logStop, logQueue, drop, worker, sink, written, lost, user, callbacks,
      closer, calls>>
lifeVars == <<app, graph, mutex, thread, pending, tainted, dyn, live>>
procVars ==
    <<proc, procHost, flag, bridge, installed, force, tty, pipe, count, writing,
      watcher, status, exit, sent, asked>>

G == INSTANCE Logger WITH queue <- logQueue, stop <- logStop

\* Two plugins that share one dynamic dependency.
L == INSTANCE Lifecycle WITH
        main <- app, caller <- thread, Callers <- {"t1"},
        Static <- {"log", "conf"}, Dynamic <- {"base", "left", "right"},
        Dependencies <- [log |-> <<>>, conf |-> <<"log">>, base |-> <<"conf">>,
                         left |-> <<"base">>, right |-> <<"log", "base">>],
        Persistent <- {}, OwnerManaged <- {"right"},
        StartOutcomes <- {"ok", "throws"}, StopOutcomes <- {"ok", "fails", "invalid"}

M == INSTANCE ProcessMain WITH main <- proc, host <- procHost

-----------------------------------------------------------------------------
(* Each thread that logs runs through a list of calls.                     *)
CallLists ==
    {[u1 |-> <<"sink", "message">>, u2 |-> <<"message", "flush">>],
     [u1 |-> <<"message", "message", "flush">>, u2 |-> <<"message", "sink">>],
     [u1 |-> <<"sink", "sync", "message">>, u2 |-> <<"sink", "message">>],
     [u1 |-> <<"callback", "message", "flush">>, u2 |-> <<"sinkError">>]}

LogCall(u, what) ==
    \/ what = "message" /\ G!LogMessage(u)
    \/ what = "sync" /\ G!WriteSync(u)
    \/ what \in G!Controls /\ G!Control(u, what)

LogNext ==
    \/ \E u \in Users :
         /\ calls[u] # <<>>
         /\ LogCall(u, Head(calls[u]))
         /\ calls' = [calls EXCEPT ![u] = Tail(@)]
    \/ /\ \/ \E u \in Users : G!ControlReturns(u)
          \/ G!WorkerSteps \/ G!DispatcherSteps
          \/ G!ShutdownFlag \/ G!ShutdownJoins
       /\ UNCHANGED calls

UnloadsBounded == thread["t1"].does = "unload" => Len(dyn.queue) < MaxUnloads

-----------------------------------------------------------------------------
ServicesInit ==
    /\ which \in {"script", "logger", "lifecycle", "process"}
    /\ Init
    /\ which = "script" \/ (kind = "lua" /\ host = "hub")
    /\ G!Init /\ calls \in CallLists
    /\ which = "logger" \/ calls = [u1 |-> <<"sink", "message">>, u2 |-> <<"message", "flush">>]
    /\ L!Init
    /\ M!ProcessInit
    /\ which = "process" \/ (proc.of = "role" /\ tty /\ pipe.open)

ServicesNext ==
    \/ which = "script" /\ Next /\ UNCHANGED <<which, logVars, lifeVars, procVars>>
    \/ which = "logger" /\ LogNext /\ UNCHANGED <<which, scriptVars, lifeVars, procVars>>
    \/ /\ which = "lifecycle" /\ L!Next /\ UnloadsBounded'
       /\ UNCHANGED <<which, scriptVars, logVars, procVars>>
    \/ which = "process" /\ M!ProcessNext /\ UNCHANGED <<which, scriptVars, logVars, lifeVars>>

\* The fairness of the four, thread by thread.  Only one of them moves in a
\* behaviour, so the threads of different components share a condition.
focus == CASE which = "script" -> scriptVars
           [] which = "logger" -> logVars
           [] which = "lifecycle" -> lifeVars
           [] OTHER -> procVars
Fair(script, logger, lifecycle, process) ==
    /\ UNCHANGED which
    /\ \/ which = "script" /\ script
       \/ which = "logger" /\ logger /\ UNCHANGED calls
       \/ which = "lifecycle" /\ lifecycle
       \/ which = "process" /\ process
Foreigner(t) ==
    t \in Foreign /\ (Enqueue(t) \/ ForeignReturns(t)) /\ UNCHANGED hostVars
ServicesFairness ==
    /\ WF_focus(Fair(OwnerSteps, G!WorkerSteps, L!DynSteps, M!HandlerWrites))
    /\ WF_focus(Fair(MainSteps, G!DispatcherSteps, L!FinalizeSteps, M!WatcherSteps))
    /\ WF_focus(Fair(BrokerSteps, G!ShutdownJoins, L!UnloadSchedules("t1"), M!MainSteps))
    /\ WF_focus(Fair(AdminReplies, G!ControlReturns("u1"), L!WaitReturns("t1"), M!BridgeRuns))
    /\ WF_focus(Fair(CtrlServes \/ AskTimesOut, G!ControlReturns("u2"), FALSE, FALSE))
    /\ WF_focus(Fair(Cycle, FALSE, FALSE, FALSE))
    /\ WF_focus(Fair(Foreigner("ctrl"), FALSE, FALSE, FALSE))
    /\ WF_focus(Fair(Foreigner("admin"), FALSE, FALSE, FALSE))

ServicesSpec ==
    /\ ServicesInit
    /\ [][ServicesNext]_<<which, scriptVars, logVars, lifeVars, procVars>>
    /\ ServicesFairness

-----------------------------------------------------------------------------

\* Logger: what enqueue_log accepted is queued, in the batch or written; flush()
\* covers every message queued before it; after set_logfile() a thread's messages
\* are not in the sink it replaced.
LoggerKeeps == G!AcceptedIsKept /\ G!FlushCovers /\ G!SwitchHolds

\* Lifecycle: until finalize() begins, a LOADED module has every dependency it
\* named, whatever is unloaded, fails to load or fails to stop.
LoadedKeepsDependencies == L!LoadedKeepsDependencies

\* Main functions: the process stops only when a signal, the operator or its own
\* host asked for it.
ShutdownIsAsked == M!ShutdownIsAsked

\* What the threads of a process wait for comes.  Scripts: the calls from other
\* threads return, and a role whose script failed under stop_on_script_error leaves
\* its loop.  Logger: the control calls return, also when shutdown() races them.
\* Lifecycle: a scheduled unload completes unless a member's shutdown failed, and
\* finalize() returns.  Main: after a caught signal, or the operator's yes, the
\* process ends.
Awaited(i) == IF i = 1 THEN {"base", "left"} ELSE {"right"}
Waits(i) ==
    CASE which = "script" /\ i = 1 -> \E t \in Callers : caller[t].pc # "idle"
      [] which = "script" /\ i = 2 -> host = "role" /\ StopsOnError
      [] which = "logger" /\ i = 1 -> \E u \in Users : user[u].call # "none"
      [] which = "lifecycle" -> (Awaited(i) \cap DOMAIN pending # {}) \/ L!Finalized
      [] which = "process" /\ i = 1 -> (installed /\ ~tty /\ count > 0) \/ asked
      [] OTHER -> FALSE
Served(i) ==
    CASE which = "script" /\ i = 1 -> \A t \in Callers : caller[t].pc \in {"idle", "gone"}
      [] which = "script" /\ i = 2 -> owner.pc \in {"done", "destroyed"}
      [] which = "logger" -> \A u \in Users : user[u].call = "none"
      [] which = "lifecycle" -> IF L!Finalized THEN app.phase \in {"final", "aborted"}
                                ELSE Awaited(i) \cap DOMAIN pending = {} \/ tainted # {}
      [] OTHER -> ~M!Alive
WaitsEnd == \A i \in {1, 2} : Waits(i) ~> Served(i)
=============================================================================
