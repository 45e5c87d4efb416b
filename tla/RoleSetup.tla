------------------------------ MODULE RoleSetup ------------------------------
(***************************************************************************)
(* What a role host acquires while its worker starts up and gives back     *)
(* when it ends (worker_main_ of the three role hosts on top of            *)
(* RoleHostFrame): engine, inbox, data queues, the shared-memory capability *)
(* and its accept loop, the broker handler.  Every step may fail, each     *)
(* failure has its own way out, and the accept loop runs on a thread of    *)
(* its own over three objects the worker owns.                             *)
(*                                                                         *)
(* What the steps do with the broker and the control threads is RoleHost's *)
(* subject; here a step succeeds or fails.                                 *)
(***************************************************************************)
EXTENDS Naturals, Sequences

CONSTANTS Kinds,     \* the role hosts
          Options    \* records [shm, inbox, waits, validate]

VARIABLES kind, opt,
          owned,     \* what the worker has acquired and not given back
          todo,      \* the steps still ahead
          spc,       \* start, abort, loop, teardown, end
          answer,    \* ready_promise_, as the sequence of values set
          listener,  \* the shm_accept_loop thread: none, idle, serving, gone
          asked,     \* its shutdown flag
          expired    \* a quiescence wait has run out

vars == <<kind, opt, owned, todo, spc, answer, listener, asked, expired>>

----------------------------------------------------------------------------
(* The steps of the three worker_main_ in their order.                     *)

ProducerBuilds == <<"create", "presences", "inboxSchema", "inbox", "capability", "tx", "script">>
ConsumerBuilds == <<"create", "presences", "inboxSchema", "inbox", "rx", "script">>
ProcessorBuilds ==
    <<"create", "presences", "inboxSchema", "inbox", "rx", "capability", "tx", "script">>

ProducerConnects  == <<"handler", "register", "apply", "finalize">>
ConsumerConnects  == <<"handler", "register", "apply", "finalize">>
ProcessorConnects ==
    <<"handler", "register", "apply", "register", "apply", "finalize", "finalize">>

ProducerRuns  == <<"waits", "listener">>
ConsumerRuns  == <<"waits">>
ProcessorRuns == <<"waits", "listener">>

\* With --validate the infrastructure is skipped and the worker returns after
\* the script has loaded.
StepsOf(k, o) ==
    LET builds   == CASE k = "producer" -> ProducerBuilds [] k = "consumer" -> ConsumerBuilds
                      [] OTHER -> ProcessorBuilds
        connects == CASE k = "producer" -> ProducerConnects [] k = "consumer" -> ConsumerConnects
                      [] OTHER -> ProcessorConnects
        runs     == CASE k = "producer" -> ProducerRuns [] k = "consumer" -> ConsumerRuns
                      [] OTHER -> ProcessorRuns
    IN IF o.validate
       THEN SelectSeq(builds, LAMBDA s : s \in {"create", "presences", "inboxSchema", "script"})
       ELSE builds \o connects \o runs

Init ==
    /\ kind \in Kinds /\ opt \in Options
    /\ owned = {} /\ todo = StepsOf(kind, opt) /\ spc = "start"
    /\ answer = <<>> /\ listener = "none" /\ asked = FALSE /\ expired = FALSE

----------------------------------------------------------------------------
(* What a step acquires, given what is owned so far; {} when it must fail. *)

SetupInboxFacility(o) == {IF opt.inbox THEN o \cup {"inbox"} ELSE o}

BuildRxQueue(o) == {o \cup {"rx"}}

\* The memfd transport is created and bound before the queue borrows its fd.
PrepareTxCapability(o) == {IF opt.shm THEN o \cup {"transport"} ELSE o}

BuildTxQueue(o) == IF opt.shm /\ "transport" \notin o THEN {} ELSE {o \cup {"tx"}}

EngineLifecycleStartup(o) == {o \cup {"script"}}

StartHandler(o) == {o \cup {"handler"}}

\* Acceptor and orchestrator over the transport, then the accept loop.
SpawnShmAuthListener(o) ==
    IF "transport" \in o THEN {o \cup {"acceptor", "orchestrator"}} ELSE {o}

Acquire(step, o) ==
    CASE step = "inbox"      -> SetupInboxFacility(o)
      [] step = "rx"         -> BuildRxQueue(o)
      [] step = "capability" -> PrepareTxCapability(o)
      [] step = "tx"         -> BuildTxQueue(o)
      [] step = "script"     -> EngineLifecycleStartup(o)
      [] step = "handler"    -> StartHandler(o)
      [] step = "listener"   -> SpawnShmAuthListener(o)
      [] OTHER               -> {o}

\* A step that is skipped cannot fail: no inbox, no roles to wait for, no
\* shared-memory output.
MayFail(step) ==
    CASE step \in {"inbox", "inboxSchema"}     -> opt.inbox
      [] step = "waits"                        -> opt.waits
      [] step \in {"capability", "listener"}   -> opt.shm
      [] OTHER                                 -> TRUE

StepSucceeds ==
    /\ spc = "start" /\ todo # <<>>
    /\ owned' \in Acquire(Head(todo), owned)
    /\ todo' = Tail(todo)
    /\ listener' = IF Head(todo) = "listener" /\ "orchestrator" \in owned' THEN "idle" ELSE listener
    /\ UNCHANGED <<kind, opt, spc, answer, asked, expired>>

\* Before the infrastructure is set up a failure returns at once; afterwards it
\* tears the infrastructure down, and a failing script also finalizes its engine
\* (which the later failures leave to the host's destructor).
StepFails ==
    /\ spc = "start" /\ todo # <<>> /\ MayFail(Head(todo))
    /\ spc' = IF Head(todo) \in {"create", "presences", "inboxSchema"} \/ opt.validate
              THEN "end" ELSE "abort"
    /\ todo' = <<>>
    /\ answer' = IF spc' = "end" THEN Append(answer, FALSE) ELSE answer
    /\ UNCHANGED <<kind, opt, owned, listener, asked, expired>>

Validated ==
    /\ spc = "start" /\ todo = <<>> /\ opt.validate
    /\ owned' = owned \ {"script"}
    /\ answer' = Append(answer, TRUE) /\ spc' = "end"
    /\ UNCHANGED <<kind, opt, todo, listener, asked, expired>>

\* The ready promise and the data loop; a role without its queues skips the loop.
EntersLoop ==
    /\ spc = "start" /\ todo = <<>> /\ ~opt.validate
    /\ answer' = Append(answer, TRUE) /\ spc' = "loop"
    /\ UNCHANGED <<kind, opt, owned, todo, listener, asked, expired>>

----------------------------------------------------------------------------
(* The way out.                                                            *)

\* teardown_infrastructure_: the inbox; stop_handler_threads with its wait for
\* quiescence; close_queues; cleanup_tx_capability_.
TeardownInfrastructure == <<"inbox", "stop", "handler", "queues", "orchestrator", "acceptor",
                            "transport">>

\* do_role_teardown: deregister, on_stop, finalize, then ask every thread to stop
\* and wait before the infrastructure goes.
DoRoleTeardown ==
    /\ spc = "loop"
    /\ owned' = owned \ {"script"}
    /\ todo' = <<"stop">> \o TeardownInfrastructure
    /\ spc' = "teardown"
    /\ UNCHANGED <<kind, opt, answer, listener, asked, expired>>

\* Variant: an early return that only answers startup_().
AbortAtOnce ==
    /\ spc = "abort"
    /\ answer' = Append(answer, FALSE) /\ spc' = "end"
    /\ UNCHANGED <<kind, opt, owned, todo, listener, asked, expired>>

AbortTeardown ==
    /\ spc = "abort"
    /\ todo' = TeardownInfrastructure
    /\ spc' = "teardown"
    /\ UNCHANGED <<kind, opt, owned, answer, listener, asked, expired>>

\* request_shutdown_all, then wait_for_quiescence: over when the accept loop is
\* outside its bracket, or when the wait runs out.
StopThreads ==
    /\ spc = "teardown" /\ todo # <<>> /\ Head(todo) = "stop"
    /\ \/ ~asked /\ asked' = TRUE /\ UNCHANGED <<todo, expired>>
       \/ asked /\ listener \in {"none", "gone"} /\ todo' = Tail(todo) /\ UNCHANGED <<asked, expired>>
       \/ /\ asked /\ listener \in {"idle", "serving"}
          /\ todo' = Tail(todo) /\ expired' = TRUE /\ UNCHANGED asked
    /\ UNCHANGED <<kind, opt, owned, spc, answer, listener>>

ReleaseNext ==
    /\ spc = "teardown" /\ todo # <<>> /\ Head(todo) # "stop"
    /\ owned' = owned \ (IF Head(todo) = "queues" THEN {"rx", "tx"} ELSE {Head(todo)})
    /\ todo' = Tail(todo)
    /\ UNCHANGED <<kind, opt, spc, answer, listener, asked, expired>>

WorkerEnds ==
    /\ spc = "teardown" /\ todo = <<>>
    /\ spc' = "end"
    /\ answer' = IF answer = <<>> THEN <<FALSE>> ELSE answer
    /\ UNCHANGED <<kind, opt, owned, todo, listener, asked, expired>>

\* The accept loop: it tests its flag, takes one connection and serves it
\* (accept_and_serve_one asks the broker through the handler).
ListenerTurns ==
    /\ \/ listener = "idle" /\ listener' = IF asked \/ "orchestrator" \notin owned THEN "gone"
                                           ELSE "serving"
       \/ listener = "serving" /\ listener' = "idle"
    /\ UNCHANGED <<kind, opt, owned, todo, spc, answer, asked, expired>>

WorkerSteps ==
    \/ StepSucceeds \/ StepFails \/ Validated \/ EntersLoop \/ DoRoleTeardown \/ AbortTeardown
    \/ StopThreads \/ ReleaseNext \/ WorkerEnds

Next == WorkerSteps \/ ListenerTurns

Spec == Init /\ [][Next]_vars
----------------------------------------------------------------------------
\* Whatever step fails, the worker has given back its queues, its inbox, the
\* handler and the capability when it returns (the "H3b" early returns of
\* worker_main_), and has answered startup_() exactly once.
WorkerLeavesNothing ==
    spc = "end" => owned \subseteq {"script"} /\ Len(answer) = 1

\* Nothing goes before what borrows it: the shared-memory queue and the acceptor
\* use the transport, the orchestrator uses both, and the accept loop all of them
\* (unless a quiescence wait ran out, see cleanup_tx_capability_).
BorrowersGoFirst ==
    /\ opt.shm /\ owned \cap {"tx", "acceptor"} # {} => "transport" \in owned
    /\ "orchestrator" \in owned => {"acceptor", "transport"} \subseteq owned
    /\ listener = "serving" /\ ~expired => {"orchestrator", "handler"} \subseteq owned
=============================================================================
