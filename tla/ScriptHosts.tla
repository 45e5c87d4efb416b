---------------------------- MODULE ScriptHosts ----------------------------
(* The two hosts of a script engine.  In a role the worker thread owns the   *)
(* engine and the control thread carries its requests to the broker and      *)
(* calls on_heartbeat.  In the hub the script runner's worker owns the       *)
(* engine, and HubHost starts and stops it beside the broker and the admin   *)
(* thread, whose handlers ask the script to augment their replies.           *)
EXTENDS ScriptEngine

CONSTANTS
    MaxIncoming,    \* kMaxIncomingQueue
    MaxOrders       \* bound: close and broadcast requests in flight

VARIABLES
    host,           \* "role" or "hub"
    owner,          \* the owner: [pc, asks, batch], batch being drained events
    stop,           \* RoleHostCore::shutdown_requested_
    main,           \* the main thread of the hub: its place in startup() and shutdown()
    api,            \* the HubAPI: "none", "live" or "gone"
    holds,          \* the admin thread is inside an augment_* call of the HubAPI
    incoming,       \* events enqueued for the runner
    subscribed,     \* the runner's HubState subscriptions are in place
    broker,         \* the broker thread: [pc, stop]
    orders          \* requests queued for the broker: [queued, lost]

hostVars == <<host, owner, stop, main, api, holds, incoming, subscribed, broker, orders>>
vars == <<engineVars, hostVars>>

Foreign == IF host = "role" THEN {"ctrl"} ELSE {"admin"}

Init ==
    /\ EngineInit
    /\ host \in {"role", "hub"}
    /\ host = "hub" => ~errors.stops
    /\ owner = [pc |-> IF host = "role" THEN "new" ELSE "none", asks |-> 0, batch |-> 0]
    /\ stop = FALSE /\ holds = FALSE /\ subscribed = FALSE /\ incoming = 0
    /\ main = IF host = "hub" THEN "constructed" ELSE "none"
    /\ api = "none"
    /\ broker = [pc |-> "none", stop |-> FALSE]
    /\ orders = [queued |-> 0, lost |-> FALSE]

OwnerGoes(from, to) ==
    /\ owner.pc = from
    /\ owner' = [owner EXCEPT !.pc = to]

----------------------------------------------------------------------------
(* Setting the engine up: engine_lifecycle_startup in a role, the first      *)
(* steps of HubScriptRunner::worker_main_ in the hub.                        *)

EngineInitialized ==
    /\ \E ok \in BOOLEAN : Initialize(ok) /\ OwnerGoes("new", IF ok THEN "load" ELSE "failed")
    /\ UNCHANGED <<host, stop, main, api, holds, incoming, subscribed, broker, orders>>

\* A failed load or build: the hub's runner finalizes the engine, a role's
\* module startup throws and leaves that to the destructor.
EngineLoads ==
    /\ \E ok \in BOOLEAN :
          /\ LoadScript(ok)
          /\ OwnerGoes("load", IF ok THEN "build" ELSE IF host = "hub" THEN "abandon" ELSE "failed")
    /\ UNCHANGED <<host, stop, main, api, holds, incoming, subscribed, broker, orders>>

EngineBuilds ==
    /\ \E ok \in BOOLEAN :
          /\ BuildApi(ok)
          /\ OwnerGoes("build", IF ok THEN "init" ELSE IF host = "hub" THEN "abandon" ELSE "failed")
    /\ UNCHANGED <<host, stop, main, api, holds, incoming, subscribed, broker, orders>>

RunnerAbandons ==
    /\ OwnerGoes("abandon", "failed")
    /\ Finalize
    /\ UNCHANGED <<host, stop, main, api, holds, incoming, subscribed, broker, orders>>

\* invoke_on_init.  The hub calls it once, whatever it answers, and subscribes
\* to HubState only afterwards; the data loop calls it every cycle until it is
\* ready.
OnInit ==
    /\ \E v \in Values :
          /\ RunOnInit(v)
          /\ OwnerGoes("init", IF host = "hub" THEN "events" ELSE IF Ready(v) THEN "loop" ELSE "init")
    /\ subscribed' = (host = "hub")
    /\ UNCHANGED <<host, stop, main, api, holds, incoming, broker, orders>>

----------------------------------------------------------------------------
(* The role's worker and its control thread.                                 *)

\* A script of the data loop that calls the broker: do_request waits for the
\* control thread.
ScriptAsks ==
    /\ host = "role" /\ frames = <<>> /\ owner.asks < MaxCalls
    /\ ~stop /\ ~StopsOnError
    /\ owner.pc = "loop"
    /\ owner' = [owner EXCEPT !.pc = "asking", !.asks = @ + 1]
    /\ UNCHANGED <<engineVars, host, stop, main, api, holds, incoming, subscribed, broker, orders>>

After(pc) == IF pc = "asking" THEN "returns" ELSE "onstop"

\* The control thread, free of any script call, sends the request and hands
\* the reply over.
CtrlServes ==
    /\ owner.pc \in {"asking", "dereg"} /\ caller["ctrl"].pc = "idle"
    /\ owner' = [owner EXCEPT !.pc = After(@)]
    /\ UNCHANGED <<engineVars, host, stop, main, api, holds, incoming, subscribed, broker, orders>>

AskTimesOut ==
    /\ owner.pc \in {"asking", "dereg"}
    /\ owner' = [owner EXCEPT !.pc = After(@)]
    /\ UNCHANGED <<engineVars, host, stop, main, api, holds, incoming, subscribed, broker, orders>>

\* One cycle of the data loop: the callback and what trails it.
Cycle ==
    /\ host = "role"
    /\ \/ OwnerGoes("loop", "loop") /\ ~stop /\ ~StopsOnError
       \/ OwnerGoes("returns", "loop")
    /\ RunCallback
    /\ UNCHANGED <<host, stop, main, api, holds, incoming, subscribed, broker, orders>>

\* do_role_teardown: stop_accepting, then deregister_from_broker ...
LoopEnds ==
    /\ host = "role" /\ frames = <<>> /\ (stop \/ StopsOnError)
    /\ OwnerGoes("loop", "dereg") \/ OwnerGoes("init", "dereg")
    /\ StopAccepting
    /\ UNCHANGED <<host, stop, main, api, holds, incoming, subscribed, broker, orders>>

\* ... invoke_on_stop, engine.finalize, and only then the control thread.
OnStop ==
    /\ OwnerGoes("onstop", "finalize")
    /\ RunControlCallback
    /\ \/ UNCHANGED orders
       \/ host = "hub" /\ orders.queued < MaxOrders
          /\ orders' = [orders EXCEPT !.queued = @ + 1]
    /\ UNCHANGED <<host, stop, main, api, holds, incoming, subscribed, broker>>

EngineFinalizes ==
    /\ OwnerGoes("finalize", IF host = "role" THEN "stopctrl" ELSE "done")
    /\ Finalize
    /\ UNCHANGED <<host, stop, main, api, holds, incoming, subscribed, broker, orders>>

StopCtrl ==
    /\ OwnerGoes("stopctrl", "done")
    /\ \/ /\ caller["ctrl"].pc = "idle"
          /\ caller' = [caller EXCEPT !["ctrl"].pc = "gone"]
       \/ /\ caller["ctrl"].pc # "idle"     \* wait_for_quiescence expires
          /\ UNCHANGED caller
    /\ UNCHANGED <<kind, eng, queue, frames, children, plugin, ran, errors>>
    /\ UNCHANGED <<host, stop, main, api, holds, incoming, subscribed, broker, orders>>

EngineDestroyed ==
    /\ host = "role"
    /\ OwnerGoes("done", "destroyed") \/ OwnerGoes("failed", "destroyed")
    /\ Destroy
    /\ UNCHANGED <<host, stop, main, api, holds, incoming, subscribed, broker, orders>>

RoleStops ==
    /\ host = "role" /\ ~stop /\ stop' = TRUE
    /\ UNCHANGED <<engineVars, host, owner, main, api, holds, incoming, subscribed, broker, orders>>

\* on_heartbeat_tick_: after the heartbeat has gone out, invoke("on_heartbeat").
HeartbeatCallback ==
    /\ host = "role"
    /\ owner.pc \in {"init", "loop", "asking", "returns", "dereg", "onstop", "finalize", "stopctrl"}
    /\ CallBegins("ctrl", "invoke")
    /\ UNCHANGED hostVars

----------------------------------------------------------------------------
(* HubHost::startup and the runner's loop.                                   *)

MainGoes(from, to) == main = from /\ main' = to

StartBroker ==
    /\ MainGoes("constructed", "waitbroker")
    /\ broker' = [broker EXCEPT !.pc = "binding"]
    /\ UNCHANGED <<engineVars, host, owner, stop, api, holds, incoming, subscribed, orders>>

\* on_ready, or the exception forwarded through the promise.
BrokerBinds ==
    /\ broker.pc = "binding"
    /\ \E to \in {"top", "gone"} : broker' = [broker EXCEPT !.pc = to]
    /\ UNCHANGED <<engineVars, host, owner, stop, main, api, holds, incoming, subscribed, orders>>

\* The admin thread, then the runner: its HubAPI and its worker.
StartRunner ==
    /\ broker.pc = "top"
    /\ MainGoes("waitbroker", "waitrunner")
    /\ api' = "live"
    /\ owner' = [owner EXCEPT !.pc = "new"]
    /\ UNCHANGED <<engineVars, host, stop, holds, incoming, subscribed, broker, orders>>

StartupFails ==
    /\ broker.pc = "gone"
    /\ MainGoes("waitbroker", "rolledback")
    /\ UNCHANGED <<engineVars, host, owner, stop, api, holds, incoming, subscribed, broker, orders>>

RunnerReady ==
    /\ subscribed
    /\ MainGoes("waitrunner", "running")
    /\ UNCHANGED <<engineVars, host, owner, stop, api, holds, incoming, subscribed, broker, orders>>

\* The worker reported a failure: startup_() runs shutdown_(), which destroys
\* the HubAPI; then rollback_partial_startup stops the admin thread and the
\* broker.
RunnerFails ==
    /\ owner.pc = "failed"
    /\ MainGoes("waitrunner", "rollback")
    /\ api' = "gone"
    /\ UNCHANGED <<engineVars, host, owner, stop, holds, incoming, subscribed, broker, orders>>

Rollback ==
    /\ caller["admin"].pc = "idle" /\ ~holds
    /\ MainGoes("rollback", "joinbroker")
    /\ caller' = [caller EXCEPT !["admin"].pc = "gone"]
    /\ broker' = [broker EXCEPT !.stop = TRUE]
    /\ UNCHANGED <<kind, eng, queue, frames, children, plugin, ran, errors>>
    /\ UNCHANGED <<host, owner, stop, api, holds, incoming, subscribed, orders>>

\* drain_messages: everything queued so far is this iteration's batch.
TakeEvents ==
    /\ host = "hub" /\ frames = <<>>
    /\ \/ owner.pc = "events" /\ owner' = [owner EXCEPT !.pc = "dispatch", !.batch = incoming]
       \/ owner.pc = "drain" /\ owner' = [owner EXCEPT !.pc = "lastevents", !.batch = incoming]
    /\ incoming' = 0
    /\ UNCHANGED <<engineVars, host, stop, main, api, holds, subscribed, broker, orders>>

\* dispatch_event: invoke on the owner's thread, with the pending requests
\* after it in Python.
DispatchEvent ==
    /\ host = "hub" /\ owner.pc \in {"dispatch", "lastevents"} /\ owner.batch > 0
    /\ RunCallback
    /\ owner' = [owner EXCEPT !.batch = @ - 1]
    /\ UNCHANGED <<host, stop, main, api, holds, incoming, subscribed, broker, orders>>

\* engine().process_pending(), every iteration.
RunnerServes ==
    /\ frames = <<>> /\ owner.batch = 0
    /\ OwnerGoes("dispatch", "tick")
    /\ IF kind = "native" THEN UNCHANGED <<queue, frames>> ELSE ProcessPending
    /\ UNCHANGED <<kind, eng, caller, children, plugin, ran, errors>>
    /\ UNCHANGED <<host, stop, main, api, holds, incoming, subscribed, broker, orders>>

\* dispatch_tick, when the deadline has passed.
RunnerTicks ==
    /\ frames = <<>>
    /\ OwnerGoes("tick", "wait")
    /\ RunCallback \/ UNCHANGED engineVars
    /\ UNCHANGED <<host, stop, main, api, holds, incoming, subscribed, broker, orders>>

RunnerWaits ==
    /\ frames = <<>>
    /\ OwnerGoes("wait", IF stop \/ StopsOnError THEN "drain" ELSE "events")
    /\ UNCHANGED <<engineVars, host, stop, main, api, holds, incoming, subscribed, broker, orders>>

RunnerLeaves ==
    /\ frames = <<>> /\ owner.batch = 0
    /\ OwnerGoes("lastevents", "onstop")
    /\ UNCHANGED <<engineVars, host, stop, main, api, holds, incoming, subscribed, broker, orders>>

----------------------------------------------------------------------------
(* The admin thread and the broker thread of the hub.                        *)

\* A handler takes the HubAPI from HubHost::hub_api() ...
AdminTakesApi ==
    /\ main \in {"waitrunner", "running"} /\ caller["admin"].pc = "idle" /\ ~holds
    /\ caller["admin"].call < MaxCalls
    /\ api = "live" /\ holds' = TRUE
    /\ UNCHANGED <<engineVars, host, owner, stop, main, api, incoming, subscribed, broker, orders>>

\* ... calls augment_*, which invokes the script unless the engine is not
\* there yet, and sends its reply.
AdminAugments ==
    /\ holds /\ eng.state # "Unloaded"
    /\ CallBegins("admin", "returning")
    /\ UNCHANGED hostVars

AdminReplies ==
    /\ holds /\ caller["admin"].pc = "idle"
    /\ holds' = FALSE
    /\ UNCHANGED <<engineVars, host, owner, stop, main, api, incoming, subscribed, broker, orders>>

\* A control method: the request is queued for the broker.
AdminOrders ==
    /\ main = "running" /\ caller["admin"].pc = "idle" /\ ~holds
    /\ orders.queued < MaxOrders
    /\ orders' = [orders EXCEPT !.queued = @ + 1]
    /\ UNCHANGED <<engineVars, host, owner, stop, main, api, holds, incoming, subscribed, broker>>

\* One pass of the broker's loop: poll, drain the request queues, dispatch.
BrokerTop ==
    /\ broker.pc = "top"
    /\ broker' = [broker EXCEPT !.pc = IF broker.stop THEN "gone" ELSE "poll"]
    /\ orders' = [orders EXCEPT !.lost = @ \/ (broker.stop /\ orders.queued > 0)]
    /\ UNCHANGED <<engineVars, host, owner, stop, main, api, holds, incoming, subscribed>>

\* A change of HubState in this pass is enqueued for the runner, unless its
\* queue is full.
BrokerPass ==
    /\ broker.pc = "poll"
    /\ broker' = [broker EXCEPT !.pc = "top"]
    /\ orders' = [orders EXCEPT !.queued = 0]
    /\ \/ UNCHANGED incoming
       \/ subscribed /\ incoming < MaxIncoming /\ incoming' = incoming + 1
    /\ UNCHANGED <<engineVars, host, owner, stop, main, api, holds, subscribed>>

----------------------------------------------------------------------------
(* HubHost::shutdown.                                                        *)

\* shutdown_flag, and the admin thread is told to stop.
ShutdownBegins ==
    /\ MainGoes("running", "joinadmin")
    /\ UNCHANGED <<engineVars, host, owner, stop, api, holds, incoming, subscribed, broker, orders>>

\* join_named("admin"), then the runner is asked to stop.
AdminJoined ==
    /\ caller["admin"].pc = "idle" /\ ~holds
    /\ MainGoes("joinadmin", "joinrunner")
    /\ caller' = [caller EXCEPT !["admin"].pc = "gone"]
    /\ stop' = TRUE
    /\ UNCHANGED <<kind, eng, queue, frames, children, plugin, ran, errors>>
    /\ UNCHANGED <<host, owner, api, holds, incoming, subscribed, broker, orders>>

\* The worker has returned: the HubAPI goes, then the broker is told to stop.
RunnerJoined ==
    /\ owner.pc = "done"
    /\ MainGoes("joinrunner", "joinbroker")
    /\ api' = "gone"
    /\ broker' = [broker EXCEPT !.stop = TRUE]
    /\ UNCHANGED <<engineVars, host, owner, stop, holds, incoming, subscribed, orders>>

BrokerJoined ==
    /\ broker.pc = "gone"
    /\ MainGoes("joinbroker", "done")
    /\ UNCHANGED <<engineVars, host, owner, stop, api, holds, incoming, subscribed, broker, orders>>

----------------------------------------------------------------------------

CallSteps ==
    /\ \E t \in Foreign : Enqueue(t) \/ CallTimesOut(t) \/ ForeignReturns(t)
    /\ UNCHANGED hostVars

EngineServes == Serving /\ UNCHANGED hostVars

OwnerSteps ==
    \/ EngineInitialized \/ EngineLoads \/ EngineBuilds \/ RunnerAbandons \/ OnInit
    \/ OnStop \/ EngineFinalizes \/ EngineServes
    \/ LoopEnds \/ StopCtrl \/ EngineDestroyed
    \/ TakeEvents \/ DispatchEvent \/ RunnerServes \/ RunnerTicks \/ RunnerWaits \/ RunnerLeaves

MainSteps ==
    \/ StartBroker \/ StartRunner \/ StartupFails \/ RunnerReady \/ RunnerFails \/ Rollback
    \/ AdminJoined \/ RunnerJoined \/ BrokerJoined

BrokerSteps == BrokerBinds \/ BrokerTop \/ BrokerPass

Done ==
    /\ owner.pc = "destroyed" \/ main \in {"done", "rolledback"}
    /\ UNCHANGED vars

Next ==
    \/ OwnerSteps \/ CallSteps \/ MainSteps \/ BrokerSteps \/ AdminReplies
    \/ Cycle \/ ScriptAsks \/ CtrlServes \/ AskTimesOut \/ RoleStops \/ HeartbeatCallback
    \/ AdminTakesApi \/ AdminAugments \/ AdminOrders \/ ShutdownBegins \/ Done

Spec == Init /\ [][Next]_vars

\* Every thread that can go on does; the data loop goes round; a request to
\* the broker ends.  Nothing makes a call, a stop or a shutdown happen.
Fairness ==
    /\ WF_vars(OwnerSteps) /\ WF_vars(MainSteps) /\ WF_vars(BrokerSteps) /\ WF_vars(AdminReplies)
    /\ WF_vars(CtrlServes \/ AskTimesOut) /\ WF_vars(Cycle)
    /\ \A t \in {"ctrl", "admin"} : WF_vars(t \in Foreign /\ (Enqueue(t) \/ ForeignReturns(t)) /\ UNCHANGED hostVars)

FairSpec == Spec /\ Fairness

----------------------------------------------------------------------------
(* Properties.                                                               *)

\* The answer a caller has is the answer to the call it made: told that its
\* function ran, it did run; told that the engine is shutting down, it did
\* not.  A request whose caller timed out stays queued and is still executed,
\* and its late answer must not reach that thread's next call; a request
\* cancelled by finalize_engine_ must not have been executed in a nested
\* activation of process_pending_ before.
AnswersMatchCalls ==
    \A t \in Callers :
        /\ caller[t].answer \in {"ok", "error"} => RequestOf(t) \in ran
        /\ caller[t].answer = "shutdown" => RequestOf(t) \notin ran

\* Every call from another thread returns: the owner serves the queue in its
\* loop, and finalize_engine_ answers what is left (invoke waits on its future
\* without a bound).
CallsReturn == \A t \in Callers : caller[t].pc # "idle" ~> caller[t].pc \in {"idle", "gone"}

\* In HubHost::shutdown no admin handler is inside the HubAPI once it is gone:
\* the admin thread is joined before the runner is shut down.
HubApiOutlivesHandler == holds /\ main \in {"joinadmin", "joinrunner", "joinbroker", "done"} => api = "live"

\* No admin handler is ever inside a HubAPI that is gone, failed startups
\* included.
HubApiOutlivesAdmin == holds => api = "live"

\* A function of the native library is called only while it is mapped.
PluginCallsNeedLibrary == plugin.touched # "unmapped"

\* What on_stop (or an operator) asked of the broker is carried out before the
\* broker's loop ends.
OrdersAreCarriedOut == ~orders.lost

\* No other thread is inside the engine when on_stop runs.
NoCallerDuringOnStop == owner.pc = "onstop" => \A t \in Callers : caller[t].pc \in {"idle", "gone"}

\* A function run on another thread keeps its interpreter state, or its
\* library, until it returns.
ScriptOutlivesCall ==
    \A t \in Callers : caller[t].pc = "script" => t \in children \/ plugin.mapped
=============================================================================
