------------------------------ MODULE RoleHost ------------------------------
(***************************************************************************)
(* A role process from startup_() to the end of shutdown_(): main(), the   *)
(* worker thread (worker_main_ of the three role hosts, the data loop, and *)
(* do_role_teardown), one control thread per hub connection, and the hubs  *)
(* those connections lead to.  Composes the data loop, the request channel *)
(* and the thread manager.                                                 *)
(*                                                                         *)
(* A processor with its two channels on different hubs has two             *)
(* connections; every other role has one.  Connection 1 is the master's.   *)
(* The order of registration (output side first) and of every teardown     *)
(* step is the code's.  Admission keys and channel-auth pulls are          *)
(* ChannelAuth's subject and the data transport is ZmqQueue's: here the    *)
(* REG_ACK is applied or refused as a whole.                               *)
(***************************************************************************)
EXTENDS DataLoop, BrokerRequest, ThreadManager

\* One worker and at most two control threads, the first of them the master.
ASSUME HostAssumption ==
    /\ Conns = {1, 2} /\ "worker" \in Callers
    /\ Threads = {"worker", "ctrl1", "ctrl2"} /\ MasterThread = "ctrl1"

VARIABLES wpc,       \* where the worker stands
          todo,      \* the sides still to be registered or deregistered
          ctl,       \* where each control thread stands
          mainPc,    \* where main() stands
          promise,   \* ready_promise_
          aliveMask, \* connection_alive_mask_, as the set of live connections
          ctxValid,  \* context_valid_
          handlerUp, \* handler_ and its BrokerRequestComm objects exist
          beating,   \* the heartbeat task is installed
          api        \* api_: live, reset, leaked

hostVars == <<wpc, todo, ctl, mainPc, promise, aliveMask, ctxValid, handlerUp, beating, api>>
vars == <<loopVars, brcVars, tmVars, hostVars>>

CtrlOf == <<"ctrl1", "ctrl2">>
ConnOf(s) == IF s = "out" /\ role.dual THEN 2 ELSE 1
UsedConns == {ConnOf(s) : s \in Sides(role)}
RegOrder == CASE role.shape = "producer"  -> <<"out">>
              [] role.shape = "consumer"  -> <<"in">>
              [] role.shape = "processor" -> <<"out", "in">>

\* The bodies of the requests, heartbeats and notifications.
Bodies == [kind : {"reg", "peer", "query", "dereg", "beat", "closing"},
           side : {"in", "out", ""}]
Answers == {"ok", "notready", "error"}
Command == [id : Nat, body : Bodies]
Frame == [id : Nat, body : Bodies, ok : Answers]
Call == [st : {"idle", "waiting", "answered"}, conn : Conns \cup {0}, id : Nat,
         body : Bodies \cup {NoBody}, reply : Seq(Frame)]

\* startup_(): the api object exists and the worker has been spawned.
Init ==
    /\ LoopInit /\ RequestInit
    /\ slots = <<"worker">> /\ toJoin = <<>>
    /\ closing = FALSE
    /\ stopAsked = {} /\ inLoop = {} /\ done = {}
    /\ overdue = {} /\ detached = {} /\ pending = {}
    /\ drainPc = "idle"
    /\ wpc = "setup" /\ todo = <<>>
    /\ ctl = [c \in Conns |-> "none"]
    /\ mainPc = "wait" /\ promise = "unset"
    /\ aliveMask = {} /\ ctxValid = TRUE /\ handlerUp = FALSE /\ beating = FALSE
    /\ api = "live"

keepLoop == UNCHANGED loopVars
keepBrc == UNCHANGED brcVars
keepTm == UNCHANGED tmVars

\* Only the worker's position changes.
WorkerGoes(from, to) ==
    /\ wpc = from /\ wpc' = to
    /\ UNCHANGED <<todo, ctl, mainPc, promise, aliveMask, ctxValid, handlerUp, beating, api>>

SetPresence(s, v) ==
    /\ presence' = [presence EXCEPT ![s] = v]
    /\ UNCHANGED <<role, coreVars, loopPc, initDone, first, input, out, supply, taken,
                   offered, iterated>>

SetFlags(f) ==
    /\ flags' = f
    /\ UNCHANGED <<role, reason, incoming, presence, loopPc, initDone, first, input, out,
                   supply, taken, offered, iterated>>

----------------------------------------------------------------------------
(* The worker: startup.                                                    *)

\* Presences, queues, inbox and script engine; running is set last.
SetupSucceeds ==
    /\ WorkerGoes("setup", "start")
    /\ SetFlags(flags \cup {"running"})
    /\ keepBrc /\ keepTm

SetupFails == WorkerGoes("setup", "return") /\ keepLoop /\ keepBrc /\ keepTm

\* start_handler_threads: connect every hub, wire the callbacks, spawn one
\* control thread per connection.
StartHandlerThreads ==
    /\ wpc = "start" /\ wpc' = "register"
    /\ ConnectAll(UsedConns)
    /\ Spawn([i \in 1..Cardinality(UsedConns) |-> CtrlOf[i]])
    /\ ctl' = [c \in Conns |-> IF c \in UsedConns THEN "spawned" ELSE "none"]
    /\ aliveMask' = UsedConns
    /\ handlerUp' = TRUE
    /\ todo' = RegOrder
    /\ UNCHANGED <<mainPc, promise, ctxValid, beating, api>>
    /\ keepLoop

StartHandlerFails == WorkerGoes("start", "return") /\ keepLoop /\ keepBrc /\ keepTm

Registers(s, from) ==
    /\ todo # <<>> /\ Head(todo) = s
    /\ WorkerGoes(from, "regwait")
    /\ DoRequest("worker", ConnOf(s), [kind |-> "reg", side |-> s])
    /\ keepTm

\* register_producer_channel up to the blocking request.
RegisterProducerChannel ==
    /\ Registers("out", "register")
    /\ connected[ConnOf("out")]
    /\ SetPresence("out", "RegRequestPending")

\* register_consumer: a second round, after CHANNEL_NOT_READY, neither tests
\* the connection nor touches the presence.
RegisterConsumer ==
    \/ /\ Registers("in", "register")
       /\ connected[ConnOf("in")]
       /\ SetPresence("in", "RegRequestPending")
    \/ Registers("in", "retry") /\ keepLoop

RegisterRefused ==
    /\ todo # <<>> /\ ~connected[ConnOf(Head(todo))]
    /\ WorkerGoes("register", "abort")
    /\ keepLoop /\ keepBrc /\ keepTm

\* apply_producer_reg_ack / apply_consumer_reg_ack end with an unconditional
\* store of Authorized.
ApplyRegAck ==
    /\ wpc = "apply"
    /\ wpc' = IF Tail(todo) = <<>> THEN "beat" ELSE "register"
    /\ todo' = Tail(todo)
    /\ SetPresence(Head(todo), "Authorized")
    /\ UNCHANGED <<ctl, mainPc, promise, aliveMask, ctxValid, handlerUp, beating, api>>
    /\ keepBrc /\ keepTm

ApplyFails == WorkerGoes("apply", "abort") /\ keepLoop /\ keepBrc /\ keepTm

InstallHeartbeat ==
    /\ wpc = "beat"
    /\ wpc' = IF Writes THEN "finalize" ELSE "ready"
    /\ beating' = TRUE
    /\ UNCHANGED <<todo, ctl, mainPc, promise, aliveMask, ctxValid, handlerUp, api>>
    /\ keepLoop /\ keepBrc /\ keepTm

Cancelled == flags \cap {"shutdown", "critical", "exit"} # {}

\* finalize_channel_connect polls CHECK_PEER_READY until it is ready, a
\* permanent error, its timeout, or a cancellation.
AskPeerReady ==
    /\ ~Cancelled
    /\ WorkerGoes("finalize", "peerwait")
    /\ DoRequest("worker", ConnOf("out"), [kind |-> "peer", side |-> "out"])
    /\ keepLoop /\ keepTm

FinalizeFails ==
    /\ WorkerGoes("finalize", "abort")
    /\ keepLoop /\ keepBrc /\ keepTm

\* The ready promise, then run_data_loop.
EnterDataLoop ==
    /\ wpc = "ready" /\ wpc' = "loop"
    /\ promise' = "true"
    /\ loopPc' = "top"
    /\ UNCHANGED <<role, coreVars, presence, initDone, first, input, out, supply, taken,
                   offered, iterated>>
    /\ UNCHANGED <<todo, ctl, mainPc, aliveMask, ctxValid, handlerUp, beating, api>>
    /\ keepBrc /\ keepTm

RunDataLoop ==
    /\ wpc = "loop" /\ LoopStep
    /\ UNCHANGED hostVars /\ keepBrc /\ keepTm

\* A blocking request from inside the cycle: the channel-auth pull of
\* handle_channel_auth_notifies, or a script calling an api function.
RequestInCycle ==
    /\ loopPc = "invoke" /\ connected[1]
    /\ WorkerGoes("loop", "loopwait")
    /\ DoRequest("worker", 1, [kind |-> "query", side |-> ""])
    /\ keepLoop /\ keepTm

----------------------------------------------------------------------------
(* The worker: the end of a blocking request.                              *)

\* What follows a request of side s that ended with outcome o ("none": timed
\* out): the worker's next position and the state the presence gets.
AfterRegister(s, o) ==
    IF o = "ok" THEN {<<"apply", "Registered">>}
    ELSE {<<"abort", "Unregistered">>} \cup
         (IF o = "notready" /\ s = "in" THEN {<<"retry", presence[s]>>} ELSE {})

AfterPeerReady(s, o) ==
    {<<IF o = "ok" THEN "ready" ELSE IF o = "error" THEN "abort" ELSE "finalize", presence[s]>>}

AfterCall(s, o) ==
    CASE wpc = "regwait"   -> AfterRegister(s, o)
      [] wpc = "peerwait"  -> AfterPeerReady(s, o)
      [] wpc = "deregwait" -> {<<"dereg", "Deregistered">>}
      [] wpc = "loopwait"  -> {<<"loop", presence[s]>>}

CallEnds ==
    /\ wpc \in {"regwait", "peerwait", "deregwait", "loopwait"}
    /\ \E o \in {"ok", "notready", "error", "none"} :
          LET s == IF todo = <<>> THEN "out" ELSE Head(todo) IN
          /\ IF o = "none" THEN GiveUp("worker")
             ELSE TakeReply("worker") /\ call["worker"].reply[1].ok = o
          /\ \E n \in AfterCall(s, o) : wpc' = n[1] /\ SetPresence(s, n[2])
    /\ todo' = IF wpc = "deregwait" THEN Tail(todo) ELSE todo
    /\ UNCHANGED <<ctl, mainPc, promise, aliveMask, ctxValid, handlerUp, beating, api>>
    /\ keepTm

----------------------------------------------------------------------------
(* The worker: do_role_teardown.                                           *)

LeaveDataLoop ==
    /\ wpc = "loop" /\ loopPc = "done"
    /\ wpc' = "dereg" /\ todo' = RegOrder
    /\ UNCHANGED <<ctl, mainPc, promise, aliveMask, ctxValid, handlerUp, beating, api>>
    /\ keepLoop /\ keepBrc /\ keepTm

\* deregister_from_broker.
NeedsDereg(s) == presence[s] \in {"Registered", "RegRequestPending"}

\* deregister_producer_channel, deregister_consumer: nothing happens without a
\* connection, otherwise one request.
Deregister ==
    /\ wpc = "dereg" /\ todo # <<>>
    /\ LET s == Head(todo) IN
       IF NeedsDereg(s) /\ connected[ConnOf(s)]
       THEN /\ wpc' = "deregwait" /\ UNCHANGED todo
            /\ DoRequest("worker", ConnOf(s), [kind |-> "dereg", side |-> s])
       ELSE todo' = Tail(todo) /\ UNCHANGED wpc /\ keepBrc
    /\ UNCHANGED <<ctl, mainPc, promise, aliveMask, ctxValid, handlerUp, beating, api>>
    /\ keepLoop /\ keepTm

\* on_stop and finalize of the engine, then stop_ctrl_for_teardown and
\* set_running(false).
StopCtrl ==
    /\ todo = <<>>
    /\ WorkerGoes("dereg", "ask")
    /\ StopAll(UsedConns)
    /\ SetFlags(flags \ {"running"})
    /\ keepTm

\* teardown_infrastructure_: the entry to stop_handler_threads, after the
\* quiescence wait of do_role_teardown or straight from an aborted startup.
StopHandlerThreads ==
    /\ \/ WorkerGoes("wait", "ask2") /\ Quiescent
       \/ WorkerGoes("abort", "ask2")
    /\ StopAll(UsedConns)
    /\ keepLoop /\ keepTm

\* The first wait may also run into its timeout; so may the second.
QuiescenceExpires ==
    /\ \/ WorkerGoes("wait", "ask2") /\ StopAll(UsedConns)
       \/ WorkerGoes("wait2", "invalidate") /\ keepBrc
    /\ ~Quiescent
    /\ keepLoop /\ keepTm

AskAll ==
    /\ \/ WorkerGoes("ask", "snap")
       \/ WorkerGoes("ask2", "snap2")
    /\ RequestShutdownAll
    /\ keepLoop /\ keepBrc

Snapshot ==
    /\ \/ WorkerGoes("snap", "wait")
       \/ WorkerGoes("snap2", "wait2")
    /\ QuiescenceSnapshot("worker")
    /\ keepLoop /\ keepBrc

HandlersQuiet ==
    /\ Quiescent
    /\ WorkerGoes("wait2", "invalidate")
    /\ keepLoop /\ keepBrc /\ keepTm

\* set_context_invalid.
InvalidateContext ==
    /\ wpc = "invalidate" /\ wpc' = "destroy"
    /\ ctxValid' = FALSE
    /\ UNCHANGED <<todo, ctl, mainPc, promise, aliveMask, handlerUp, beating, api>>
    /\ keepLoop /\ keepBrc /\ keepTm

\* stop_connections and handler_.reset(), then close_queues.
DestroyHandler ==
    /\ wpc = "destroy" /\ wpc' = "return"
    /\ DisconnectAll(UsedConns)
    /\ handlerUp' = FALSE
    /\ UNCHANGED <<todo, ctl, mainPc, promise, aliveMask, ctxValid, beating, api>>
    /\ keepLoop /\ keepTm

\* worker_main_ returns; an aborted startup has set the promise to false.
WorkerReturns ==
    /\ wpc = "return" /\ wpc' = "gone"
    /\ promise' = IF promise = "unset" THEN "false" ELSE promise
    /\ BodyReturns("worker")
    /\ UNCHANGED <<todo, ctl, mainPc, aliveMask, ctxValid, handlerUp, beating, api>>
    /\ keepLoop /\ keepBrc

----------------------------------------------------------------------------
(* The control thread of connection c.                                     *)

KeepHostBut(c, to) ==
    /\ ctl' = [ctl EXCEPT ![c] = to]
    /\ UNCHANGED <<wpc, todo, mainPc, promise, ctxValid, handlerUp, beating, api>>

CtrlEnters(c) ==
    /\ ctl[c] = "spawned"
    /\ KeepHostBut(c, "poll") /\ UNCHANGED aliveMask
    /\ EnterLoop(CtrlOf[c])
    /\ keepLoop /\ keepBrc

Polling(c) == ctl[c] = "poll" /\ handlerUp

CtrlServes(c) ==
    /\ Polling(c)
    /\ DrainCommands(c) \/ ReceiveReply(c) \/ Reap(c)
    /\ UNCHANGED hostVars /\ keepLoop /\ keepTm

\* The notification callback enqueues unless the context is invalid.
CtrlNotified(c) ==
    /\ Polling(c)
    /\ ReceiveNotify(c)
    /\ incoming' = IF ctxValid
                   THEN Enqueued(incoming, [kind |-> Head(fromHub[c]).body.kind, master |-> FALSE])
                   ELSE incoming
    /\ UNCHANGED <<role, flags, reason, presence, loopPc, initDone, first, input, out, supply,
                   taken, offered, iterated>>
    /\ UNCHANGED hostVars /\ keepTm

CtrlSeesDisconnect(c) ==
    /\ Polling(c)
    /\ CheckMonitor(c)
    /\ KeepHostBut(c, "dead") /\ UNCHANGED aliveMask
    /\ keepLoop /\ keepTm

\* The hub-dead callback: at most once per connection and only in a valid
\* context, it takes the connection's presences back to Unregistered
\* (mark_connection_disconnected) and enqueues HUB_DEAD.
CtrlHubDead(c) ==
    /\ ctl[c] = "dead"
    /\ KeepHostBut(c, "poll")
    /\ aliveMask' = aliveMask \ {c}
    /\ IF c \in aliveMask /\ ctxValid
       THEN /\ presence' = [s \in DOMAIN presence |->
                              IF ConnOf(s) = c
                                 /\ presence[s] \in {"Authorized", "Registered", "RegRequestPending"}
                              THEN "Unregistered" ELSE presence[s]]
            /\ incoming' = Enqueued(incoming, [kind |-> "hubdead", master |-> c = 1])
       ELSE UNCHANGED <<presence, incoming>>
    /\ UNCHANGED <<role, flags, reason, loopPc, initDone, first, input, out, supply, taken,
                   offered, iterated>>
    /\ keepBrc /\ keepTm

\* on_heartbeat_tick_, on the master's thread, due only after the loop has
\* completed a cycle: one heartbeat per presence on its own connection.
CtrlBeats ==
    /\ Polling(1) /\ beating /\ iterated
    /\ IF ctxValid THEN SendCommand(UsedConns, [kind |-> "beat", side |-> ""]) ELSE keepBrc
    /\ iterated' = FALSE
    /\ UNCHANGED <<role, coreVars, presence, loopPc, initDone, first, input, out, supply,
                   taken, offered>>
    /\ UNCHANGED hostVars /\ keepTm

\* run_poll_loop ends when the role is not running, the slot was asked to
\* stop, or stop() was called on the connection.
CtrlReturns(c) ==
    /\ ctl[c] = "poll"
    /\ "running" \notin flags \/ CtrlOf[c] \in stopAsked \/ brcStop[c]
    /\ KeepHostBut(c, "gone") /\ UNCHANGED aliveMask
    /\ BodyReturns(CtrlOf[c])
    /\ keepLoop /\ keepBrc

----------------------------------------------------------------------------
(* main(): startup_, run_role_main_loop, shutdown_.                        *)

MainGoes(from, to) ==
    /\ mainPc = from /\ mainPc' = to
    /\ UNCHANGED <<wpc, todo, ctl, promise, aliveMask, ctxValid, handlerUp, beating>>

MainStarted ==
    /\ promise # "unset"
    /\ MainGoes("wait", IF promise = "true" THEN "run" ELSE "shutdown")
    /\ UNCHANGED api /\ keepLoop /\ keepBrc /\ keepTm

\* SIGINT or SIGTERM sets the process-exit flag.
Signal ==
    /\ "exit" \notin flags /\ mainPc \in {"wait", "run"}
    /\ SetFlags(flags \cup {"exit"})
    /\ UNCHANGED hostVars /\ keepBrc /\ keepTm

MainLoopEnds ==
    /\ "exit" \in flags \/ "running" \notin flags
    /\ MainGoes("run", "shutdown")
    /\ UNCHANGED api /\ keepLoop /\ keepBrc /\ keepTm

MainShutdown ==
    /\ MainGoes("shutdown", "drain")
    /\ SetFlags(flags \cup {"shutdown"})
    /\ UNCHANGED api /\ keepBrc /\ keepTm

MainDrains ==
    /\ mainPc = "drain"
    /\ \/ DrainBegin \/ SignalMaster \/ JoinLast \/ JoinExpires
       \/ \E t \in Threads : PeerExpires(t)
    /\ UNCHANGED hostVars /\ keepLoop /\ keepBrc

\* The detach gate of shutdown_: with every detached thread finished the api
\* object is destroyed, at the end of the grace period it is leaked.
MainResets ==
    /\ Drained
    /\ MainGoes("drain", "end")
    /\ api' = IF AllDetachedDone THEN "reset" ELSE "leaked"
    /\ keepLoop /\ keepBrc /\ keepTm

----------------------------------------------------------------------------
(* The hubs and the data sources.                                          *)

HubReplies(c) ==
    /\ \E ok \in Answers : HubAnswers(c, ok)
    /\ UNCHANGED hostVars /\ keepLoop /\ keepTm

HubClosesChannel(c) ==
    /\ HubNotifies(c, [kind |-> "closing", side |-> ""])
    /\ UNCHANGED hostVars /\ keepLoop /\ keepTm

HubDies(c) ==
    /\ LinkDown(c)
    /\ UNCHANGED hostVars /\ keepLoop /\ keepTm

DataArrives ==
    /\ wpc = "loop" /\ RxArrives
    /\ UNCHANGED hostVars /\ keepBrc /\ keepTm

Worker ==
    \/ SetupSucceeds \/ SetupFails \/ StartHandlerThreads \/ StartHandlerFails
    \/ RegisterProducerChannel \/ RegisterConsumer \/ RegisterRefused \/ CallEnds
    \/ ApplyRegAck \/ ApplyFails \/ InstallHeartbeat
    \/ AskPeerReady \/ FinalizeFails
    \/ EnterDataLoop \/ RunDataLoop \/ RequestInCycle \/ LeaveDataLoop
    \/ Deregister \/ StopCtrl
    \/ AskAll \/ Snapshot \/ StopHandlerThreads \/ HandlersQuiet \/ QuiescenceExpires
    \/ InvalidateContext \/ DestroyHandler \/ WorkerReturns

Ctrl(c) ==
    \/ CtrlEnters(c) \/ CtrlServes(c) \/ CtrlNotified(c) \/ CtrlSeesDisconnect(c)
    \/ CtrlHubDead(c) \/ CtrlReturns(c)

Main == MainStarted \/ MainLoopEnds \/ MainShutdown \/ MainDrains \/ MainResets

Hub(c) == HubReplies(c) \/ HubClosesChannel(c) \/ HubDies(c)

Next ==
    \/ Worker \/ Main \/ Signal \/ DataArrives \/ CtrlBeats
    \/ \E c \in Conns : Ctrl(c) \/ Hub(c)

Spec == Init /\ [][Next]_vars

\* Fairness: every thread the process started is scheduled; the hub, the
\* signal and the bounded waits that expire are not owed anything, except
\* that a blocked request and a join do end.
Fairness ==
    /\ WF_vars(Worker) /\ WF_vars(Main)
    /\ \A c \in Conns : WF_vars(Ctrl(c))

FairSpec == Spec /\ Fairness

----------------------------------------------------------------------------
\* Properties.

\* The flags, presences, queues and threads of the process have their types and
\* bounds.
HostTypeOK ==
    /\ ManagerTypeOK
    /\ flags \subseteq {"running", "shutdown", "critical", "exit"}
    /\ incoming \in Seq([kind : {"closing", "hubdead"}, master : BOOLEAN])
    /\ Len(incoming) <= IncomingCap
    /\ presence \in [{"in", "out"} -> {"Unregistered", "RegRequestPending", "Registered",
                                       "Authorized", "Deregistered"}]
    /\ todo \in Seq({"in", "out"})
    /\ ctl \in [Conns -> {"none", "spawned", "poll", "dead", "gone"}]
    /\ promise \in {"unset", "true", "false"} /\ api \in {"live", "reset", "leaked"}

\* So have the queues, tables and calls of its request channels.
RequestTypeOK ==
    /\ cmds \in [Conns -> Seq(Command)] /\ \A c \in Conns : Len(cmds[c]) <= CmdDepth
    /\ toHub \in [Conns -> Seq(Command)]
    /\ fromHub \in [Conns -> Seq(Frame)]
    /\ pendingReq \in [Conns -> SUBSET (Nat \ {0})]
    /\ nextId \in Nat \ {0}
    /\ call \in [Callers -> Call]

RoleTypeOK == HostTypeOK /\ RequestTypeOK

\* The master control thread serves the worker's blocking requests for as long
\* as the worker may issue them: it leaves its poll loop while the worker
\* waits on its connection only if drain() ran out of patience with the worker.
MasterServesWorker ==
    (ctl[1] = "gone" /\ call["worker"].st = "waiting" /\ call["worker"].conn = 1)
        => "worker" \in overdue

\* shutdown_() destroys the api object only when no thread of the process is
\* left to touch it; otherwise it leaks it.
ApiOutlivesThreads ==
    api = "reset" => {"worker"} \cup {CtrlOf[c] : c \in {d \in Conns : ctl[d] # "none"}} \subseteq done

\* What the role process keeps, together: its types and bounds, the slots and
\* inputs of the data loop, the master thread for as long as the worker needs
\* it, and the api object for as long as a thread may touch it.
RoleIsSound ==
    /\ RoleTypeOK
    /\ SlotsAreReturned /\ BlockModeOffersEveryInput
    /\ MasterServesWorker /\ ApiOutlivesThreads

\* Once do_role_teardown has waited for quiescence it may destroy the handler:
\* no control thread is inside its active-loop bracket, where it runs the poll
\* loop of a BrokerRequestComm the handler owns (the comment at Step 13).
HandlerOutlivesCtrl ==
    (promise = "true" /\ ~handlerUp) => inLoop \cap {CtrlOf[c] : c \in Conns} = {}

\* A worker that ran its data loop and its teardown leaves no presence behind
\* as Authorized.
DepartedIsDeregistered ==
    (promise = "true" /\ wpc = "gone") => \A s \in Sides(role) : presence[s] # "Authorized"

\* A stop, whoever asked for it, ends the worker: in whatever step the request
\* finds it, it runs through its teardown and returns.
StopEnds == (flags \cap {"shutdown", "critical", "exit"} # {}) ~> ("worker" \in done)

\* A role whose hubs are all gone leaves its data loop.
HubDeathEndsLoop == (wpc = "loop" /\ aliveMask = {}) ~> (wpc # "loop")
=============================================================================
