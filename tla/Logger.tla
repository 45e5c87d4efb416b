------------------------------- MODULE Logger -------------------------------
(***************************************************************************)
(* The asynchronous logger: threads queue messages and control commands,   *)
(* one worker swaps the queue out and serves it batch by batch, a second   *)
(* thread runs the error callbacks, and shutdown() drains both.            *)
(*                                                                         *)
(* A control command carries a promise its caller waits for.  The sink     *)
(* switch of a batch is applied after the whole batch was written.         *)
(* shutdown() raises its flag and notifies without the queue mutex, so a   *)
(* worker between its test and its sleep does not hear it.                 *)
(*                                                                         *)
(* Messages are numbered per thread and taken to be above the level        *)
(* filter; the text, the timestamps and the kinds of sink are left out.    *)
(***************************************************************************)
EXTENDS Naturals, Sequences, FiniteSets, SequencesExt

CONSTANTS
    Users,      \* threads that log
    MaxQueue    \* m_max_queue_size, the soft limit

VARIABLES
    state,      \* g_logger_state
    stop,       \* shutdown_requested_
    queue,      \* queue_
    drop,       \* m_was_dropping, m_messages_dropped, m_total_dropped_...
    worker,     \* the worker thread and its local_queue
    sink,       \* the sinks in order of creation: the one in use, the newest
    written,    \* what the sinks received
    lost,       \* messages whose write threw
    user,       \* each thread: its messages, its call and the promise
    callbacks,  \* CallbackDispatcher: queued callbacks and its thread
    closer      \* the thread in Logger::Impl::shutdown

vars == <<state, stop, queue, drop, worker, sink, written, lost, user, callbacks, closer>>

Controls == {"flush", "sink", "sinkError", "callback"}
NoCommand == [kind |-> "none", from |-> "none", id |-> 0]

Messages(s) == {s[i] : i \in {i \in DOMAIN s : s[i].kind = "message"}}
Accepted == UNION {user[u].accepted : u \in Users}
WrittenMessages == {w.message : w \in written}

Init ==
    /\ state = "initialized" /\ stop = FALSE
    /\ queue = <<>>
    /\ drop = [on |-> FALSE, count |-> 0, total |-> 0]
    /\ worker = [pc |-> "top", batch |-> <<>>, switch |-> NoCommand]
    /\ sink = [inUse |-> 0, newest |-> 0] /\ written = {} /\ lost = {}
    /\ user = [u \in Users |-> [sent |-> 0, call |-> "none", promise |-> "none",
                                accepted |-> {}, covers |-> {}, asked |-> 0, sink |-> 0]]
    /\ callbacks = [installed |-> FALSE, queued |-> 0, pc |-> "top", stop |-> FALSE]
    /\ closer = "no"

----------------------------------------------------------------------------
(* The worker holds queue_mutex_ between the test of its wait and the      *)
(* moment it sleeps.                                                       *)
QueueFree == worker.pc # "falling"
(* Variant: nobody wakes the worker. *)
NotWoken == worker

Woken == IF worker.pc = "asleep" THEN [worker EXCEPT !.pc = "top"] ELSE worker

(* enqueue_command: refused once stopping, at twice the limit for every    *)
(* command and at the limit for messages.                                  *)
Full(cmd) ==
    \/ Len(queue) >= 2 * MaxQueue
    \/ Len(queue) >= MaxQueue /\ cmd.kind = "message"

Enqueue(cmd) ==
    /\ QueueFree
    /\ queue' = IF stop \/ Full(cmd) THEN queue ELSE Append(queue, cmd)
    /\ worker' = IF stop \/ Full(cmd) THEN worker ELSE Woken
    /\ drop' = IF ~stop /\ Full(cmd)
                 THEN [on |-> TRUE, count |-> drop.count + 1, total |-> drop.total + 1]
                 ELSE drop

(* enqueue_log. *)
LogMessage(u) ==
    /\ user[u].call = "none" /\ state = "initialized"
    /\ LET m == [kind |-> "message", from |-> u, n |-> user[u].sent + 1, after |-> user[u].sink]
       IN /\ Enqueue(m)
          /\ user' = [user EXCEPT ![u].sent = @ + 1,
                        ![u].accepted = IF stop \/ Full(m) THEN @ ELSE @ \cup {m}]
    /\ UNCHANGED <<state, stop, sink, written, lost, callbacks, closer>>

(* set_logfile and its kin, flush, set_write_error_callback: the command   *)
(* is queued and the caller waits for the promise; a refused command has   *)
(* its promise set to false at once.                                       *)
Control(u, kind) ==
    /\ user[u].call = "none" /\ state = "initialized"
    /\ LET id == IF kind = "sink" THEN sink.newest + 1 ELSE 0
           cmd == [kind |-> kind, from |-> u, id |-> id]
       IN /\ Enqueue(cmd)
          /\ user' = [user EXCEPT ![u].call = kind,
                        ![u].promise = IF stop \/ Full(cmd) THEN "false" ELSE "open",
                        ![u].covers = Accepted, ![u].asked = id]
          /\ sink' = IF kind = "sink" THEN [sink EXCEPT !.newest = id] ELSE sink
    /\ UNCHANGED <<state, stop, written, lost, callbacks, closer>>

(* future.get(): a sink switch that was confirmed binds the later messages *)
(* of the thread to the new sink.                                          *)
ControlReturns(u) ==
    /\ user[u].promise \in {"true", "false", "broken"}
    /\ user' = [user EXCEPT ![u].call = "none", ![u].promise = "none", ![u].covers = {},
                  ![u].sink = IF user[u].call = "sink" /\ user[u].promise = "true"
                                THEN user[u].asked ELSE @]
    /\ UNCHANGED <<state, stop, queue, drop, worker, sink, written, lost, callbacks, closer>>

(* write_sync: past the queue, straight to the sink in use. *)
WriteSync(u) ==
    /\ user[u].call = "none" /\ state = "initialized"
    /\ user' = [user EXCEPT ![u].sent = @ + 1]
    /\ written' = written \cup {[sink |-> sink.inUse, message |->
         [kind |-> "sync", from |-> u, n |-> user[u].sent + 1, after |-> user[u].sink]]}
    /\ UNCHANGED <<state, stop, queue, drop, worker, sink, lost, callbacks, closer>>

----------------------------------------------------------------------------
(* worker_loop, the wait: the predicate is tested under the mutex, which   *)
(* the sleep releases.                                                     *)
WorkerFalls ==
    /\ worker.pc = "top" /\ queue = <<>> /\ ~stop
    /\ worker' = [worker EXCEPT !.pc = "falling"]
    /\ UNCHANGED <<state, stop, queue, drop, sink, written, lost, user, callbacks, closer>>

WorkerSleeps ==
    /\ worker.pc = "falling"
    /\ worker' = [worker EXCEPT !.pc = "asleep"]
    /\ UNCHANGED <<state, stop, queue, drop, sink, written, lost, user, callbacks, closer>>

(* The last SetSink of a batch is the one that will be applied. *)
LastSwitch(batch) ==
    LET switches == SelectSeq(batch, LAMBDA c : c.kind = "sink")
    IN IF switches = <<>> THEN NoCommand ELSE switches[Len(switches)]

ServiceOrder(batch) == batch

(* ... the swap; the drop episode ends and is reported with this batch. *)
WorkerSwaps ==
    /\ worker.pc = "top" /\ (queue # <<>> \/ stop)
    /\ worker' = [pc |-> "batch", batch |-> ServiceOrder(queue), switch |-> LastSwitch(queue)]
    /\ queue' = <<>>
    /\ drop' = IF drop.on THEN [drop EXCEPT !.on = FALSE, !.count = 0] ELSE drop
    /\ state' = IF stop THEN "shuttingDown" ELSE state
    /\ UNCHANGED <<stop, sink, written, lost, user, callbacks, closer>>

Resolve(u, answer) == [user EXCEPT ![u].promise = answer]

(* CallbackDispatcher::post. *)
Posted(installed) ==
    IF ~installed \/ callbacks.stop THEN callbacks
    ELSE [callbacks EXCEPT !.queued = @ + 1,
                           !.pc = IF @ \in {"falling", "asleep"} THEN "top" ELSE @]

(* ... one command of the batch.  A sink that throws loses the message, or *)
(* leaves the promise of a flush unset until the batch is destroyed.       *)
ServeMessage(c) ==
    /\ c.kind = "message"
    /\ \/ written' = written \cup {[sink |-> sink.inUse, message |-> c]}
          /\ UNCHANGED <<lost, callbacks>>
       \/ lost' = lost \cup {c} /\ callbacks' = Posted(callbacks.installed)
          /\ UNCHANGED written
    /\ UNCHANGED <<user>>

ServeControl(c) ==
    /\ c.kind \in Controls
    /\ CASE c.kind = "sink" ->
              /\ user' = IF c = worker.switch THEN user ELSE Resolve(c.from, "false")
              /\ UNCHANGED callbacks
         [] c.kind = "sinkError" ->
              /\ user' = Resolve(c.from, "false")
              /\ callbacks' = Posted(callbacks.installed)
         [] c.kind = "flush" ->
              \E fails \in BOOLEAN :
                /\ user' = Resolve(c.from, IF fails THEN "broken" ELSE "true")
                /\ callbacks' = IF fails THEN Posted(callbacks.installed) ELSE callbacks
         [] c.kind = "callback" ->
              /\ user' = Resolve(c.from, "true")
              /\ callbacks' = [callbacks EXCEPT !.installed = TRUE]
    /\ UNCHANGED <<written, lost>>

WorkerServes ==
    /\ worker.pc = "batch" /\ worker.batch # <<>>
    /\ LET c == Head(worker.batch) IN ServeMessage(c) \/ ServeControl(c)
    /\ worker' = [worker EXCEPT !.batch = Tail(@)]
    /\ UNCHANGED <<state, stop, queue, drop, sink, closer>>

(* ... the sink switch, after the batch. *)
SwitchSink ==
    /\ sink' = [sink EXCEPT !.inUse = worker.switch.id]
    /\ drop' = [drop EXCEPT !.total = 0]
    /\ user' = Resolve(worker.switch.from, "true")

WorkerSwitches ==
    /\ worker.pc = "batch" /\ worker.batch = <<>> /\ worker.switch # NoCommand
    /\ SwitchSink
    /\ worker' = [worker EXCEPT !.switch = NoCommand]
    /\ UNCHANGED <<state, stop, queue, written, lost, callbacks, closer>>

(* Variant: the worker leaves with commands still queued. *)
LeavesAtOnce == stop /\ state \in {"shuttingDown", "shutdown"}

(* ... the end of an iteration: once stopping, the queue is looked at      *)
(* again under the mutex, and only an empty one ends the worker.           *)
Leaves == stop /\ state \in {"shuttingDown", "shutdown"} /\ queue = <<>>

WorkerEndsBatch ==
    /\ worker.pc = "batch" /\ worker.batch = <<>> /\ worker.switch = NoCommand
    /\ IF Leaves
         THEN /\ worker' = [worker EXCEPT !.pc = "done"]
              /\ queue' = <<>> /\ state' = "shutdown"
         ELSE /\ worker' = [worker EXCEPT !.pc = "top"]
              /\ UNCHANGED <<queue, state>>
    /\ UNCHANGED <<stop, drop, sink, written, lost, user, callbacks, closer>>

----------------------------------------------------------------------------
(* CallbackDispatcher::run. *)
DispatcherRuns ==
    /\ callbacks.pc = "top"
    /\ callbacks' =
         IF callbacks.queued > 0 THEN [callbacks EXCEPT !.queued = @ - 1]
         ELSE [callbacks EXCEPT !.pc = IF callbacks.stop THEN "done" ELSE "falling"]
    /\ UNCHANGED <<state, stop, queue, drop, worker, sink, written, lost, user, closer>>

DispatcherSleeps ==
    /\ callbacks.pc = "falling"
    /\ callbacks' = [callbacks EXCEPT !.pc = "asleep"]
    /\ UNCHANGED <<state, stop, queue, drop, worker, sink, written, lost, user, closer>>

(* do_logger_shutdown and Logger::Impl::shutdown: the flag and the wake-up *)
(* take no mutex; then the two joins.                                      *)
ShutdownFlag ==
    /\ closer = "no" /\ state = "initialized"
    /\ state' = "shuttingDown" /\ stop' = TRUE
    /\ worker' = Woken
    /\ closer' = "joinWorker"
    /\ UNCHANGED <<queue, drop, sink, written, lost, user, callbacks>>

ShutdownJoins ==
    \/ /\ closer = "joinWorker" /\ worker.pc = "done"
       /\ callbacks' = [callbacks EXCEPT !.stop = TRUE, !.pc = IF @ = "asleep" THEN "top" ELSE @]
       /\ closer' = "joinDispatcher"
       /\ UNCHANGED <<state, stop, queue, drop, worker, sink, written, lost, user>>
    \/ /\ closer = "joinDispatcher" /\ callbacks.pc = "done"
       /\ closer' = "done"
       /\ UNCHANGED <<state, stop, queue, drop, worker, sink, written, lost, user, callbacks>>

----------------------------------------------------------------------------
UserCalls(u) ==
    LogMessage(u) \/ WriteSync(u) \/ (\E kind \in Controls : Control(u, kind))

WorkerSteps ==
    WorkerFalls \/ WorkerSleeps \/ WorkerSwaps \/ WorkerServes \/ WorkerSwitches \/ WorkerEndsBatch

DispatcherSteps == DispatcherRuns \/ DispatcherSleeps

Next ==
    \/ \E u \in Users : UserCalls(u) \/ ControlReturns(u)
    \/ WorkerSteps \/ DispatcherSteps
    \/ ShutdownFlag \/ ShutdownJoins

Spec == Init /\ [][Next]_vars

Fairness ==
    /\ WF_vars(WorkerSteps) /\ WF_vars(DispatcherSteps) /\ WF_vars(ShutdownJoins)
    /\ \A u \in Users : WF_vars(ControlReturns(u))

FairSpec == Spec /\ Fairness

----------------------------------------------------------------------------
(* A message enqueue_log() accepted is never lost in the hand-over: it is  *)
(* queued, in the batch, written, or its write threw; nothing is left      *)
(* behind when the worker ends.                                            *)
AcceptedIsKept ==
    Accepted = Messages(queue) \cup Messages(worker.batch) \cup lost
                 \cup {m \in WrittenMessages : m.kind = "message"}

(* flush() that succeeds covers every message any thread had queued before *)
(* it.                                                                     *)
FlushCovers ==
    \A u \in Users :
        user[u].call = "flush" /\ user[u].promise = "true" =>
            user[u].covers \subseteq WrittenMessages \cup lost

(* A thread whose set_logfile() returned true sees its later messages in   *)
(* that sink or a newer one, never in the one it replaced.                 *)
SwitchHolds ==
    \A w \in written : w.sink >= w.message.after

(* Every control call returns, also when shutdown() races it.              *)
CallsReturn ==
    \A u \in Users : user[u].call # "none" ~> user[u].call = "none"

(* shutdown() ends: the worker and the dispatcher hear its flag.           *)
ShutdownEnds == closer = "joinWorker" ~> closer = "done"
=============================================================================
