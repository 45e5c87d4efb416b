--------------------------- MODULE BrokerRequest ---------------------------
(***************************************************************************)
(* The role's request channel to a hub (broker_request_comm.cpp on top of  *)
(* monitored_queue.hpp and zmq_poll_loop.hpp).  Callers on any thread push *)
(* commands into a bounded queue; one control thread per connection drains *)
(* it to the DEALER socket, matches replies to the pending requests by     *)
(* correlation id, hands notifications on, and watches the socket monitor  *)
(* for the disconnect that means the hub is gone.  A caller blocks until   *)
(* its own reply or its timeout, and abandons the request on timeout.      *)
(*                                                                         *)
(* Message bodies are opaque records; the fields used here are id (the     *)
(* correlation id, 0 for a message that expects no reply), reply and body. *)
(***************************************************************************)
EXTENDS Naturals, Sequences, FiniteSets

CONSTANTS Conns,      \* the connections of the process
          Callers,    \* the threads that issue requests
          CmdDepth    \* MonitoredQueue::Config::max_depth

ASSUME DepthAssumption == CmdDepth \in Nat \ {0}

VARIABLES connected,  \* Impl::connected, the flag callers and senders test
          brcStop,    \* Impl::stop_requested
          link,       \* the transport: "none", "up", "down"
          monitor,    \* a ZMQ_EVENT_DISCONNECTED waits on the monitor socket
          cmds,       \* cmd_queue
          pendingReq, \* pending_requests: correlation ids
          toHub,      \* frames handed to the socket, not yet seen by the hub
          fromHub,    \* frames from the hub, not yet received
          call,       \* the blocking call of each caller
          abandoned,  \* requests whose caller timed out and that still exist
          nextId      \* fresh correlation ids

brcVars == <<connected, brcStop, link, monitor, cmds, pendingReq, toHub, fromHub,
             call, abandoned, nextId>>

NoBody == [kind |-> "", side |-> ""]
NoCall == [st |-> "idle", conn |-> 0, id |-> 0, body |-> NoBody, reply |-> <<>>]

RequestInit ==
    /\ connected = [c \in Conns |-> FALSE]
    /\ brcStop = [c \in Conns |-> FALSE]
    /\ link = [c \in Conns |-> "none"]
    /\ monitor = [c \in Conns |-> FALSE]
    /\ cmds = [c \in Conns |-> <<>>]
    /\ pendingReq = [c \in Conns |-> {}]
    /\ toHub = [c \in Conns |-> <<>>]
    /\ fromHub = [c \in Conns |-> <<>>]
    /\ call = [k \in Callers |-> NoCall]
    /\ abandoned = {}
    /\ nextId = 1

\* BrokerRequestComm::connect for every connection of the handler.
ConnectAll(cs) ==
    /\ connected' = [c \in Conns |-> connected[c] \/ c \in cs]
    /\ brcStop' = [c \in Conns |-> brcStop[c] /\ c \notin cs]
    /\ link' = [c \in Conns |-> IF c \in cs THEN "up" ELSE link[c]]
    /\ UNCHANGED <<monitor, cmds, pendingReq, toHub, fromHub, call, abandoned, nextId>>

\* MonitoredQueue::push drops the oldest command of a full queue.
Pushed(q, cmd) == IF Len(q) >= CmdDepth THEN Append(Tail(q), cmd) ELSE Append(q, cmd)

\* do_request_multi up to the wait on the condition variable.
DoRequest(k, c, body) ==
    /\ call[k].st = "idle"
    /\ cmds' = [cmds EXCEPT ![c] = Pushed(@, [id |-> nextId, body |-> body])]
    /\ call' = [call EXCEPT ![k] = [st |-> "waiting", conn |-> c, id |-> nextId,
                                    body |-> body, reply |-> <<>>]]
    /\ nextId' = nextId + 1
    /\ UNCHANGED <<connected, brcStop, link, monitor, pendingReq, toHub, fromHub, abandoned>>

\* send_heartbeat, send_broadcast, band_broadcast, send_checksum_error: a
\* command that expects no reply, for each connection of cs.
SendCommand(cs, body) ==
    /\ cmds' = [c \in Conns |->
                  IF c \in cs THEN Pushed(cmds[c], [id |-> 0, body |-> body]) ELSE cmds[c]]
    /\ UNCHANGED <<connected, brcStop, link, monitor, pendingReq, toHub, fromHub, call,
                   abandoned, nextId>>

\* The caller takes its reply and goes on.
TakeReply(k) ==
    /\ call[k].st = "answered"
    /\ call' = [call EXCEPT ![k] = NoCall]
    /\ UNCHANGED <<connected, brcStop, link, monitor, cmds, pendingReq, toHub, fromHub,
                   abandoned, nextId>>

\* cv.wait_for expires: the request is marked abandoned, the caller gets nullopt.
GiveUp(k) ==
    /\ call[k].st = "waiting"
    /\ abandoned' = abandoned \cup {call[k].id}
    /\ call' = [call EXCEPT ![k] = NoCall]
    /\ UNCHANGED <<connected, brcStop, link, monitor, cmds, pendingReq, toHub, fromHub, nextId>>

----------------------------------------------------------------------------
(* The control thread.                                                     *)

\* drain_command_queue: every request becomes pending, whether or not the
\* frame can be sent; a frame is suppressed once connected is false and lost
\* on a transport that is down.
DrainCommands(c) ==
    /\ cmds[c] # <<>>
    /\ pendingReq' = [pendingReq EXCEPT ![c] =
                        @ \cup ({cmds[c][i].id : i \in 1..Len(cmds[c])} \ {0})]
    /\ toHub' = [toHub EXCEPT ![c] = IF connected[c] /\ link[c] = "up" THEN @ \o cmds[c] ELSE @]
    /\ cmds' = [cmds EXCEPT ![c] = <<>>]
    /\ UNCHANGED <<connected, brcStop, link, monitor, fromHub, call, abandoned, nextId>>

\* Variant: a reply is handed to whichever caller is waiting on the connection.
AnsweredByConnection(c, m) == {k \in Callers : call[k].st = "waiting" /\ call[k].conn = c}

\* The caller a reply wakes: an id that is not pending is counted and dropped,
\* an abandoned one is dropped.
Answered(c, m) ==
    {k \in Callers : /\ call[k].st = "waiting" /\ call[k].id = m.id
                     /\ m.id \in pendingReq[c] \ abandoned}

\* recv_and_dispatch of a reply.
ReceiveReply(c) ==
    /\ fromHub[c] # <<>>
    /\ LET m == Head(fromHub[c]) IN
       /\ m.id # 0
       /\ pendingReq' = [pendingReq EXCEPT ![c] = @ \ {m.id}]
       /\ call' = [k \in Callers |->
                     IF k \in Answered(c, m)
                     THEN [st |-> "answered", conn |-> call[k].conn, id |-> m.id,
                           body |-> call[k].body, reply |-> <<m>>]
                     ELSE call[k]]
       /\ abandoned' = abandoned \ {m.id}
    /\ fromHub' = [fromHub EXCEPT ![c] = Tail(@)]
    /\ UNCHANGED <<connected, brcStop, link, monitor, cmds, toHub, nextId>>

\* recv_and_dispatch of a notification (the callback is the composing module's).
ReceiveNotify(c) ==
    /\ fromHub[c] # <<>>
    /\ Head(fromHub[c]).id = 0
    /\ fromHub' = [fromHub EXCEPT ![c] = Tail(@)]
    /\ UNCHANGED <<connected, brcStop, link, monitor, cmds, pendingReq, toHub, call,
                   abandoned, nextId>>

\* reap_abandoned_requests, the periodic task every poll loop carries.
Reap(c) ==
    /\ pendingReq[c] \cap abandoned # {}
    /\ pendingReq' = [pendingReq EXCEPT ![c] = @ \ abandoned]
    /\ abandoned' = abandoned \ pendingReq[c]
    /\ UNCHANGED <<connected, brcStop, link, monitor, cmds, toHub, fromHub, call, nextId>>

\* check_monitor: connected is cleared before the hub-dead callback runs.
CheckMonitor(c) ==
    /\ monitor[c]
    /\ monitor' = [monitor EXCEPT ![c] = FALSE]
    /\ connected' = [connected EXCEPT ![c] = FALSE]
    /\ UNCHANGED <<brcStop, link, cmds, pendingReq, toHub, fromHub, call, abandoned, nextId>>

\* stop(): the flag and a wake-up frame for the poll.
StopAll(cs) ==
    /\ brcStop' = [c \in Conns |-> brcStop[c] \/ c \in cs]
    /\ UNCHANGED <<connected, link, monitor, cmds, pendingReq, toHub, fromHub, call,
                   abandoned, nextId>>

\* disconnect() and the destructor: the sockets, the queue and the table go.
DisconnectAll(cs) ==
    /\ brcStop' = [c \in Conns |-> brcStop[c] \/ c \in cs]
    /\ connected' = [c \in Conns |-> connected[c] /\ c \notin cs]
    /\ link' = [c \in Conns |-> IF c \in cs THEN "none" ELSE link[c]]
    /\ monitor' = [c \in Conns |-> monitor[c] /\ c \notin cs]
    /\ cmds' = [c \in Conns |-> IF c \in cs THEN <<>> ELSE cmds[c]]
    /\ pendingReq' = [c \in Conns |-> IF c \in cs THEN {} ELSE pendingReq[c]]
    /\ toHub' = [c \in Conns |-> IF c \in cs THEN <<>> ELSE toHub[c]]
    /\ fromHub' = [c \in Conns |-> IF c \in cs THEN <<>> ELSE fromHub[c]]
    /\ abandoned' = abandoned \ UNION {pendingReq[c] : c \in cs}
    /\ UNCHANGED <<call, nextId>>

----------------------------------------------------------------------------
(* The transport and the hub's end of it.                                  *)

\* The hub's socket goes away: what it had not read is lost, what it had
\* sent may still be read, and the monitor reports the disconnect.
LinkDown(c) ==
    /\ link[c] = "up"
    /\ link' = [link EXCEPT ![c] = "down"]
    /\ toHub' = [toHub EXCEPT ![c] = <<>>]
    /\ monitor' = [monitor EXCEPT ![c] = TRUE]
    /\ UNCHANGED <<connected, brcStop, cmds, pendingReq, fromHub, call, abandoned, nextId>>

\* The hub takes one frame and, for a request, answers with `ok`.
HubAnswers(c, ok) ==
    /\ link[c] = "up" /\ toHub[c] # <<>>
    /\ LET m == Head(toHub[c]) IN
       fromHub' = [fromHub EXCEPT ![c] =
                     IF m.id = 0 THEN @
                     ELSE Append(@, [id |-> m.id, body |-> m.body, ok |-> ok])]
    /\ toHub' = [toHub EXCEPT ![c] = Tail(@)]
    /\ UNCHANGED <<connected, brcStop, link, monitor, cmds, pendingReq, call, abandoned, nextId>>

HubNotifies(c, body) ==
    /\ link[c] = "up"
    /\ fromHub' = [fromHub EXCEPT ![c] = Append(@, [id |-> 0, body |-> body, ok |-> "ok"])]
    /\ UNCHANGED <<connected, brcStop, link, monitor, cmds, pendingReq, toHub, call,
                   abandoned, nextId>>

----------------------------------------------------------------------------
\* Properties.

\* A blocking call returns the reply to its own request: a late reply to an
\* earlier, abandoned request never answers a later one (the correlation-id
\* match and the abandoned mark of recv_and_dispatch).
RepliesMatchCalls ==
    \A k \in Callers : call[k].st = "answered" => call[k].reply[1].body = call[k].body
                                               /\ call[k].reply[1].id = call[k].id

\* Nothing leaks in the pending table: every entry belongs to a call that is
\* still waiting or to one that was abandoned and will be reaped.
PendingIsAccounted ==
    \A c \in Conns : \A i \in pendingReq[c] :
        i \in abandoned \/ \E k \in Callers : call[k].id = i /\ call[k].st = "waiting"

\* Both at once: a blocking do_request gets its own reply or none, and leaves
\* nothing behind.
RequestsAreAccounted == RepliesMatchCalls /\ PendingIsAccounted
=============================================================================
