-------------------------------- MODULE Inbox --------------------------------
(***************************************************************************)
(* Role-to-role messages (src/src/utils/hub/hub_inbox_queue.cpp,           *)
(* src/src/include/utils/replay_guard.hpp, and the role API's              *)
(* open_inbox_client and drain_inbox_sync).  A sender's InboxClient is a   *)
(* DEALER socket: it numbers its frames, stamps them with its clock and a  *)
(* nonce, and waits for a one-byte acknowledgement or does not.  The       *)
(* receiver's InboxQueue is a ROUTER socket that admits the senders of its *)
(* roster, rejects frames that are stale, seen before or malformed, counts *)
(* the gaps in a sender's numbers, hands the rest to on_inbox and          *)
(* acknowledges them.                                                      *)
(*                                                                         *)
(* A nonce is a pair of sender and item; a payload is "good", carries      *)
(* another schema's tag, or does not hash to its checksum.  Clocks tick in *)
(* units small enough to tell the skew tolerance and the window apart.     *)
(***************************************************************************)
EXTENDS Integers, Sequences, FiniteSets

CONSTANTS Senders,    \* roles that send to this inbox
          Items,      \* items a sender may send, 0 .. n
          Payloads,   \* subset of {"good", "tag", "sum"}
          Skew,       \* kInboxReplaySkewMs
          Window,     \* kInboxReplayWindowMs
          Ahead,      \* how far a sender's wall clock may be ahead (or behind)
          MaxClock,   \* bound of the clock
          NoSender

VARIABLES clock,      \* the receiver's clock, monotonic and wall
          client,     \* per sender: program counter, sequence number, last result
          link,       \* per sender: is the connection up?
          out, inq,   \* frames queued at the sender, at the receiver
          acks,       \* acknowledgements on their way back
          taken,      \* frames recv_one has taken, which may come again
          roster,     \* allowlist_: the senders the receiver knows
          inbox       \* the InboxQueue

netVars == <<link, out, inq, acks, taken>>
inboxVars == <<clock, client, netVars, roster, inbox>>

NoItem == -1
NoSeq == -1

ClosedClient == [pc |-> "closed", seq |-> 0, sent |-> 0, item |-> NoItem,
                 result |-> "none", ahead |-> 0, waited |-> FALSE]

Init ==
    /\ clock = 0
    /\ client = [s \in Senders |-> ClosedClient]
    /\ link = [s \in Senders |-> FALSE]
    /\ out = [s \in Senders |-> <<>>]
    /\ inq = [s \in Senders |-> <<>>]
    /\ acks = [s \in Senders |-> <<>>]
    /\ taken = [s \in Senders |-> {}]
    /\ roster = {}
    /\ inbox = [running |-> FALSE, current |-> NoSender, item |-> NoItem,
                expected |-> [s \in Senders |-> NoSeq],
                first |-> [s \in Senders |-> NoSeq],
                nonces |-> {}, gaps |-> [s \in Senders |-> 0],
                tracked |-> [s \in Senders |-> 0],
                delivered |-> [s \in Senders |-> <<>>]]

Tick ==
    /\ clock < MaxClock
    /\ clock' = clock + 1
    /\ UNCHANGED <<client, netVars, roster, inbox>>

-----------------------------------------------------------------------------
(* The receiver's socket *)

\* start(): the ROUTER socket is armed, its ZAP domain registered, and bound.
StartInbox ==
    /\ ~inbox.running
    /\ inbox' = [inbox EXCEPT !.running = TRUE]
    /\ UNCHANGED <<clock, client, netVars, roster>>

\* stop(): the socket closes with linger 0; what it had queued is gone.  What
\* the object remembers of its senders stays.
StopInbox ==
    /\ inbox.running /\ inbox.current = NoSender
    /\ inbox' = [inbox EXCEPT !.running = FALSE]
    /\ link' = [s \in Senders |-> FALSE]
    /\ inq' = [s \in Senders |-> <<>>]
    /\ acks' = [s \in Senders |-> <<>>]
    /\ UNCHANGED <<clock, client, out, taken, roster>>

\* set_peer_allowlist, from the roster a registration reply carries.  Without
\* one nobody is admitted.
SeedRoster(s) ==
    /\ s \notin roster
    /\ roster' = roster \cup {s}
    /\ UNCHANGED <<clock, client, netVars, inbox>>

\* The connection of a started client comes up when the receiver's ZAP check
\* admits the sender.
Connect(s) ==
    /\ client[s].pc # "closed" /\ inbox.running /\ ~link[s]
    /\ s \in roster
    /\ link' = [link EXCEPT ![s] = TRUE]
    /\ UNCHANGED <<clock, client, out, inq, acks, taken, roster, inbox>>

\* It breaks; the frame in flight and acknowledgements may be lost.
LinkBreaks(s) ==
    /\ link[s]
    /\ link' = [link EXCEPT ![s] = FALSE]
    /\ \/ UNCHANGED out
       \/ out[s] # <<>> /\ out' = [out EXCEPT ![s] = Tail(@)]
    /\ acks' \in {acks, [acks EXCEPT ![s] = <<>>]}
    /\ UNCHANGED <<clock, client, inq, taken, roster, inbox>>

Transfer(s) ==
    /\ link[s] /\ out[s] # <<>>
    /\ inq' = [inq EXCEPT ![s] = Append(@, Head(out[s]))]
    /\ out' = [out EXCEPT ![s] = Tail(@)]
    /\ UNCHANGED <<clock, client, link, acks, taken, roster, inbox>>

\* A frame the receiver took before arrives once more.
Duplicate(s) ==
    /\ inbox.running
    /\ \E f \in taken[s] : inq' = [inq EXCEPT ![s] = Append(@, f)]
    /\ UNCHANGED <<clock, client, link, out, acks, taken, roster, inbox>>

-----------------------------------------------------------------------------
(* The sender *)

\* open_inbox_client on a cache miss, then InboxClient::start; the sequence
\* number of a new client starts at 0.
OpenInboxClient(s) ==
    /\ client[s].pc = "closed"
    /\ \E d \in {-Ahead, 0, Ahead} :
          client' = [client EXCEPT ![s] = [@ EXCEPT !.pc = "idle", !.seq = 0, !.ahead = d,
                                                    !.item = NoItem, !.result = "none"]]
    /\ UNCHANGED <<clock, netVars, roster, inbox>>

\* stop(): the socket closes with linger 0.
CloseInboxClient(s) ==
    /\ client[s].pc = "idle"
    /\ client' = [client EXCEPT ![s].pc = "closed"]
    /\ link' = [link EXCEPT ![s] = FALSE]
    /\ out' = [out EXCEPT ![s] = <<>>]
    /\ acks' = [acks EXCEPT ![s] = <<>>]
    /\ UNCHANGED <<clock, inq, taken, roster, inbox>>

\* send(): the frame is numbered, stamped and queued; with a timeout of 0 the
\* call returns 0 at once.
Send(s, payload, wait) ==
    /\ client[s].pc = "idle" /\ client[s].sent \in Items
    /\ out' = [out EXCEPT ![s] = Append(@,
          [item |-> client[s].sent, seq |-> client[s].seq, payload |-> payload,
           stamp |-> clock + client[s].ahead])]
    /\ client' = [client EXCEPT ![s] = [@ EXCEPT
          !.pc = IF wait THEN "await" ELSE "idle", !.seq = @ + 1, !.sent = @ + 1,
          !.item = client[s].sent, !.waited = wait,
          !.result = IF wait THEN "none" ELSE "ok"]]
    /\ UNCHANGED <<clock, link, inq, acks, taken, roster, inbox>>

\* The acknowledgement is whatever arrives next on the socket: it carries no
\* number, and those of earlier sends that nobody waited for are still there.
ReceiveAck(s) ==
    /\ client[s].pc = "await" /\ acks[s] # <<>>
    /\ client' = [client EXCEPT ![s].pc = "idle", ![s].result = "ok"]
    /\ acks' = [acks EXCEPT ![s] = Tail(@)]
    /\ UNCHANGED <<clock, link, out, inq, taken, roster, inbox>>

AckTimeout(s) ==
    /\ client[s].pc = "await"
    /\ client' = [client EXCEPT ![s].pc = "idle", ![s].result = "timeout"]
    /\ UNCHANGED <<clock, netVars, roster, inbox>>

-----------------------------------------------------------------------------
(* recv_one *)

\* The stamp is within the skew tolerance of the receiver's wall clock.
Fresh(f) == clock - f.stamp <= Skew /\ f.stamp - clock <= Skew

\* Variant: the receiver forgets nonces after one skew tolerance.
LiveNoncesShort(s) ==
    {n \in inbox.nonces : n.sender = s => n.at >= clock - Skew}

\* ReplayGuard: entries of the identity older than the window are dropped.
LiveNonces(s) ==
    {n \in inbox.nonces : n.sender = s => n.at >= clock - Window}

Seen(s, f) == \E n \in LiveNonces(s) : n.sender = s /\ n.item = f.item

CheckAndRecord(s, f) ==
    LiveNonces(s) \cup {[sender |-> s, item |-> f.item, at |-> clock]}

\* The frame's number is compared with the one expected of the sender; the first
\* frame of a sender sets it.
Gap(s, f) ==
    IF inbox.expected[s] # NoSeq /\ f.seq > inbox.expected[s]
    THEN f.seq - inbox.expected[s] ELSE 0

TrackSeq(s, f) ==
    [inbox EXCEPT !.nonces = CheckAndRecord(s, f), !.expected[s] = f.seq + 1,
                  !.first[s] = IF @ = NoSeq THEN f.seq ELSE @,
                  !.gaps[s] = @ + Gap(s, f), !.tracked[s] = @ + 1]

Accept(s, f) ==
    [TrackSeq(s, f) EXCEPT !.current = s, !.item = f.item,
                           !.delivered[s] = Append(@, f.item)]

\* The checks in their order: stamp, nonce, frame and schema tag, sequence
\* number, checksum.  A frame that fails one is dropped without an answer.
Examined(s, f) ==
    IF ~Fresh(f) THEN inbox
    ELSE IF Seen(s, f) THEN [inbox EXCEPT !.nonces = LiveNonces(s)]
    ELSE IF f.payload = "tag" THEN [inbox EXCEPT !.nonces = CheckAndRecord(s, f)]
    ELSE IF f.payload = "sum" THEN TrackSeq(s, f)
    ELSE Accept(s, f)

RecvOne(s) ==
    /\ inbox.running /\ inbox.current = NoSender /\ inq[s] # <<>>
    /\ inbox' = Examined(s, Head(inq[s]))
    /\ inq' = [inq EXCEPT ![s] = Tail(@)]
    /\ taken' = [taken EXCEPT ![s] = @ \cup {Head(inq[s])}]
    /\ UNCHANGED <<clock, client, link, out, acks, roster>>

\* drain_inbox_sync: on_inbox has run, well or not, and the sender of the last
\* frame gets a 0.  A ROUTER drops what it cannot route.
SendAck ==
    /\ inbox.current # NoSender
    /\ acks' = IF link[inbox.current]
               THEN [acks EXCEPT ![inbox.current] = Append(@, inbox.item)] ELSE acks
    /\ inbox' = [inbox EXCEPT !.current = NoSender, !.item = NoItem]
    /\ UNCHANGED <<clock, client, link, out, inq, taken, roster>>

Next ==
    \/ Tick \/ StartInbox \/ StopInbox \/ SendAck
    \/ \E s \in Senders :
          \/ SeedRoster(s) \/ Connect(s) \/ LinkBreaks(s) \/ Transfer(s) \/ Duplicate(s)
          \/ OpenInboxClient(s) \/ CloseInboxClient(s) \/ ReceiveAck(s) \/ AckTimeout(s)
          \/ RecvOne(s)
          \/ \E payload \in Payloads, wait \in BOOLEAN : Send(s, payload, wait)

Spec == Init /\ [][Next]_inboxVars

-----------------------------------------------------------------------------
(* Properties *)

\* An item reaches on_inbox at most once and in the order its sender sent it,
\* although frames are lost, come twice, come late, and sender and receiver
\* clocks differ by up to the tolerance: a nonce is forgotten only when its
\* frame is too old to pass the stamp check.
DeliveredOnceInOrder ==
    \A s \in Senders :
        \A i, j \in 1..Len(inbox.delivered[s]) :
            i < j => inbox.delivered[s][i] < inbox.delivered[s][j]

\* For a sender that has kept its client, the gap count accounts exactly for
\* the frames that were sent between the first and the last one the receiver
\* numbered and that it never numbered.
GapsAreAccounted ==
    \A s \in Senders :
        (inbox.expected[s] # NoSeq /\ client[s].seq = client[s].sent) =>
            inbox.gaps[s] + inbox.tracked[s] = inbox.expected[s] - inbox.first[s]

\* Both at once: what on_inbox sees of a sender is an increasing sequence of its
\* items, and the numbers that are missing are the ones counted as gaps.
InboxKeepsOrder == DeliveredOnceInOrder /\ GapsAreAccounted

\* A sender that waited and got a 0 knows that its item was processed.
AckMeansProcessed ==
    \A s \in Senders :
        (client[s].pc = "idle" /\ client[s].waited /\ client[s].result = "ok") =>
            \E i \in 1..Len(inbox.delivered[s]) : inbox.delivered[s][i] = client[s].item
====
