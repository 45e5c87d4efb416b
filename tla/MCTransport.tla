---------------------------- MODULE MCTransport -----------------------------
(***************************************************************************)
(* The ZMQ data path for TLC: the admission of a dialing role to a socket  *)
(* (ChannelAuth) and the queues on both ends of it (ZmqQueue).  The two do  *)
(* not share state; which says which one a behaviour explores, and the      *)
(* other one rests in its first state.                                      *)
(***************************************************************************)
EXTENDS MCChannelAuth

CONSTANTS Writers, Readers, SendDepth, RecvDepth, Hwm, MaxFaults,
          d1, d2, w1, w2, r1, r2,
          MaxItems,        \* bound: items of a channel with one writer and one reader
          MaxSharedItems,  \* bound: items of a channel with several of either, in all
          MaxStops         \* bound: ends stopped on a channel with several of either

VARIABLES
    which,
    topology, state, sendRing, buffer, sendPc, sendSeq, frame, pipe, recvRing,
    expected, committed, got, sendDrop, overflow, damaged, gaps, faults, netLost

queueVars ==
    <<topology, state, sendRing, buffer, sendPc, sendSeq, frame, pipe, recvRing,
      expected, committed, got, sendDrop, overflow, damaged, gaps, faults, netLost>>

Q == INSTANCE ZmqQueue

\* What the theorems about ZmqQueue assume of the sizes.
ASSUME RingsHaveSlots == Q!QueueAssumption

\* The items of a channel are bounded, fewer where several ends share it, and so
\* are the ends that stop there.
Shared == topology # "one_to_one"
QueueBounded ==
    /\ Q!SumFunction(committed) <= IF Shared THEN MaxSharedItems ELSE MaxItems
    /\ Shared => Cardinality({e \in Q!Ends : Q!Stopping(e)}) <= MaxStops

TransportInit ==
    /\ which \in {"auth", "queue"}
    /\ Init /\ (which = "auth" \/ fan_in)
    /\ Q!Init /\ (which = "queue" \/ topology = "one_to_one")

TransportNext ==
    \/ which = "auth" /\ MCNext /\ UNCHANGED <<which, queueVars>>
    \/ which = "queue" /\ Q!Next /\ QueueBounded' /\ UNCHANGED <<which, vars>>

all == <<which, vars, queueVars>>

\* The fairness of the two components.  Only one of them moves in a behaviour,
\* so a thread of the one and a thread of the other share a condition.  Of a
\* queue: each send thread and each receive thread runs.
focus == IF which = "auth" THEN vars ELSE queueVars
Fair(auth, queue) ==
    UNCHANGED which /\ ((which = "auth" /\ auth) \/ (which = "queue" /\ queue))
Sender(w) == Q!SendTop(w) \/ Q!SendSleep(w) \/ Q!SendFrame(w) \/ Q!SendFails(w)
               \/ Q!SendAdvance(w)
Receiver(r) == \E w \in Writers : Q!RecvFrame(r, w)
TransportFairness ==
    /\ WF_focus(Fair(PullAllowlist, Sender(w1)))
    /\ WF_focus(Fair(InstallAllowlist, Sender(w2)))
    /\ WF_focus(Fair(\E m \in applied : ChannelAuthApplied(m), Receiver(r1)))
    /\ WF_focus(Fair(CheckPeerReady(d1), Receiver(r2)))
    /\ WF_focus(Fair(CheckPeerReady(d2), FALSE))

TransportSpec == TransportInit /\ [][TransportNext]_all /\ TransportFairness

-----------------------------------------------------------------------------
\* The two rings and the two threads of hub_zmq_queue.cpp implement ItemQueue.
QueueContract == Q!QueueContract

\* A commit finds the room its acquire saw, every item that is not delivered is
\* in one of the counters, and recv_gap_count reports only real losses.
QueueAccounts ==
    Q!QueueTypeOK /\ Q!CommitFindsRoom /\ Q!LossIsAccounted /\ Q!GapsAreLosses

\* A dialing role that waits for a binding role that runs and loses nothing is
\* answered without a timeout (ChannelAuth); a send thread whose ring has items
\* and whose ends are not stopped empties it (ZmqQueue).  Said of one dialer and
\* one writer, since all dialers, and all writers, are alike.
TransportMoves ==
    (IF which = "auth" THEN Waits(d1) ELSE Q!HasToSend(w1))
        ~> (IF which = "auth" THEN Excused(d1) ELSE Q!SentOrStopped(w1))
=============================================================================
