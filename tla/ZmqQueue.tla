------------------------------ MODULE ZmqQueue ------------------------------
(***************************************************************************)
(* The ZeroMQ data queue (hub_zmq_queue.cpp): a writer end with its send   *)
(* ring and send thread, the sockets between, a reader end with its        *)
(* receive thread and ring.  An end belongs to one role thread, which      *)
(* starts it, uses it and stops it.  The channel's topology decides which  *)
(* end binds and which socket pair carries the frames.                     *)
(***************************************************************************)
EXTENDS Naturals, Sequences, Functions

CONSTANTS
    Writers, Readers,
    SendDepth,     \* send_buffer_depth
    RecvDepth,     \* max_buffer_depth
    Hwm,           \* frames a connection holds (sndhwm and the kernel's buffers)
    MaxFaults      \* bound: frames the network loses or damages, failed sends

VARIABLES
    topology,   \* one of Topologies
    state,      \* state[e]: lifecycle of an end, see EndStates
    sendRing,   \* sendRing[w]: items not yet handed to the socket, oldest first
    buffer,     \* buffer[w]: the caller holds write_buf_ (acquired, not committed)
    sendPc,     \* sendPc[w]: where w's send thread is, see SendPcs
    sendSeq,    \* sendSeq[w]: send_seq_, the next frame's sequence number
    frame,      \* frame[w]: what the send thread has packed
    pipe,       \* pipe[w][r]: frames on the connection, oldest first
    recvRing,   \* recvRing[r]: decoded items, oldest first
    expected,   \* expected[r]: expected_seq_; 0 until the first frame (seq_initialized_)
    committed,  \* committed[w]: items accepted by write_commit
    got,        \* got[r]: items read_acquire returned, in order
    sendDrop,   \* send_drop_count_
    overflow,   \* recv_overflow_count_
    damaged,    \* recv_frame_error_count_ and the checksum error count
    gaps,       \* recv_gap_count_
    faults,     \* faults so far (for MaxFaults)
    netLost     \* history: netLost[r], frames for r that the sockets lost

\* The factories refuse a ring without slots.
QueueAssumption == SendDepth \in Nat \ {0} /\ RecvDepth \in Nat \ {0} /\ Hwm \in Nat

writerVars == <<sendRing, buffer, sendPc, sendSeq, frame, committed, sendDrop>>
readerVars == <<recvRing, expected, got, overflow, damaged, gaps>>
vars == <<topology, state, writerVars, readerVars, pipe, faults, netLost>>

NoFrame == [seq |-> 0, item |-> 0]
Ends == Writers \cup Readers
Topologies == {"one_to_one", "fan_in", "fan_out"}

\* Standby: no peer known.  Configured: start() is allowed.  Stop is two steps
\* for the writer: the flag is stored, then the condition variable notified.
EndStates == {"absent", "standby", "configured", "active", "flagged", "stopping", "stopped"}

\* run_send_thread_: at the top of the loop; the predicate was false and the lock
\* is still held; asleep; the frame is packed; the frame is gone and the ring's
\* head not yet advanced; returned.
SendPcs == {"off", "top", "block", "asleep", "send", "advance", "done"}

\* create_writer and create_reader: the consumer binds in a fan-in, the
\* producer in the other topologies.
Binds(e) ==
    IF topology = "fan_in" THEN e \in Readers ELSE e \in Writers

\* PUB and SUB in a fan-out, PUSH and PULL otherwise.
PubSub == topology = "fan_out"

\* The ends a channel of this topology has.
EndsOf(t) ==
    {w \in Writers : t = "fan_in" \/ w = CHOOSE x \in Writers : TRUE}
    \cup {r \in Readers : t = "fan_out" \/ r = CHOOSE x \in Readers : TRUE}

\* send_stop_ and recv_stop_ (stop() sets both).
Stopping(e) == state[e] \in {"flagged", "stopping", "stopped"}

Open(e) == state[e] \in {"active", "flagged", "stopping"}

Connected(w, r) == Open(w) /\ Open(r)

----------------------------------------------------------------------------
Init ==
    /\ topology \in Topologies
    /\ state = [e \in Ends |->
                  CASE e \notin EndsOf(topology) -> "absent"
                    [] Binds(e) -> "configured"
                    [] OTHER -> "standby"]
    /\ sendRing = [w \in Writers |-> <<>>]
    /\ buffer = [w \in Writers |-> FALSE]
    /\ sendPc = [w \in Writers |-> "off"]
    /\ sendSeq = [w \in Writers |-> 0]
    /\ frame = [w \in Writers |-> NoFrame]
    /\ pipe = [w \in Writers |-> [r \in Readers |-> <<>>]]
    /\ recvRing = [r \in Readers |-> <<>>]
    /\ expected = [r \in Readers |-> 0]
    /\ committed = [w \in Writers |-> 0]
    /\ got = [r \in Readers |-> <<>>]
    /\ sendDrop = [w \in Writers |-> 0]
    /\ overflow = [r \in Readers |-> 0]
    /\ damaged = [r \in Readers |-> 0]
    /\ gaps = [r \in Readers |-> 0]
    /\ faults = 0
    /\ netLost = [r \in Readers |-> 0]

\* The broker's approval reaches a dialing end: peers and keys are installed.
ApplyMasterApproval(e) ==
    /\ state[e] = "standby"
    /\ state' = [state EXCEPT ![e] = "configured"]
    /\ UNCHANGED <<topology, writerVars, readerVars, pipe, faults, netLost>>

\* Peers, keys and endpoint are known, and no thread runs yet.
IsConfigured(e) == state[e] = "configured"

\* start: the socket cannot be set up; running_ is cleared and start may be tried again.
StartFails(e) ==
    /\ IsConfigured(e)
    /\ faults < MaxFaults
    /\ faults' = faults + 1
    /\ UNCHANGED <<topology, state, writerVars, readerVars, pipe, netLost>>

\* start: refused in standby; opens the socket and spawns the thread.
Start(e) ==
    /\ IsConfigured(e)
    /\ state' = [state EXCEPT ![e] = "active"]
    /\ sendPc' = [w \in Writers |-> IF w = e THEN "top" ELSE sendPc[w]]
    /\ UNCHANGED <<topology, sendRing, buffer, sendSeq, frame, committed, sendDrop,
                   readerVars, pipe, faults, netLost>>
----------------------------------------------------------------------------
\* The mutex send_mu_ is held from the predicate to the sleep.
SendLockFree(w) == sendPc[w] # "block"

\* Variant: the notification is missing.
WakeNobody(w) == sendPc

\* notify_one, notify_all: wakes the thread only if it is asleep.
WakeSender(w) == [sendPc EXCEPT ![w] = IF @ = "asleep" THEN "top" ELSE @]

Room(w) == Len(sendRing[w]) < SendDepth

\* write_acquire that succeeds; one that finds no room (at once under Drop, by
\* timeout under Block) or the stop flag returns nullptr and changes nothing here.
WriteAcquire(w) ==
    /\ Open(w) /\ ~Stopping(w) /\ ~buffer[w] /\ SendLockFree(w)
    /\ Room(w)
    /\ buffer' = [buffer EXCEPT ![w] = TRUE]
    /\ UNCHANGED <<topology, state, sendRing, sendPc, sendSeq, frame, committed, sendDrop,
                   readerVars, pipe, faults, netLost>>

WriteDiscard(w) ==
    /\ buffer[w]
    /\ buffer' = [buffer EXCEPT ![w] = FALSE]
    /\ UNCHANGED <<topology, state, sendRing, sendPc, sendSeq, frame, committed, sendDrop,
                   readerVars, pipe, faults, netLost>>

\* write_commit: a full ring drops the item with only a log line.
WriteCommit(w) ==
    /\ buffer[w] /\ SendLockFree(w)
    /\ buffer' = [buffer EXCEPT ![w] = FALSE]
    /\ committed' = [committed EXCEPT ![w] = @ + 1]
    /\ IF Len(sendRing[w]) < SendDepth
       THEN /\ sendRing' = [sendRing EXCEPT ![w] = Append(@, committed[w] + 1)]
            /\ sendPc' = WakeSender(w)
       ELSE UNCHANGED <<sendRing, sendPc>>
    /\ UNCHANGED <<topology, state, sendSeq, frame, sendDrop, readerVars, pipe, faults, netLost>>
----------------------------------------------------------------------------
\* run_send_thread_, top of the loop: pack the head, leave, or find nothing to do.
SendTop(w) ==
    /\ sendPc[w] = "top"
    /\ IF sendRing[w] # <<>>
       THEN /\ sendPc' = [sendPc EXCEPT ![w] = "send"]
            /\ frame' = [frame EXCEPT ![w] = [seq |-> sendSeq[w], item |-> Head(sendRing[w])]]
            /\ sendSeq' = [sendSeq EXCEPT ![w] = @ + 1]
       ELSE /\ sendPc' = [sendPc EXCEPT ![w] = IF Stopping(w) THEN "done" ELSE "block"]
            /\ UNCHANGED <<frame, sendSeq>>
    /\ UNCHANGED <<topology, state, sendRing, buffer, committed, sendDrop, readerVars,
                   pipe, faults, netLost>>

\* send_cv_.wait releases the lock and sleeps.
SendSleep(w) ==
    /\ sendPc[w] = "block"
    /\ sendPc' = [sendPc EXCEPT ![w] = "asleep"]
    /\ UNCHANGED <<topology, state, sendRing, buffer, sendSeq, frame, committed, sendDrop,
                   readerVars, pipe, faults, netLost>>

Targets(w) == {r \in Readers : Connected(w, r)}

HasRoom(w, r) == Len(pipe[w][r]) < Hwm

\* The frame goes onto the connections to R.
Transmit(w, R) ==
    pipe' = [pipe EXCEPT ![w] = [r \in Readers |->
               IF r \in R THEN Append(@[r], frame[w]) ELSE @[r]]]

\* PUSH: accepted by the one connected reader with room; PUB: copied to every
\* subscriber with room and lost for the others.
SendFrame(w) ==
    LET R == {r \in Targets(w) : HasRoom(w, r)} IN
    /\ sendPc[w] = "send"
    /\ PubSub \/ R # {}
    /\ Transmit(w, R)
    /\ netLost' = [r \in Readers |->
         IF PubSub /\ r \in EndsOf(topology) \ R THEN netLost[r] + 1 ELSE netLost[r]]
    /\ sendPc' = [sendPc EXCEPT ![w] = "advance"]
    /\ UNCHANGED <<topology, state, sendRing, buffer, sendSeq, frame, committed, sendDrop,
                   readerVars, faults>>

\* EAGAIN after the stop flag, or an error of zmq_send at any time.  (EAGAIN
\* before the stop flag only retries.)
SendGivesUp(w) ==
    \/ /\ Stopping(w) /\ ~PubSub
       /\ \A r \in Targets(w) : ~HasRoom(w, r)
       /\ UNCHANGED faults
    \/ /\ faults < MaxFaults
       /\ faults' = faults + 1

\* Variant: the dropped frame is not counted.
SendFailsUncounted(w) ==
    /\ sendPc[w] = "send"
    /\ SendGivesUp(w)
    /\ sendPc' = [sendPc EXCEPT ![w] = "advance"]
    /\ UNCHANGED <<topology, state, sendRing, buffer, sendSeq, frame, committed, sendDrop,
                   readerVars, pipe, netLost>>

\* The frame is dropped and counted.
SendFails(w) ==
    /\ sendPc[w] = "send"
    /\ SendGivesUp(w)
    /\ sendDrop' = [sendDrop EXCEPT ![w] = @ + 1]
    /\ sendPc' = [sendPc EXCEPT ![w] = "advance"]
    /\ UNCHANGED <<topology, state, sendRing, buffer, sendSeq, frame, committed,
                   readerVars, pipe, netLost>>

\* The ring's head is removed only after the frame is gone.
SendAdvance(w) ==
    /\ sendPc[w] = "advance"
    /\ sendRing' = [sendRing EXCEPT ![w] = Tail(@)]
    /\ sendPc' = [sendPc EXCEPT ![w] = "top"]
    /\ frame' = [frame EXCEPT ![w] = NoFrame]
    /\ UNCHANGED <<topology, state, buffer, sendSeq, committed, sendDrop, readerVars,
                   pipe, faults, netLost>>
----------------------------------------------------------------------------
\* Sequence tracking: numbers skipped since the last frame are counted as gaps.
TrackSeq(r, seq) ==
    /\ expected' = [expected EXCEPT ![r] = seq + 1]
    /\ gaps' = [gaps EXCEPT ![r] =
         IF expected[r] # 0 /\ seq > expected[r] THEN @ + (seq - expected[r]) ELSE @]

\* Variant: the oldest slot is overwritten and the head stays on it.
PushKeepsHead(r, x) ==
    /\ recvRing' = [recvRing EXCEPT ![r] =
         IF Len(@) >= RecvDepth THEN [@ EXCEPT ![1] = x] ELSE Append(@, x)]
    /\ overflow' = [overflow EXCEPT ![r] = IF Len(recvRing[r]) >= RecvDepth THEN @ + 1 ELSE @]

\* The ring keeps the newest RecvDepth items; a full ring gives up its oldest.
Push(r, x) ==
    /\ recvRing' = [recvRing EXCEPT ![r] = Append(IF Len(@) >= RecvDepth THEN Tail(@) ELSE @, x)]
    /\ overflow' = [overflow EXCEPT ![r] = IF Len(recvRing[r]) >= RecvDepth THEN @ + 1 ELSE @]

TakeFrame(w, r) ==
    pipe' = [pipe EXCEPT ![w][r] = Tail(@)]

\* run_recv_thread_, a good frame.
RecvFrame(r, w) ==
    /\ state[r] = "active" /\ pipe[w][r] # <<>>
    /\ LET f == Head(pipe[w][r]) IN
         /\ TrackSeq(r, f.seq)
         /\ Push(r, <<w, f.item>>)
    /\ TakeFrame(w, r)
    /\ UNCHANGED <<topology, state, writerVars, got, damaged, faults, netLost>>

\* A frame that does not unpack, or has the wrong tag, is dropped before its
\* number is looked at; one whose payload or checksum is wrong, after.
RecvDamaged(r, w) ==
    /\ state[r] = "active" /\ pipe[w][r] # <<>>
    /\ faults < MaxFaults
    /\ faults' = faults + 1
    /\ \/ UNCHANGED <<expected, gaps>>
       \/ TrackSeq(r, Head(pipe[w][r]).seq)
    /\ damaged' = [damaged EXCEPT ![r] = @ + 1]
    /\ TakeFrame(w, r)
    /\ UNCHANGED <<topology, state, writerVars, recvRing, got, overflow, netLost>>

\* A connection breaks and its oldest frame is gone.
LoseFrame(w, r) ==
    /\ pipe[w][r] # <<>>
    /\ faults < MaxFaults
    /\ faults' = faults + 1
    /\ TakeFrame(w, r)
    /\ netLost' = [netLost EXCEPT ![r] = @ + 1]
    /\ UNCHANGED <<topology, state, writerVars, readerVars>>

\* read_acquire that finds an item (an empty ring returns nullptr).
ReadAcquire(r) ==
    /\ Open(r) /\ recvRing[r] # <<>>
    /\ got' = [got EXCEPT ![r] = Append(@, Head(recvRing[r]))]
    /\ recvRing' = [recvRing EXCEPT ![r] = Tail(@)]
    /\ UNCHANGED <<topology, state, writerVars, expected, overflow, damaged, gaps,
                   pipe, faults, netLost>>
----------------------------------------------------------------------------
\* stop: running_ and the stop flags.  The caller is the thread that writes or
\* reads, so it holds no write buffer.
Stop(e) ==
    /\ state[e] = "active"
    /\ e \in Writers => ~buffer[e]
    /\ state' = [state EXCEPT ![e] = IF e \in Writers THEN "flagged" ELSE "stopping"]
    /\ UNCHANGED <<topology, writerVars, readerVars, pipe, faults, netLost>>

\* stop: send_cv_.notify_all(), without the lock.
StopNotify(w) ==
    /\ state[w] = "flagged"
    /\ state' = [state EXCEPT ![w] = "stopping"]
    /\ sendPc' = WakeSender(w)
    /\ UNCHANGED <<topology, sendRing, buffer, sendSeq, frame, committed, sendDrop,
                   readerVars, pipe, faults, netLost>>

\* stop: the thread has returned; the socket is closed with linger 0, so what
\* its side of the connections still holds is lost.
CloseWriter(w) ==
    /\ state[w] = "stopping" /\ sendPc[w] = "done"
    /\ state' = [state EXCEPT ![w] = "stopped"]
    /\ \E keep \in [Readers -> 0..Hwm] :
         /\ \A r \in Readers : keep[r] <= Len(pipe[w][r])
         /\ pipe' = [pipe EXCEPT ![w] = [r \in Readers |-> SubSeq(@[r], 1, keep[r])]]
         /\ netLost' = [r \in Readers |-> netLost[r] + Len(pipe[w][r]) - keep[r]]
    /\ UNCHANGED <<topology, writerVars, readerVars, faults>>

\* The receive thread polls, so a reader's stop has no wake-up to lose.
CloseReader(r) ==
    /\ state[r] = "stopping"
    /\ state' = [state EXCEPT ![r] = "stopped"]
    /\ pipe' = [w \in Writers |-> [pipe[w] EXCEPT ![r] = <<>>]]
    /\ netLost' = [netLost EXCEPT ![r] = @ + SumFunction([w \in Writers |-> Len(pipe[w][r])])]
    /\ UNCHANGED <<topology, writerVars, readerVars, faults>>
----------------------------------------------------------------------------
WriterSteps(w) ==
    \/ WriteAcquire(w) \/ WriteDiscard(w) \/ WriteCommit(w)
    \/ SendTop(w) \/ SendSleep(w) \/ SendFrame(w) \/ SendFails(w) \/ SendAdvance(w)
    \/ StopNotify(w) \/ CloseWriter(w)

ReaderSteps(r) ==
    \/ \E w \in Writers : RecvFrame(r, w) \/ RecvDamaged(r, w) \/ LoseFrame(w, r)
    \/ ReadAcquire(r) \/ CloseReader(r)

Next ==
    \/ \E e \in Ends : ApplyMasterApproval(e) \/ StartFails(e) \/ Start(e) \/ Stop(e)
    \/ \E w \in Writers : WriterSteps(w)
    \/ \E r \in Readers : ReaderSteps(r)

\* The queue's own threads run, and stop() goes on once it is called.
Fairness ==
    /\ \A w \in Writers : WF_vars(SendTop(w) \/ SendSleep(w) \/ SendFrame(w)
                                  \/ SendFails(w) \/ SendAdvance(w))
    /\ \A w \in Writers : WF_vars(StopNotify(w) \/ CloseWriter(w))
    /\ \A r \in Readers : WF_vars(CloseReader(r))
    /\ \A r \in Readers, w \in Writers : WF_vars(RecvFrame(r, w))

Spec == Init /\ [][Next]_vars

FairSpec == Spec /\ Fairness
----------------------------------------------------------------------------
Frames == [seq : Nat, item : Nat \ {0}]

QueueTypeOK ==
    /\ topology \in Topologies
    /\ state \in [Ends -> EndStates]
    /\ sendRing \in [Writers -> Seq(Nat \ {0})]
    /\ \A w \in Writers : Len(sendRing[w]) <= SendDepth
    /\ buffer \in [Writers -> BOOLEAN]
    /\ sendPc \in [Writers -> SendPcs]
    /\ sendSeq \in [Writers -> Nat]
    /\ \A w \in Writers : (frame[w] # NoFrame) <=> sendPc[w] \in {"send", "advance"}
    /\ \A w \in Writers : frame[w] = NoFrame \/ frame[w] \in Frames
    /\ pipe \in [Writers -> [Readers -> Seq(Frames)]]
    /\ recvRing \in [Readers -> Seq(Writers \X Nat)]
    /\ \A r \in Readers : Len(recvRing[r]) <= RecvDepth
    /\ expected \in [Readers -> Nat]
    /\ committed \in [Writers -> Nat]
    /\ got \in [Readers -> Seq(Writers \X Nat)]
    /\ sendDrop \in [Writers -> Nat]
    /\ {overflow, damaged, gaps, netLost} \subseteq [Readers -> Nat]
    /\ faults \in 0..MaxFaults

\* The queue keeps the contract of ItemQueue: per writer in order, nothing twice,
\* nothing invented, whatever overflows, fails, is damaged or stops (the two rings
\* and the two threads of hub_zmq_queue.cpp).
Contract == INSTANCE ItemQueue
QueueContract == Contract!Spec

\* An item the writer could acquire a buffer for finds room when it commits, so the
\* error branch of write_commit ("violated single-acquire contract; item dropped")
\* is never taken: only the send thread touches the ring in between.
CommitFindsRoom ==
    \A w \in Writers : buffer[w] => Len(sendRing[w]) < SendDepth

\* What is in the send ring and not yet handed to a socket.
Unsent(w) == Len(sendRing[w]) - (IF sendPc[w] = "advance" THEN 1 ELSE 0)

\* Nothing disappears without a count: for PUSH and PULL, every committed item has
\* been read, is in a ring or on a connection, or is in send_drop_count,
\* recv_overflow_count or the frame and checksum error counts, or was lost by the
\* sockets themselves.
LossIsAccounted ==
    ~PubSub =>
      SumFunction(committed) =
        SumFunction([w \in Writers |-> Unsent(w) + sendDrop[w]])
        + SumFunction([r \in Readers |->
            SumFunction([w \in Writers |-> Len(pipe[w][r])])
            + Len(recvRing[r]) + Len(got[r]) + overflow[r] + damaged[r] + netLost[r]])

\* recv_gap_count reports only frames that were really lost or damaged on the way:
\* with one writer on the channel the count is at most the number of those.
GapsAreLosses ==
    topology # "fan_in" =>
      \A r \in Readers :
        gaps[r] <= netLost[r] + damaged[r] + SumFunction(sendDrop)

HasToSend(w) == sendRing[w] # <<>> /\ \E r \in Readers : Connected(w, r)
SentOrStopped(w) ==
    \/ sendRing[w] = <<>> \/ Stopping(w)
    \/ \E r \in EndsOf(topology) \cap Readers : Stopping(r)

\* stop() comes to its end: "wake send_thread_ to drain remaining items"
\* (hub_zmq_queue.cpp, stop) and the thread returns.
StopCompletes ==
    \A w \in Writers : state[w] = "flagged" ~> state[w] = "stopped"
=============================================================================
