--------------------------- MODULE ZmqQueueProofs ---------------------------
(***************************************************************************)
(* The ZeroMQ data queue (ZmqQueue) keeps the contract of ItemQueue: for   *)
(* any number of writers and readers, any topology, ring sizes and high-   *)
(* water mark, and whatever frames are dropped, lost or damaged on the way.*)
(***************************************************************************)
EXTENDS ZmqQueue, TLAPS

\* The leaves are Zenon's unless they cite SMT: few of them need arithmetic.
USE Zenon

-----------------------------------------------------------------------------
(* Rings and connections as sequences                                      *)

LEMMA TailOf ==
  ASSUME NEW S, NEW q \in Seq(S), q # <<>>
  PROVE  /\ Head(q) \in S /\ Head(q) = q[1] /\ Len(q) \in Nat \ {0} /\ 1 \in 1..Len(q)
         /\ Tail(q) \in Seq(S) /\ Len(Tail(q)) = Len(q) - 1
         /\ \A i \in 1..Len(Tail(q)) : i + 1 \in 1..Len(q) /\ Tail(q)[i] = q[i + 1]
BY SMT

LEMMA AppendOf ==
  ASSUME NEW S, NEW q \in Seq(S), NEW x \in S
  PROVE  /\ Append(q, x) \in Seq(S) /\ Len(Append(q, x)) = Len(q) + 1 /\ Len(q) \in Nat
         /\ \A i \in 1..Len(q) + 1 : IF i = Len(q) + 1 THEN Append(q, x)[i] = x
                                     ELSE i \in 1..Len(q) /\ Append(q, x)[i] = q[i]
BY SMT

LEMMA PrefixOf ==
  ASSUME NEW S, NEW q \in Seq(S), NEW k \in Nat, k <= Len(q)
  PROVE  /\ SubSeq(q, 1, k) \in Seq(S) /\ Len(SubSeq(q, 1, k)) = k
         /\ \A i \in 1..k : i \in 1..Len(q) /\ SubSeq(q, 1, k)[i] = q[i]
BY SMT

LEMMA EmptySeq == \A S : <<>> \in Seq(S) /\ Len(<<>>) = 0 /\ 1..Len(<<>>) = {}
BY SMT

-----------------------------------------------------------------------------
(* The inductive invariant                                                 *)

Items == Writers \X Nat
Packets == [seq : Nat, item : Nat]

\* The lives of an end before its start.
Unstarted == {"absent", "standby", "configured"}

FlowTypes ==
    /\ state \in [Ends -> EndStates]
    /\ committed \in [Writers -> Nat]
    /\ sendRing \in [Writers -> Seq(Nat)]
    /\ sendPc \in [Writers -> SendPcs]
    /\ sendSeq \in [Writers -> Nat]
    /\ frame \in [Writers -> Packets]
    /\ pipe \in [Writers -> [Readers -> Seq(Packets)]]
    /\ recvRing \in [Readers -> Seq(Items)]
    /\ got \in [Readers -> Seq(Items)]

\* Where the items begin that the send thread has not handed to the socket.
FirstUnsent(w) == IF sendPc[w] = "advance" THEN 2 ELSE 1

\* The nth item of w has been committed and is older than what w has to send.
Sent(w, n) ==
    /\ n \in 1..committed[w]
    /\ \A i \in FirstUnsent(w)..Len(sendRing[w]) : n < sendRing[w][i]

\* It is also older than what is on the connection to r.
Arrived(r, w, n) ==
    /\ Sent(w, n)
    /\ \A i \in 1..Len(pipe[w][r]) : n < pipe[w][r][i].item

\* The send ring is in the order of the commits, the packed frame is its head,
\* and the thread runs only between start and stop.
SenderOrder(w) ==
    /\ \A i \in 1..Len(sendRing[w]) : sendRing[w][i] \in 1..committed[w]
    /\ \A i, j \in 1..Len(sendRing[w]) : i < j => sendRing[w][i] < sendRing[w][j]
    /\ sendPc[w] \in {"send", "advance"} =>
          sendRing[w] # <<>> /\ frame[w].item = sendRing[w][1]
    /\ state[w] \in Unstarted => sendPc[w] = "off"

PipeOrder(w, r) ==
    /\ \A i \in 1..Len(pipe[w][r]) : Sent(w, pipe[w][r][i].item)
    /\ \A i, j \in 1..Len(pipe[w][r]) : i < j => pipe[w][r][i].item < pipe[w][r][j].item

\* Oldest first per writer, in the receive ring and from what was read to it.
ReaderOrder(r) ==
    /\ \A i \in 1..Len(recvRing[r]) : Arrived(r, recvRing[r][i][1], recvRing[r][i][2])
    /\ \A i, j \in 1..Len(recvRing[r]) :
          i < j /\ recvRing[r][i][1] = recvRing[r][j][1] => recvRing[r][i][2] < recvRing[r][j][2]
    /\ \A i \in 1..Len(got[r]) : Arrived(r, got[r][i][1], got[r][i][2])
    /\ \A i \in 1..Len(got[r]), j \in 1..Len(recvRing[r]) :
          got[r][i][1] = recvRing[r][j][1] => got[r][i][2] < recvRing[r][j][2]

FlowInv ==
    /\ FlowTypes
    /\ \A w \in Writers : SenderOrder(w)
    /\ \A w \in Writers, r \in Readers : PipeOrder(w, r)
    /\ \A r \in Readers : ReaderOrder(r)

FirstNext(w) == IF sendPc'[w] = "advance" THEN 2 ELSE 1

\* What w has to send after a step: items that were not sent before, or new ones.
Onward(w) ==
    /\ committed[w] <= committed'[w]
    /\ \A i \in FirstNext(w)..Len(sendRing'[w]) :
          \/ committed[w] < sendRing'[w][i]
          \/ \E j \in FirstUnsent(w)..Len(sendRing[w]) : sendRing'[w][i] = sendRing[w][j]

\* A connection after a step holds a stretch of what it held.
Cut(w, r) ==
    \E d \in Nat : /\ Len(pipe'[w][r]) + d <= Len(pipe[w][r])
                   /\ \A i \in 1..Len(pipe'[w][r]) : pipe'[w][r][i] = pipe[w][r][i + d]

\* A connection after a step holds what it held, or what w had to send.
Flows(w, r) ==
    \A i \in 1..Len(pipe'[w][r]) :
       \/ \E j \in 1..Len(pipe[w][r]) : pipe'[w][r][i].item = pipe[w][r][j].item
       \/ \E j \in FirstUnsent(w)..Len(sendRing[w]) : pipe'[w][r][i].item = sendRing[w][j]

\* Sent and Arrived in the next state, of an item of this one.
SentNext(w, n) ==
    /\ n \in 1..committed'[w]
    /\ \A i \in FirstNext(w)..Len(sendRing'[w]) : n < sendRing'[w][i]
ArrivedNext(r, w, n) ==
    SentNext(w, n) /\ \A i \in 1..Len(pipe'[w][r]) : n < pipe'[w][r][i].item

LEMMA TypesOfSender ==
  ASSUME FlowTypes, NEW w \in Writers
  PROVE  /\ committed[w] \in Nat /\ FirstUnsent(w) \in {1, 2}
         /\ sendRing[w] \in Seq(Nat) /\ Len(sendRing[w]) \in Nat
         /\ \A i \in 1..Len(sendRing[w]) : sendRing[w][i] \in Nat
         /\ \A i \in FirstUnsent(w)..Len(sendRing[w]) : i \in 1..Len(sendRing[w])
<1>1. committed[w] \in Nat /\ sendRing[w] \in Seq(Nat)
  BY DEF FlowTypes
<1>2. FirstUnsent(w) \in {1, 2}
  BY DEF FirstUnsent
<1> QED BY SMT, <1>1, <1>2

LEMMA TypesOfPipe ==
  ASSUME FlowTypes, NEW w \in Writers, NEW r \in Readers
  PROVE  /\ pipe[w][r] \in Seq(Packets) /\ Len(pipe[w][r]) \in Nat
         /\ \A i \in 1..Len(pipe[w][r]) : pipe[w][r][i].item \in Nat
<1>1. pipe[w][r] \in Seq(Packets)
  BY DEF FlowTypes
<1>2. \A f \in Packets : f.item \in Nat
  BY SMT DEF Packets
<1>3. \A q \in Seq(Packets) : Len(q) \in Nat /\ \A i \in 1..Len(q) : q[i] \in Packets
  BY SMT
<1> QED BY <1>1, <1>2, <1>3

LEMMA TypesOfReader ==
  ASSUME FlowTypes, NEW r \in Readers
  PROVE  /\ recvRing[r] \in Seq(Items) /\ Len(recvRing[r]) \in Nat
         /\ got[r] \in Seq(Items) /\ Len(got[r]) \in Nat
         /\ \A i \in 1..Len(recvRing[r]) : recvRing[r][i] \in Items
                /\ recvRing[r][i][1] \in Writers /\ recvRing[r][i][2] \in Nat
         /\ \A i \in 1..Len(got[r]) : got[r][i] \in Items
                /\ got[r][i][1] \in Writers /\ got[r][i][2] \in Nat
<1>1. recvRing[r] \in Seq(Items) /\ got[r] \in Seq(Items)
  BY DEF FlowTypes
<1>2. \A x \in Items : x[1] \in Writers /\ x[2] \in Nat
  BY SMT DEF Items
<1>3. \A q \in Seq(Items) : Len(q) \in Nat /\ \A i \in 1..Len(q) : q[i] \in Items
  BY SMT
<1> QED BY <1>1, <1>2, <1>3

\* What was sent stays sent while the writer moves on.
LEMMA SentStays ==
  ASSUME FlowTypes, FlowTypes', NEW w \in Writers, Onward(w), NEW n, Sent(w, n)
  PROVE  SentNext(w, n)
<1>1. committed[w] \in Nat /\ committed'[w] \in Nat /\ committed[w] <= committed'[w]
  BY TypesOfSender DEF Onward, FlowTypes
<1>2. n \in 1..committed[w]
  BY DEF Sent
<1>3. n \in 1..committed'[w] /\ \A m \in Nat : committed[w] < m => n < m
  BY SMT, <1>1, <1>2
<1>4. ASSUME NEW i \in FirstNext(w)..Len(sendRing'[w])
      PROVE  n < sendRing'[w][i]
  <2>1. CASE committed[w] < sendRing'[w][i]
    <3>1. sendRing'[w] \in Seq(Nat) /\ FirstNext(w) \in {1, 2}
      BY DEF FlowTypes, FirstNext
    <3>2. sendRing'[w][i] \in Nat
      BY SMT, <1>4, <3>1
    <3> QED BY <1>3, <2>1, <3>2
  <2>2. CASE \E j \in FirstUnsent(w)..Len(sendRing[w]) : sendRing'[w][i] = sendRing[w][j]
    BY <2>2 DEF Sent
  <2> QED BY <1>4, <2>1, <2>2 DEF Onward
<1> QED BY <1>3, <1>4 DEF SentNext

LEMMA ArrivedStays ==
  ASSUME FlowTypes, FlowTypes', NEW w \in Writers, NEW r \in Readers,
         Onward(w), Flows(w, r), NEW n, Arrived(r, w, n)
  PROVE  ArrivedNext(r, w, n)
<1>1. SentNext(w, n)
  BY SentStays DEF Arrived
<1>2. \A i \in 1..Len(pipe'[w][r]) : n < pipe'[w][r][i].item
  BY DEF Arrived, Sent, Flows
<1> QED BY <1>1, <1>2 DEF ArrivedNext

\* Connections that only give up frames stay in order.
LEMMA PipesShrink ==
  ASSUME FlowInv, FlowTypes', NEW w \in Writers, NEW r \in Readers, Onward(w), Cut(w, r)
  PROVE  PipeOrder(w, r)' /\ Flows(w, r)
<1>1. PICK d \in Nat : /\ Len(pipe'[w][r]) + d <= Len(pipe[w][r])
                       /\ \A i \in 1..Len(pipe'[w][r]) : pipe'[w][r][i] = pipe[w][r][i + d]
  BY DEF Cut
<1>2. Len(pipe[w][r]) \in Nat /\ Len(pipe'[w][r]) \in Nat
  <2>1. pipe[w][r] \in Seq(Packets) /\ pipe'[w][r] \in Seq(Packets)
    BY DEF FlowInv, FlowTypes
  <2> QED BY SMT, <2>1
<1>3. /\ \A i \in 1..Len(pipe'[w][r]) : i + d \in 1..Len(pipe[w][r])
      /\ \A i, j \in 1..Len(pipe'[w][r]) : i < j => i + d < j + d
  BY SMT, <1>1, <1>2
<1>4. PipeOrder(w, r)
  BY DEF FlowInv
<1>5. \A n : Sent(w, n) => SentNext(w, n)
  BY SentStays DEF FlowInv
<1>6. \A i \in 1..Len(pipe'[w][r]) : SentNext(w, pipe'[w][r][i].item)
  <2> SUFFICES ASSUME NEW i \in 1..Len(pipe'[w][r]) PROVE SentNext(w, pipe'[w][r][i].item)
    OBVIOUS
  <2>1. Sent(w, pipe[w][r][i + d].item)
    BY <1>3, <1>4 DEF PipeOrder
  <2> QED BY <1>1, <1>5, <2>1
<1>7. \A i, j \in 1..Len(pipe'[w][r]) : i < j => pipe'[w][r][i].item < pipe'[w][r][j].item
  BY <1>1, <1>3, <1>4 DEF PipeOrder
<1>8. Flows(w, r)
  BY <1>1, <1>3 DEF Flows
<1> QED BY <1>6, <1>7, <1>8 DEF PipeOrder, Sent, SentNext, FirstUnsent, FirstNext

\* A reader that gets nothing and reads nothing keeps its order.
LEMMA ReaderRests ==
  ASSUME FlowInv, FlowTypes', NEW r \in Readers, \A w \in Writers : Onward(w) /\ Flows(w, r),
         recvRing'[r] = recvRing[r], got'[r] = got[r]
  PROVE  ReaderOrder(r)'
<1>1. ReaderOrder(r) /\ FlowTypes
  BY DEF FlowInv
<1>2. \A w \in Writers : \A n : Arrived(r, w, n) => ArrivedNext(r, w, n)
  BY <1>1, ArrivedStays
<1>3. /\ \A i \in 1..Len(recvRing[r]) : recvRing[r][i][1] \in Writers
      /\ \A i \in 1..Len(got[r]) : got[r][i][1] \in Writers
  BY <1>1, TypesOfReader
<1>4. \A i \in 1..Len(recvRing'[r]) : ArrivedNext(r, recvRing'[r][i][1], recvRing'[r][i][2])
  BY <1>1, <1>2, <1>3 DEF ReaderOrder
<1>5. \A i \in 1..Len(got'[r]) : ArrivedNext(r, got'[r][i][1], got'[r][i][2])
  BY <1>1, <1>2, <1>3 DEF ReaderOrder
<1> QED BY <1>1, <1>4, <1>5 DEF ReaderOrder, Arrived, Sent, ArrivedNext, SentNext,
                             FirstUnsent, FirstNext

-----------------------------------------------------------------------------
(* Steps that move no item                                                 *)

LEMMA OnwardQuiet ==
  ASSUME FlowTypes, NEW w \in Writers, sendRing'[w] = sendRing[w], committed'[w] = committed[w],
         sendPc[w] = "advance" => sendPc'[w] = "advance"
  PROVE  Onward(w)
<1>1. committed[w] \in Nat /\ Len(sendRing[w]) \in Nat
  BY TypesOfSender
<1>2. \/ FirstNext(w) = 2 /\ FirstUnsent(w) \in {1, 2}
      \/ FirstNext(w) = 1 /\ FirstUnsent(w) = 1
  BY DEF FirstNext, FirstUnsent
<1>3. committed[w] <= committed'[w]
  BY SMT, <1>1
<1>4. \A i \in FirstNext(w)..Len(sendRing[w]) : i \in FirstUnsent(w)..Len(sendRing[w])
  BY SMT, <1>1, <1>2
<1> QED BY <1>3, <1>4 DEF Onward

LEMMA CutQuiet ==
  ASSUME FlowTypes, NEW w \in Writers, NEW r \in Readers, pipe'[w][r] = pipe[w][r]
  PROVE  Cut(w, r)
<1>1. Len(pipe[w][r]) \in Nat
  BY TypesOfPipe
<1>2. 0 \in Nat /\ Len(pipe[w][r]) + 0 <= Len(pipe[w][r])
      /\ \A i \in 1..Len(pipe[w][r]) : i + 0 = i
  BY SMT, <1>1
<1> QED BY <1>2 DEF Cut

LEMMA SenderKeeps ==
  ASSUME FlowInv, NEW w \in Writers,
         UNCHANGED <<sendRing[w], committed[w]>>,
         sendPc'[w] \in {"send", "advance"} =>
             sendPc[w] \in {"send", "advance"} /\ frame'[w] = frame[w],
         state'[w] \in Unstarted => sendPc'[w] = "off"
  PROVE  SenderOrder(w)'
<1>1. SenderOrder(w)
  BY DEF FlowInv
<1> QED BY <1>1 DEF SenderOrder

\* All of it: a step that gives connections and readers nothing.
LEMMA QuietStep ==
  ASSUME FlowInv, FlowTypes', UNCHANGED <<recvRing, got>>,
         \A w \in Writers : Onward(w) /\ SenderOrder(w)',
         \A w \in Writers, r \in Readers : Cut(w, r)
  PROVE  FlowInv'
<1>1. \A w \in Writers, r \in Readers : PipeOrder(w, r)' /\ Flows(w, r)
  BY PipesShrink
<1>2. \A r \in Readers : ReaderOrder(r)'
  BY <1>1, ReaderRests
<1> QED BY <1>1, <1>2 DEF FlowInv

\* The ends come and go: approval, start, stop and their failures.
LEMMA EndSteps ==
  ASSUME FlowInv, NEW e \in Ends,
         ApplyMasterApproval(e) \/ StartFails(e) \/ Start(e) \/ Stop(e)
  PROVE  FlowInv'
<1>1. /\ UNCHANGED <<sendRing, committed, frame, sendSeq, pipe, recvRing, got>>
      /\ sendPc' = sendPc \/ Start(e)
  BY DEF ApplyMasterApproval, StartFails, Start, Stop, writerVars, readerVars
<1>2. FlowTypes /\ \A w \in Writers : SenderOrder(w)
  BY DEF FlowInv
<1>3. state' \in [Ends -> EndStates] /\ state \in [Ends -> EndStates]
  BY <1>2 DEF FlowTypes, ApplyMasterApproval, StartFails, Start, Stop, EndStates
<1>4. /\ \A w \in Writers : w = e /\ Start(e) => state[w] = "configured" /\ state'[w] = "active"
      /\ \A w \in Writers : state'[w] \in Unstarted => state[w] \in Unstarted
  BY <1>3 DEF ApplyMasterApproval, StartFails, Start, Stop, IsConfigured, Unstarted, Ends
<1>5. /\ sendPc' \in [Writers -> SendPcs]
      /\ \A w \in Writers : ~(w = e /\ Start(e)) => sendPc'[w] = sendPc[w]
      /\ \A w \in Writers : w = e /\ Start(e) => sendPc'[w] = "top"
  BY <1>1, <1>2 DEF FlowTypes, Start, SendPcs
<1>6. FlowTypes'
  BY <1>1, <1>2, <1>3, <1>5 DEF FlowTypes
<1>7. ASSUME NEW w \in Writers  PROVE Onward(w) /\ SenderOrder(w)'
  <2>1. CASE w = e /\ Start(e)
    <3>1. sendPc[w] = "off" /\ sendPc'[w] = "top" /\ state'[w] = "active"
      BY <1>2, <1>4, <1>5, <2>1 DEF SenderOrder, Unstarted
    <3>2. Onward(w)
      BY <1>1, <1>2, <3>1, OnwardQuiet
    <3>3. SenderOrder(w)'
      BY <1>1, <3>1, SenderKeeps DEF Unstarted
    <3> QED BY <3>2, <3>3
  <2>2. CASE ~(w = e /\ Start(e))
    <3>1. sendPc'[w] = sendPc[w] /\ (state'[w] \in Unstarted => sendPc[w] = "off")
      BY <1>2, <1>4, <1>5, <2>2 DEF SenderOrder
    <3>2. Onward(w)
      BY <1>1, <1>2, <3>1, OnwardQuiet
    <3>3. SenderOrder(w)'
      BY <1>1, <3>1, SenderKeeps
    <3> QED BY <3>2, <3>3
  <2> QED BY <2>1, <2>2
<1>8. \A w \in Writers, r \in Readers : Cut(w, r)
  BY <1>1, <1>2, CutQuiet
<1> QED BY <1>1, <1>6, <1>7, <1>8, QuietStep

\* The writer's call and its thread, where no item changes place.  The thread's
\* packed frame is the head of its ring.
LEMMA SenderQuiet ==
  ASSUME FlowInv, NEW w \in Writers,
         WriteAcquire(w) \/ WriteDiscard(w) \/ SendTop(w) \/ SendSleep(w) \/ SendFails(w)
           \/ StopNotify(w)
  PROVE  FlowInv'
<1>1. /\ UNCHANGED <<sendRing, committed, pipe, recvRing, got>>
      /\ state' = state \/ StopNotify(w)
      /\ (sendSeq' = sendSeq /\ frame' = frame) \/ SendTop(w)
  BY DEF WriteAcquire, WriteDiscard, SendTop, SendSleep, SendFails, StopNotify, writerVars, readerVars
<1>2. FlowTypes /\ \A x \in Writers : SenderOrder(x)
  BY DEF FlowInv
<1>3. state' \in [Ends -> EndStates] /\ \A x \in Writers : state'[x] \in Unstarted => state[x] \in Unstarted
  BY <1>1, <1>2 DEF FlowTypes, StopNotify, EndStates, Unstarted, Ends
<1>4. /\ sendPc' \in [Writers -> SendPcs]
      /\ \A x \in Writers : x # w => sendPc'[x] = sendPc[x]
      /\ sendPc'[w] = sendPc[w] \/ sendPc[w] \in {"top", "block", "send", "asleep"}
  BY <1>2 DEF FlowTypes, WriteAcquire, WriteDiscard, SendTop, SendSleep, SendFails, StopNotify,
              WakeSender, SendPcs
<1>5. /\ sendPc'[w] = "send" => (sendPc[w] = "send" /\ frame' = frame) \/ SendTop(w)
      /\ sendPc'[w] = "advance" => sendPc[w] \in {"send", "advance"} /\ frame' = frame
  <2>1. CASE SendTop(w)
    BY <1>2, <2>1 DEF FlowTypes, SendTop
  <2>2. CASE ~SendTop(w)
    BY <1>1, <1>2, <2>2 DEF FlowTypes, WriteAcquire, WriteDiscard, SendSleep, SendFails, StopNotify,
              WakeSender
  <2> QED BY <2>1, <2>2
<1>6. /\ sendSeq' \in [Writers -> Nat] /\ frame' \in [Writers -> Packets]
      /\ \A x \in Writers : x # w => frame'[x] = frame[x]
      /\ SendTop(w) /\ sendPc'[w] \in {"send", "advance"} =>
            sendRing[w] # <<>> /\ frame'[w].item = sendRing[w][1]
  <2>1. CASE ~SendTop(w)
    BY <1>1, <1>2, <2>1 DEF FlowTypes
  <2>2. CASE SendTop(w) /\ sendRing[w] = <<>>
    BY <1>2, <2>2 DEF FlowTypes, SendTop
  <2>3. CASE SendTop(w) /\ sendRing[w] # <<>>
    <3>1. /\ sendSeq' = [sendSeq EXCEPT ![w] = sendSeq[w] + 1]
          /\ frame' = [frame EXCEPT ![w] = [seq |-> sendSeq[w], item |-> Head(sendRing[w])]]
      BY <2>3 DEF SendTop
    <3>2. sendSeq \in [Writers -> Nat] /\ frame \in [Writers -> Packets]
      BY <1>2 DEF FlowTypes
    <3>3. Head(sendRing[w]) \in Nat /\ Head(sendRing[w]) = sendRing[w][1]
      BY <1>2, <2>3, TailOf, TypesOfSender
    <3>4. sendSeq[w] \in Nat /\ sendSeq[w] + 1 \in Nat
      BY SMT, <3>2
    <3>5. \A a, b \in Nat : /\ [seq |-> a, item |-> b] \in Packets
                            /\ [seq |-> a, item |-> b].item = b
      BY SMT DEF Packets
    <3> QED BY <2>3, <3>1, <3>2, <3>3, <3>4, <3>5
  <2> QED BY <2>1, <2>2, <2>3
<1>7. FlowTypes'
  BY <1>1, <1>2, <1>3, <1>4, <1>6 DEF FlowTypes
<1>8. ASSUME NEW x \in Writers  PROVE Onward(x) /\ SenderOrder(x)'
  <2>1. sendPc[x] = "advance" => sendPc'[x] = "advance"
    BY <1>4
  <2>2. Onward(x)
    BY <1>1, <1>2, <2>1, OnwardQuiet
  <2>3. state'[x] \in Unstarted => sendPc'[x] = "off"
    BY <1>2, <1>3, <1>4 DEF SenderOrder
  <2>4. CASE x # w \/ ~SendTop(w)
    <3>1. sendPc'[x] \in {"send", "advance"} =>
             sendPc[x] \in {"send", "advance"} /\ frame'[x] = frame[x]
      BY <1>1, <1>4, <1>5, <1>6, <2>4
    <3> QED BY <1>1, <2>2, <2>3, <3>1, SenderKeeps
  <2>5. CASE x = w /\ SendTop(w)
    BY <1>1, <1>2, <1>6, <2>2, <2>3, <2>5 DEF SenderOrder
  <2> QED BY <2>4, <2>5
<1>9. \A x \in Writers, r \in Readers : Cut(x, r)
  BY <1>1, <1>2, CutQuiet
<1> QED BY <1>1, <1>7, <1>8, <1>9, QuietStep

-----------------------------------------------------------------------------
(* Steps of the writer that move an item                                   *)

\* write_commit: the new item is newer than all others of its writer.
LEMMA CommitStep ==
  ASSUME FlowInv, NEW w \in Writers, WriteCommit(w)
  PROVE  FlowInv'
<1>1. FlowTypes /\ \A x \in Writers : SenderOrder(x)
  BY DEF FlowInv
<1>2. /\ UNCHANGED <<state, frame, sendSeq, pipe, recvRing, got>>
      /\ committed' = [committed EXCEPT ![w] = committed[w] + 1]
      /\ \/ sendRing' = [sendRing EXCEPT ![w] = Append(sendRing[w], committed[w] + 1)]
         \/ sendRing' = sendRing
      /\ sendPc' \in [Writers -> SendPcs]
      /\ \A x \in Writers : sendPc'[x] = sendPc[x] \/ (sendPc[x] = "asleep" /\ sendPc'[x] = "top")
  BY <1>1 DEF WriteCommit, WakeSender, readerVars, FlowTypes, SendPcs
<1> DEFINE q == sendRing[w]  k == committed[w]
<1>3. q \in Seq(Nat) /\ k \in Nat /\ k + 1 \in Nat /\ k <= k + 1 /\ k < k + 1
  <2>1. q \in Seq(Nat) /\ k \in Nat
    BY <1>1, TypesOfSender
  <2> QED BY SMT, <2>1
<1>4. /\ committed \in [Writers -> Nat] /\ sendRing \in [Writers -> Seq(Nat)]
      /\ committed' \in [Writers -> Nat] /\ sendRing' \in [Writers -> Seq(Nat)]
  <2>1. Append(q, k + 1) \in Seq(Nat)
    BY SMT, <1>3
  <2> QED BY <1>1, <1>2, <1>3, <2>1 DEF FlowTypes
<1>5. FlowTypes'
  BY <1>1, <1>2, <1>4 DEF FlowTypes
<1>6. /\ committed'[w] = k + 1 /\ (sendRing'[w] = q \/ sendRing'[w] = Append(q, k + 1))
      /\ \A x \in Writers : x # w => committed'[x] = committed[x] /\ sendRing'[x] = sendRing[x]
  BY <1>2, <1>4
<1>7. ASSUME NEW x \in Writers  PROVE state'[x] \in Unstarted => sendPc'[x] = "off"
  BY <1>1, <1>2 DEF SenderOrder
<1>8. ASSUME NEW x \in Writers, x # w  PROVE Onward(x) /\ SenderOrder(x)'
  <2>1. sendPc'[x] \in {"send", "advance"} =>
           sendPc[x] \in {"send", "advance"} /\ frame'[x] = frame[x]
    BY <1>2
  <2>2. SenderOrder(x)'
    BY <1>6, <1>7, <1>8, <2>1, SenderKeeps
  <2>3. Onward(x)
    BY <1>1, <1>2, <1>6, <1>8, OnwardQuiet
  <2> QED BY <2>2, <2>3
<1>9. /\ FirstNext(w) = FirstUnsent(w) /\ FirstUnsent(w) \in {1, 2}
      /\ sendPc'[w] \in {"send", "advance"} => sendPc[w] \in {"send", "advance"} /\ frame'[w] = frame[w]
  BY <1>2 DEF FirstNext, FirstUnsent
<1>10. /\ \A i \in 1..Len(q) : q[i] \in 1..k
       /\ \A i, j \in 1..Len(q) : i < j => q[i] < q[j]
       /\ sendPc[w] \in {"send", "advance"} => q # <<>> /\ frame[w].item = q[1]
  BY <1>1 DEF SenderOrder
<1> HIDE DEF q, k
<1>11. \A i \in 1..k : i \in 1..k + 1 /\ i < k + 1
  BY SMT, <1>3
<1>12. Onward(w) /\ SenderOrder(w)'
  <2>1. CASE sendRing'[w] = q
    <3>1. \A i \in 1..Len(q) : q[i] \in 1..k + 1
      BY <1>10, <1>11
    <3>2. SenderOrder(w)'
      BY <1>6, <1>7, <1>9, <1>10, <2>1, <3>1 DEF SenderOrder
    <3>3. Onward(w)
      BY <1>3, <1>6, <1>9, <2>1 DEF Onward, q, k
    <3> QED BY <3>2, <3>3
  <2>2. CASE sendRing'[w] = Append(q, k + 1)
    <3> DEFINE p == Append(q, k + 1)
    <3>1. /\ Len(p) = Len(q) + 1 /\ Len(q) \in Nat
          /\ \A i \in 1..Len(q) + 1 : IF i = Len(q) + 1 THEN p[i] = k + 1
                                       ELSE i \in 1..Len(q) /\ p[i] = q[i]
      BY SMT, <1>3
    <3>2. k + 1 \in 1..k + 1
      BY SMT, <1>3
    <3> HIDE DEF p
    <3>3. \A i \in 1..Len(p) : p[i] \in 1..k + 1
      BY <1>10, <1>11, <3>1, <3>2
    <3>4. /\ \A i, j \in 1..Len(p) : i < j => i # Len(q) + 1
          /\ q # <<>> => 1 \in 1..Len(p) /\ 1 # Len(q) + 1
          /\ p # <<>>
          /\ \A i \in FirstUnsent(w)..Len(p) : i \in 1..Len(p)
                /\ (i # Len(q) + 1 => i \in FirstUnsent(w)..Len(q))
      <4>1. q # <<>> => Len(q) # 0
        BY SMT, <1>3
      <4>2. p # <<>>
        BY SMT, <3>1
      <4>3. \A i, j \in 1..Len(p) : i < j => i # Len(q) + 1
        BY SMT, <3>1
      <4>4. q # <<>> => 1 \in 1..Len(p) /\ 1 # Len(q) + 1
        BY SMT, <3>1, <4>1
      <4>5. \A i \in FirstUnsent(w)..Len(p) : i \in 1..Len(p)
                /\ (i # Len(q) + 1 => i \in FirstUnsent(w)..Len(q))
        BY SMT, <1>9, <3>1
      <4> QED BY <4>2, <4>3, <4>4, <4>5
    <3>5. \A i, j \in 1..Len(p) : i < j => p[i] < p[j]
      <4> SUFFICES ASSUME NEW i \in 1..Len(p), NEW j \in 1..Len(p), i < j  PROVE p[i] < p[j]
        OBVIOUS
      <4>1. i \in 1..Len(q) /\ p[i] = q[i] /\ q[i] \in 1..k
        BY <1>10, <3>1, <3>4
      <4>2. CASE j = Len(q) + 1
        BY <1>11, <3>1, <4>1, <4>2
      <4>3. CASE j # Len(q) + 1
        BY <1>10, <3>1, <4>1, <4>3
      <4> QED BY <4>2, <4>3
    <3>6. sendPc'[w] \in {"send", "advance"} => p # <<>> /\ frame'[w].item = p[1]
      BY <1>9, <1>10, <3>1, <3>4
    <3>7. SenderOrder(w)'
      BY <1>6, <1>7, <2>2, <3>3, <3>5, <3>6 DEF SenderOrder, p
    <3>8. Onward(w)
      <4>1. \A i \in FirstUnsent(w)..Len(p) :
               k < p[i] \/ \E j \in FirstUnsent(w)..Len(q) : p[i] = q[j]
        BY <1>3, <3>1, <3>4
      <4>2. sendRing'[w] = p /\ FirstNext(w) = FirstUnsent(w) /\ k <= committed'[w]
        BY <1>3, <1>6, <1>9, <2>2 DEF p
      <4>3. \A i \in FirstNext(w)..Len(sendRing'[w]) :
               k < sendRing'[w][i] \/ \E j \in FirstUnsent(w)..Len(q) : sendRing'[w][i] = q[j]
        BY <4>1, <4>2
      <4> QED BY <4>2, <4>3 DEF Onward, q, k
    <3> QED BY <3>7, <3>8
  <2> QED BY <1>6, <2>1, <2>2
<1>13. \A x \in Writers, r \in Readers : Cut(x, r)
  BY <1>1, <1>2, CutQuiet
<1>14. \A x \in Writers : Onward(x) /\ SenderOrder(x)'
  BY <1>8, <1>12
<1> QED BY <1>2, <1>5, <1>13, <1>14, QuietStep

\* The head leaves the send ring once its frame is gone.
LEMMA AdvanceStep ==
  ASSUME FlowInv, NEW w \in Writers, SendAdvance(w)
  PROVE  FlowInv'
<1>1. FlowTypes /\ \A x \in Writers : SenderOrder(x)
  BY DEF FlowInv
<1>2. /\ UNCHANGED <<state, committed, sendSeq, pipe, recvRing, got>>
      /\ sendPc[w] = "advance" /\ sendPc' = [sendPc EXCEPT ![w] = "top"]
      /\ sendRing' = [sendRing EXCEPT ![w] = Tail(sendRing[w])]
      /\ frame' = [frame EXCEPT ![w] = NoFrame]
  BY DEF SendAdvance, readerVars
<1> DEFINE q == sendRing[w]  k == committed[w]
<1>3. q \in Seq(Nat) /\ q # <<>>
  BY <1>1, <1>2, TypesOfSender DEF SenderOrder
<1>4. /\ Tail(q) \in Seq(Nat) /\ Len(q) \in Nat
      /\ \A i \in 1..Len(Tail(q)) : i + 1 \in 1..Len(q) /\ i + 1 \in 2..Len(q) /\ Tail(q)[i] = q[i + 1]
      /\ \A i, j \in 1..Len(Tail(q)) : i < j => i + 1 < j + 1
  BY SMT, <1>3
<1>5. FlowTypes'
  <2>1. NoFrame \in Packets
    BY SMT DEF NoFrame, Packets
  <2>2. sendPc' \in [Writers -> SendPcs] /\ frame' \in [Writers -> Packets]
    BY <1>1, <1>2, <2>1 DEF FlowTypes, SendPcs
  <2>3. sendRing' \in [Writers -> Seq(Nat)]
    BY <1>1, <1>2, <1>4 DEF FlowTypes
  <2> QED BY <1>1, <1>2, <2>2, <2>3 DEF FlowTypes
<1>6. /\ sendRing'[w] = Tail(q) /\ sendPc'[w] = "top" /\ committed'[w] = k /\ state'[w] = state[w]
      /\ \A x \in Writers : x # w => /\ sendRing'[x] = sendRing[x] /\ sendPc'[x] = sendPc[x]
                                     /\ frame'[x] = frame[x] /\ committed'[x] = committed[x]
  BY <1>1, <1>2 DEF FlowTypes
<1>7. ASSUME NEW x \in Writers, x # w  PROVE Onward(x) /\ SenderOrder(x)'
  <2>1. state'[x] \in Unstarted => sendPc'[x] = "off"
    BY <1>1, <1>2, <1>6, <1>7 DEF SenderOrder
  <2>2. SenderOrder(x)'
    BY <1>6, <1>7, <2>1, SenderKeeps
  <2>3. Onward(x)
    BY <1>1, <1>6, <1>7, OnwardQuiet
  <2> QED BY <2>2, <2>3
<1>8. /\ \A i \in 1..Len(q) : q[i] \in 1..k
      /\ \A i, j \in 1..Len(q) : i < j => q[i] < q[j]
      /\ state[w] \notin Unstarted
  BY <1>1, <1>2 DEF SenderOrder
<1>9. FirstNext(w) = 1 /\ FirstUnsent(w) = 2 /\ committed[w] <= committed[w]
  <2>1. FirstNext(w) = 1 /\ FirstUnsent(w) = 2
    BY <1>2, <1>6 DEF FirstNext, FirstUnsent
  <2>2. committed[w] \in Nat
    BY <1>1, TypesOfSender
  <2> QED BY SMT, <2>1, <2>2
<1> HIDE DEF q, k
<1>10. Onward(w)
  <2>1. \A i \in 1..Len(Tail(q)) : \E j \in 2..Len(q) : Tail(q)[i] = q[j]
    BY <1>4
  <2>2. FirstNext(w)..Len(sendRing'[w]) = 1..Len(Tail(q)) /\ FirstUnsent(w)..Len(q) = 2..Len(q)
    BY <1>6, <1>9
  <2>3. \A i \in FirstNext(w)..Len(sendRing'[w]) :
           \E j \in FirstUnsent(w)..Len(q) : sendRing'[w][i] = q[j]
    <3> SUFFICES ASSUME NEW i \in 1..Len(Tail(q))
                 PROVE  \E j \in 2..Len(q) : sendRing'[w][i] = q[j]
      BY <2>2
    <3>1. PICK j \in 2..Len(q) : Tail(q)[i] = q[j]
      BY <2>1
    <3>2. sendRing'[w][i] = q[j]
      BY <1>6, <3>1
    <3> QED BY <3>2
  <2>4. committed[w] <= committed'[w]
    BY <1>6, <1>9 DEF k
  <2> QED BY <2>3, <2>4 DEF Onward, q
<1>11. SenderOrder(w)'
  <2>1. \A i \in 1..Len(Tail(q)) : Tail(q)[i] \in 1..k
    BY <1>4, <1>8
  <2>2. \A i, j \in 1..Len(Tail(q)) : i < j => Tail(q)[i] < Tail(q)[j]
    BY <1>4, <1>8
  <2> QED BY <1>6, <1>8, <2>1, <2>2 DEF SenderOrder
<1>12. \A x \in Writers, r \in Readers : Cut(x, r)
  BY <1>1, <1>2, CutQuiet
<1>13. \A x \in Writers : Onward(x) /\ SenderOrder(x)'
  BY <1>7, <1>10, <1>11
<1> QED BY <1>2, <1>5, <1>12, <1>13, QuietStep

\* The socket takes a frame: it is newer than what the connections hold and
\* older than what is left to send.
LEMMA TransmitStep ==
  ASSUME FlowInv, NEW w \in Writers, SendFrame(w)
  PROVE  FlowInv'
<1>1. FlowTypes /\ \A x \in Writers : SenderOrder(x)
  BY DEF FlowInv
<1> DEFINE R == {r \in Targets(w) : HasRoom(w, r)}
<1>2. /\ UNCHANGED <<state, committed, sendRing, frame, sendSeq, recvRing, got>>
      /\ sendPc[w] = "send" /\ sendPc' = [sendPc EXCEPT ![w] = "advance"]
      /\ pipe' = [pipe EXCEPT ![w] = [r \in Readers |->
                     IF r \in R THEN Append(pipe[w][r], frame[w]) ELSE pipe[w][r]]]
  BY DEF SendFrame, Transmit, readerVars
<1> HIDE DEF R
<1>3. pipe \in [Writers -> [Readers -> Seq(Packets)]] /\ frame[w] \in Packets
  BY <1>1 DEF FlowTypes
<1>4. \A q \in Seq(Packets), f \in Packets :
         /\ Append(q, f) \in Seq(Packets) /\ Len(q) \in Nat
         /\ \A i \in 1..Len(Append(q, f)) : IF i = Len(q) + 1 THEN Append(q, f)[i] = f
                                            ELSE i \in 1..Len(q) /\ Append(q, f)[i] = q[i]
         /\ \A i, j \in 1..Len(Append(q, f)) : i < j => i # Len(q) + 1
  BY SMT
<1>5. /\ \A x \in Writers, r \in Readers : x # w => pipe'[x][r] = pipe[x][r]
      /\ \A r \in Readers : \/ pipe'[w][r] = pipe[w][r]
                             \/ pipe'[w][r] = Append(pipe[w][r], frame[w])
  BY <1>2, <1>3
<1>6. pipe' \in [Writers -> [Readers -> Seq(Packets)]]
  <2>1. pipe[w] \in [Readers -> Seq(Packets)]
    BY <1>3
  <2>2. \A r \in Readers : Append(pipe[w][r], frame[w]) \in Seq(Packets) /\ pipe[w][r] \in Seq(Packets)
    BY <1>3, <1>4, <2>1
  <2>3. [r \in Readers |-> IF r \in R THEN Append(pipe[w][r], frame[w]) ELSE pipe[w][r]]
          \in [Readers -> Seq(Packets)]
    BY <2>2
  <2> QED BY <1>2, <1>3, <2>3
<1>7. sendPc' \in [Writers -> SendPcs] /\ sendPc'[w] = "advance"
      /\ \A x \in Writers : x # w => sendPc'[x] = sendPc[x]
  BY <1>1, <1>2 DEF FlowTypes, SendPcs
<1>8. FlowTypes'
  BY <1>1, <1>2, <1>6, <1>7 DEF FlowTypes
<1>9. ASSUME NEW x \in Writers  PROVE Onward(x) /\ SenderOrder(x)'
  <2>1. state'[x] \in Unstarted => sendPc'[x] = "off"
    BY <1>1, <1>2, <1>7 DEF SenderOrder
  <2>2. SenderOrder(x)'
    BY <1>2, <1>7, <2>1, SenderKeeps
  <2>3. Onward(x)
    BY <1>1, <1>2, <1>7, OnwardQuiet
  <2> QED BY <2>2, <2>3
<1> DEFINE n == frame[w].item
<1>10. /\ n = sendRing[w][1] /\ 1 \in FirstUnsent(w)..Len(sendRing[w]) /\ n \in 1..committed[w]
       /\ \A i \in 2..Len(sendRing[w]) : n < sendRing[w][i]
  <2>1. /\ sendRing[w] # <<>> /\ n = sendRing[w][1]
        /\ \A i \in 1..Len(sendRing[w]) : sendRing[w][i] \in 1..committed[w]
        /\ \A i, j \in 1..Len(sendRing[w]) : i < j => sendRing[w][i] < sendRing[w][j]
    BY <1>1, <1>2 DEF SenderOrder
  <2>2. sendRing[w] \in Seq(Nat) /\ FirstUnsent(w) = 1
    BY <1>1, <1>2, TypesOfSender DEF FirstUnsent
  <2>3. 1 \in 1..Len(sendRing[w]) /\ \A i \in 2..Len(sendRing[w]) : i \in 1..Len(sendRing[w]) /\ 1 < i
    BY SMT, <2>1, <2>2
  <2> QED BY <2>1, <2>2, <2>3
<1> HIDE DEF n
<1>11. SentNext(w, n)
  <2>1. FirstNext(w) = 2
    BY <1>7 DEF FirstNext
  <2> QED BY <1>2, <1>10, <2>1 DEF SentNext
<1>12. ASSUME NEW r \in Readers  PROVE Flows(w, r) /\ PipeOrder(w, r)'
  <2>1. CASE pipe'[w][r] = pipe[w][r]
    BY <1>1, <1>8, <1>9, <2>1, CutQuiet, PipesShrink
  <2>2. CASE pipe'[w][r] = Append(pipe[w][r], frame[w])
    <3> DEFINE q == pipe[w][r]  p == pipe'[w][r]
    <3>1. q \in Seq(Packets) /\ p = Append(q, frame[w])
      BY <1>1, <2>2, TypesOfPipe
    <3>2. /\ \A i \in 1..Len(q) : Sent(w, q[i].item)
          /\ \A i, j \in 1..Len(q) : i < j => q[i].item < q[j].item
      BY DEF FlowInv, PipeOrder
    <3>3. \A i \in 1..Len(q) : q[i].item < n
      BY <1>10, <3>2 DEF Sent
    <3>4. \A m : Sent(w, m) => SentNext(w, m)
      BY <1>1, <1>8, <1>9, SentStays
    <3> HIDE DEF q, p
    <3>5. /\ \A i \in 1..Len(p) : IF i = Len(q) + 1 THEN p[i] = frame[w]
                                  ELSE i \in 1..Len(q) /\ p[i] = q[i]
          /\ \A i, j \in 1..Len(p) : i < j => i # Len(q) + 1
      BY <1>3, <1>4, <3>1
    <3>6. \A i \in 1..Len(p) : SentNext(w, p[i].item)
      BY <1>11, <3>5, <3>2, <3>4 DEF n
    <3>7. \A i, j \in 1..Len(p) : i < j => p[i].item < p[j].item
      <4> SUFFICES ASSUME NEW i \in 1..Len(p), NEW j \in 1..Len(p), i < j
                   PROVE  p[i].item < p[j].item
        OBVIOUS
      <4>1. i \in 1..Len(q) /\ p[i] = q[i]
        BY <3>5
      <4>2. CASE j = Len(q) + 1
        BY <3>5, <3>3, <4>1, <4>2 DEF n
      <4>3. CASE j # Len(q) + 1
        BY <3>5, <3>2, <4>1, <4>3
      <4> QED BY <4>2, <4>3
    <3>8. Flows(w, r)
      BY <1>10, <3>5 DEF Flows, n, p, q
    <3> QED BY <3>6, <3>7, <3>8 DEF PipeOrder, Sent, SentNext, FirstUnsent, FirstNext, p
  <2> QED BY <1>5, <2>1, <2>2
<1>13. \A x \in Writers, r \in Readers : Flows(x, r) /\ PipeOrder(x, r)'
  <2>1. \A x \in Writers, r \in Readers : x # w => Flows(x, r) /\ PipeOrder(x, r)'
    BY <1>1, <1>5, <1>8, <1>9, CutQuiet, PipesShrink
  <2> QED BY <1>12, <2>1
<1>14. \A r \in Readers : ReaderOrder(r)'
  BY <1>2, <1>8, <1>9, <1>13, ReaderRests
<1> QED BY <1>8, <1>9, <1>13, <1>14 DEF FlowInv

-----------------------------------------------------------------------------
(* Steps of the connections and the reader                                 *)

\* A step that leaves the writers' rings and threads alone.
LEMMA SendersRest ==
  ASSUME FlowInv, UNCHANGED <<sendRing, committed, frame, sendPc>>,
         \A w \in Writers : state'[w] \in Unstarted => state[w] \in Unstarted
  PROVE  \A w \in Writers : Onward(w) /\ SenderOrder(w)'
<1> SUFFICES ASSUME NEW w \in Writers  PROVE Onward(w) /\ SenderOrder(w)'
  OBVIOUS
<1>1. FlowTypes /\ SenderOrder(w)
  BY DEF FlowInv
<1>2. Onward(w)
  BY <1>1, OnwardQuiet
<1>3. state'[w] \in Unstarted => sendPc'[w] = "off"
  BY <1>1 DEF SenderOrder
<1>4. SenderOrder(w)'
  BY <1>3, SenderKeeps
<1> QED BY <1>2, <1>4

\* The oldest frame leaves one connection.
LEMMA TakeCuts ==
  ASSUME FlowTypes, NEW w \in Writers, NEW r \in Readers, pipe[w][r] # <<>>, TakeFrame(w, r)
  PROVE  /\ pipe' \in [Writers -> [Readers -> Seq(Packets)]]
         /\ pipe'[w][r] = Tail(pipe[w][r])
         /\ \A x \in Writers, s \in Readers : Cut(x, s)
<1>1. pipe' = [pipe EXCEPT ![w][r] = Tail(pipe[w][r])]
  BY DEF TakeFrame
<1>2. pipe \in [Writers -> [Readers -> Seq(Packets)]] /\ pipe[w] \in [Readers -> Seq(Packets)]
  BY DEF FlowTypes
<1> DEFINE q == pipe[w][r]
<1>3. q \in Seq(Packets)
  BY <1>2
<1>4. pipe'[w][r] = Tail(q) /\ \A x \in Writers, s \in Readers :
                                 x # w \/ s # r => pipe'[x][s] = pipe[x][s]
  BY <1>1, <1>2
<1> HIDE DEF q
<1>5. /\ Tail(q) \in Seq(Packets) /\ Len(Tail(q)) + 1 <= Len(q) /\ 1 \in Nat
      /\ \A i \in 1..Len(Tail(q)) : Tail(q)[i] = q[i + 1]
  <2>1. q # <<>>
    BY DEF q
  <2> QED BY SMT, <1>3, <2>1
<1>6. pipe' \in [Writers -> [Readers -> Seq(Packets)]]
  BY <1>1, <1>2, <1>5 DEF q
<1>7. Cut(w, r)
  BY <1>4, <1>5 DEF Cut, q
<1>8. \A x \in Writers, s \in Readers : x # w \/ s # r => Cut(x, s)
  BY <1>4, CutQuiet
<1> QED BY <1>4, <1>6, <1>7, <1>8 DEF q

\* A frame lost on the way or refused by the receive thread.
LEMMA LossStep ==
  ASSUME FlowInv, NEW w \in Writers, NEW r \in Readers, RecvDamaged(r, w) \/ LoseFrame(w, r)
  PROVE  FlowInv'
<1>1. /\ UNCHANGED <<state, sendRing, committed, frame, sendPc, sendSeq, recvRing, got>>
      /\ pipe[w][r] # <<>> /\ TakeFrame(w, r)
  BY DEF RecvDamaged, LoseFrame, writerVars, readerVars
<1>2. FlowTypes
  BY DEF FlowInv
<1>3. pipe' \in [Writers -> [Readers -> Seq(Packets)]] /\ \A x \in Writers, s \in Readers : Cut(x, s)
  BY <1>1, <1>2, TakeCuts
<1>4. FlowTypes'
  BY <1>1, <1>2, <1>3 DEF FlowTypes
<1>5. \A x \in Writers : Onward(x) /\ SenderOrder(x)'
  BY <1>1, SendersRest
<1> QED BY <1>1, <1>3, <1>4, <1>5, QuietStep

\* A closing socket drops a last stretch of its connections, or all of them.
LEMMA CloseStep ==
  ASSUME FlowInv, NEW e \in Ends,
         QueueAssumption,
         (e \in Writers /\ CloseWriter(e)) \/ (e \in Readers /\ CloseReader(e))
  PROVE  FlowInv'
<1>1. FlowTypes /\ pipe \in [Writers -> [Readers -> Seq(Packets)]] /\ state \in [Ends -> EndStates]
  BY DEF FlowInv, FlowTypes
<1>2. /\ UNCHANGED <<sendRing, committed, frame, sendPc, sendSeq, recvRing, got>>
      /\ state' = [state EXCEPT ![e] = "stopped"]
  BY DEF CloseWriter, CloseReader, writerVars, readerVars
<1>3. /\ state' \in [Ends -> EndStates]
      /\ \A w \in Writers : state'[w] \in Unstarted => state[w] \in Unstarted
  BY <1>1, <1>2 DEF EndStates, Unstarted, Ends
<1>4. \A x \in Writers : Onward(x) /\ SenderOrder(x)'
  BY <1>2, <1>3, SendersRest
<1>5. pipe' \in [Writers -> [Readers -> Seq(Packets)]] /\ \A x \in Writers, s \in Readers : Cut(x, s)
  <2>1. CASE e \in Writers /\ CloseWriter(e)
    <3>1. PICK keep \in [Readers -> 0..Hwm] :
             /\ \A r \in Readers : keep[r] <= Len(pipe[e][r])
             /\ pipe' = [pipe EXCEPT ![e] = [r \in Readers |-> SubSeq(pipe[e][r], 1, keep[r])]]
      BY <2>1 DEF CloseWriter
    <3>2. \A q \in Seq(Packets), k \in 0..Hwm : k <= Len(q) =>
             /\ SubSeq(q, 1, k) \in Seq(Packets) /\ Len(SubSeq(q, 1, k)) + 0 <= Len(q) /\ 0 \in Nat
             /\ \A i \in 1..Len(SubSeq(q, 1, k)) : SubSeq(q, 1, k)[i] = q[i + 0]
      BY SMT DEF QueueAssumption
    <3>3. \A r \in Readers : pipe[e][r] \in Seq(Packets) /\ keep[r] \in 0..Hwm
                             /\ keep[r] <= Len(pipe[e][r])
      BY <1>1, <2>1, <3>1
    <3>4. [r \in Readers |-> SubSeq(pipe[e][r], 1, keep[r])] \in [Readers -> Seq(Packets)]
      BY <3>2, <3>3
    <3>5. pipe' \in [Writers -> [Readers -> Seq(Packets)]]
      BY <1>1, <3>1, <3>4
    <3>6. ASSUME NEW r \in Readers  PROVE Cut(e, r)
      <4> DEFINE q == pipe[e][r]  p == pipe'[e][r]  k == keep[r]
      <4>1. p = SubSeq(q, 1, k)
        BY <1>1, <2>1, <3>1
      <4>2. q \in Seq(Packets) /\ k \in 0..Hwm /\ k <= Len(q)
        BY <3>3
      <4> HIDE DEF p, q, k
      <4>3. /\ Len(SubSeq(q, 1, k)) + 0 <= Len(q) /\ 0 \in Nat
            /\ \A i \in 1..Len(SubSeq(q, 1, k)) : SubSeq(q, 1, k)[i] = q[i + 0]
        BY <3>2, <4>2
      <4>4. /\ Len(p) + 0 <= Len(q) /\ 0 \in Nat
            /\ \A i \in 1..Len(p) : p[i] = q[i + 0]
        BY <4>1, <4>3
      <4> QED BY <4>4 DEF Cut, p, q
    <3>7. \A x \in Writers, s \in Readers : x # e => pipe'[x][s] = pipe[x][s]
      BY <1>1, <3>1
    <3>8. \A x \in Writers, s \in Readers : x # e => Cut(x, s)
      BY <1>1, <3>7, CutQuiet
    <3> QED BY <3>5, <3>6, <3>8
  <2>2. CASE e \in Readers /\ CloseReader(e)
    <3>1. pipe' = [w \in Writers |-> [pipe[w] EXCEPT ![e] = <<>>]]
      BY <2>2 DEF CloseReader
    <3>2. \A w \in Writers : pipe'[w] \in [Readers -> Seq(Packets)] /\ pipe'[w][e] = <<>>
                             /\ \A s \in Readers : s # e => pipe'[w][s] = pipe[w][s]
      BY <1>1, <2>2, <3>1, EmptySeq
    <3>3. pipe' \in [Writers -> [Readers -> Seq(Packets)]]
      BY <3>1, <3>2
    <3>4. ASSUME NEW w \in Writers  PROVE Cut(w, e)
      <4>1. Len(pipe[w][e]) \in Nat /\ pipe'[w][e] = <<>>
        BY <1>1, <2>2, <3>2, TypesOfPipe
      <4>2. \A n \in Nat : Len(<<>>) + 0 <= n /\ 0 \in Nat /\ 1..Len(<<>>) = {}
        BY SMT
      <4>3. /\ Len(pipe'[w][e]) + 0 <= Len(pipe[w][e]) /\ 0 \in Nat /\ 1..Len(pipe'[w][e]) = {}
        BY <4>1, <4>2
      <4> QED BY <4>3 DEF Cut
    <3>5. \A x \in Writers, s \in Readers : s # e => Cut(x, s)
      BY <1>1, <3>2, CutQuiet
    <3> QED BY <3>3, <3>4, <3>5
  <2> QED BY <2>1, <2>2
<1>6. FlowTypes'
  BY <1>1, <1>2, <1>3, <1>5 DEF FlowTypes
<1> QED BY <1>2, <1>4, <1>5, <1>6, QuietStep

\* The receive ring after a push: a last stretch of what it held, and the new item.
Pushed(c, x) == Append(IF Len(c) >= RecvDepth THEN Tail(c) ELSE c, x)

Newest(p, c, x) ==
    \E d \in Nat : /\ \A i \in 1..Len(p) : IF i = Len(p) THEN p[i] = x
                                            ELSE i + d \in 1..Len(c) /\ p[i] = c[i + d]
                   /\ \A i, j \in 1..Len(p) : i < j => i # Len(p) /\ i + d < j + d

LEMMA KeepNewest ==
  ASSUME NEW S, NEW c \in Seq(S), NEW x \in S, RecvDepth \in Nat \ {0}
  PROVE  Pushed(c, x) \in Seq(S) /\ Newest(Pushed(c, x), c, x)
<1> DEFINE p == Pushed(c, x)
<1>1. CASE Len(c) >= RecvDepth
  <2>1. p = Append(Tail(c), x)
    BY <1>1 DEF Pushed
  <2> HIDE DEF p
  <2>2. /\ p \in Seq(S) /\ 1 \in Nat
        /\ \A i \in 1..Len(p) : IF i = Len(p) THEN p[i] = x ELSE i + 1 \in 1..Len(c) /\ p[i] = c[i + 1]
        /\ \A i, j \in 1..Len(p) : i < j => i # Len(p) /\ i + 1 < j + 1
    BY SMT, <1>1, <2>1
  <2>3. p \in Seq(S) /\ Newest(p, c, x)
    BY <2>2 DEF Newest
  <2> QED BY <2>3 DEF p
<1>2. CASE ~(Len(c) >= RecvDepth)
  <2>1. p = Append(c, x)
    BY <1>2 DEF Pushed
  <2> HIDE DEF p
  <2>2. /\ p \in Seq(S) /\ 0 \in Nat
        /\ \A i \in 1..Len(p) : IF i = Len(p) THEN p[i] = x ELSE i + 0 \in 1..Len(c) /\ p[i] = c[i + 0]
        /\ \A i, j \in 1..Len(p) : i < j => i # Len(p) /\ i + 0 < j + 0
    BY SMT, <2>1
  <2>3. p \in Seq(S) /\ Newest(p, c, x)
    BY <2>2 DEF Newest
  <2> QED BY <2>3 DEF p
<1> QED BY <1>1, <1>2

\* run_recv_thread_ takes the oldest frame of a connection: newer than all its
\* reader has of that writer, older than what is left on the connection.
LEMMA RecvStep ==
  ASSUME FlowInv, QueueAssumption, NEW w \in Writers, NEW r \in Readers, RecvFrame(r, w)
  PROVE  FlowInv'
<1>1. FlowTypes /\ PipeOrder(w, r) /\ ReaderOrder(r)
  BY DEF FlowInv
<1> DEFINE q == pipe[w][r]  n == Head(q).item  c == recvRing[r]  p == recvRing'[r]
<1>2. /\ UNCHANGED <<state, sendRing, committed, frame, sendPc, sendSeq, got>>
      /\ pipe[w][r] # <<>> /\ TakeFrame(w, r)
      /\ recvRing' = [recvRing EXCEPT ![r] = Pushed(c, <<w, n>>)]
  BY DEF RecvFrame, Push, Pushed, writerVars
<1>3. /\ pipe' \in [Writers -> [Readers -> Seq(Packets)]] /\ pipe'[w][r] = Tail(q)
      /\ \A x \in Writers, s \in Readers : Cut(x, s)
  BY <1>1, <1>2, TakeCuts
<1>4. /\ Head(q) = q[1] /\ 1 \in 1..Len(q) /\ Head(q) \in Packets
      /\ \A i \in 1..Len(Tail(q)) : i + 1 \in 1..Len(q) /\ 1 < i + 1 /\ Tail(q)[i] = q[i + 1]
  <2>1. q \in Seq(Packets) /\ q # <<>>
    BY <1>1, <1>2, TypesOfPipe
  <2> HIDE DEF q
  <2> QED BY SMT, <2>1
<1>5. n \in Nat /\ <<w, n>> \in Items /\ <<w, n>>[1] = w /\ <<w, n>>[2] = n
  <2>1. n \in Nat
    BY <1>1, <1>4, TypesOfPipe
  <2> HIDE DEF n
  <2>2. <<w, n>> \in Items
    BY SMT, <2>1 DEF Items
  <2>3. <<w, n>>[1] = w /\ <<w, n>>[2] = n
    BY SMT
  <2> QED BY <2>1, <2>2, <2>3
<1>6. /\ p = Pushed(c, <<w, n>>)
      /\ \A s \in Readers : s # r => recvRing'[s] = recvRing[s]
  BY <1>1, <1>2 DEF FlowTypes
<1>7. c \in Seq(Items) /\ RecvDepth \in Nat \ {0} /\ \A i \in 1..Len(c) : c[i][1] \in Writers
  BY <1>1, TypesOfReader DEF QueueAssumption
<1>8. p \in Seq(Items) /\ Newest(p, c, <<w, n>>)
  <2> HIDE DEF p, c, n
  <2> QED BY <1>5, <1>6, <1>7, KeepNewest
<1>9. recvRing' \in [Readers -> Seq(Items)]
  <2>1. recvRing \in [Readers -> Seq(Items)]
    BY <1>1 DEF FlowTypes
  <2>2. recvRing' = [recvRing EXCEPT ![r] = p]
    BY <1>2, <1>6
  <2> HIDE DEF p
  <2> QED BY <1>8, <2>1, <2>2
<1>10. FlowTypes'
  BY <1>1, <1>2, <1>3, <1>9 DEF FlowTypes
<1>11. \A x \in Writers : Onward(x) /\ SenderOrder(x)'
  BY <1>2, SendersRest
<1>12. \A x \in Writers, s \in Readers : PipeOrder(x, s)' /\ Flows(x, s)
  BY <1>3, <1>10, <1>11, PipesShrink
<1>13. \A x \in Writers : \A m : Arrived(r, x, m) => ArrivedNext(r, x, m)
  BY <1>1, <1>10, <1>11, <1>12, ArrivedStays
<1>14. ArrivedNext(r, w, n)
  <2>1. SentNext(w, n)
    BY <1>1, <1>4, <1>10, <1>11, SentStays DEF PipeOrder
  <2>2. \A i \in 1..Len(Tail(q)) : n < Tail(q)[i].item
    BY <1>1, <1>4 DEF PipeOrder
  <2> QED BY <1>3, <2>1, <2>2 DEF ArrivedNext
<1>15. \A m : Arrived(r, w, m) => m < n
  BY <1>4 DEF Arrived
<1>16. /\ \A i \in 1..Len(c) : Arrived(r, c[i][1], c[i][2])
       /\ \A i, j \in 1..Len(c) : i < j /\ c[i][1] = c[j][1] => c[i][2] < c[j][2]
       /\ \A i \in 1..Len(got[r]) : Arrived(r, got[r][i][1], got[r][i][2])
       /\ \A i \in 1..Len(got[r]), j \in 1..Len(c) : got[r][i][1] = c[j][1] => got[r][i][2] < c[j][2]
       /\ \A i \in 1..Len(got[r]) : got[r][i][1] \in Writers
  BY <1>1, TypesOfReader DEF ReaderOrder
<1> HIDE DEF p, c, n, q
<1>17. PICK d \in Nat :
         /\ \A i \in 1..Len(p) : IF i = Len(p) THEN p[i] = <<w, n>>
                                 ELSE i + d \in 1..Len(c) /\ p[i] = c[i + d]
         /\ \A i, j \in 1..Len(p) : i < j => i # Len(p) /\ i + d < j + d
  BY <1>8 DEF Newest
<1>18. \A i \in 1..Len(p) : ArrivedNext(r, p[i][1], p[i][2])
  BY <1>5, <1>7, <1>13, <1>14, <1>16, <1>17
<1>19. ASSUME NEW i \in 1..Len(p), NEW j \in 1..Len(p), i < j, p[i][1] = p[j][1]
       PROVE  p[i][2] < p[j][2]
  <2>1. i + d \in 1..Len(c) /\ p[i] = c[i + d] /\ i + d < j + d
    BY <1>17, <1>19
  <2>2. CASE j = Len(p)
    <3>1. p[j][1] = w /\ p[j][2] = n
      BY <1>5, <1>17, <2>2
    <3>2. Arrived(r, w, p[i][2])
      BY <1>16, <1>19, <2>1, <3>1
    <3> QED BY <1>15, <3>1, <3>2
  <2>3. CASE j # Len(p)
    <3>1. j + d \in 1..Len(c) /\ p[j] = c[j + d]
      BY <1>17, <2>3
    <3> QED BY <1>16, <1>19, <2>1, <3>1
  <2> QED BY <2>2, <2>3
<1>20. \A i \in 1..Len(got[r]) : ArrivedNext(r, got[r][i][1], got[r][i][2])
  BY <1>13, <1>16
<1>21. ASSUME NEW i \in 1..Len(got[r]), NEW j \in 1..Len(p), got[r][i][1] = p[j][1]
       PROVE  got[r][i][2] < p[j][2]
  <2>1. CASE j = Len(p)
    <3>1. p[j][1] = w /\ p[j][2] = n
      BY <1>5, <1>17, <2>1
    <3> QED BY <1>15, <1>16, <1>21, <3>1
  <2>2. CASE j # Len(p)
    BY <1>16, <1>17, <1>21, <2>2
  <2> QED BY <2>1, <2>2
<1>22. ReaderOrder(r)'
  <2>1. \A i \in 1..Len(recvRing'[r]) : ArrivedNext(r, recvRing'[r][i][1], recvRing'[r][i][2])
    BY <1>18 DEF p
  <2>2. \A i, j \in 1..Len(recvRing'[r]) : i < j /\ recvRing'[r][i][1] = recvRing'[r][j][1]
           => recvRing'[r][i][2] < recvRing'[r][j][2]
    BY <1>19 DEF p
  <2>3. \A i \in 1..Len(got'[r]), j \in 1..Len(recvRing'[r]) :
           got'[r][i][1] = recvRing'[r][j][1] => got'[r][i][2] < recvRing'[r][j][2]
    BY <1>2, <1>21 DEF p
  <2>4. \A i \in 1..Len(got'[r]) : ArrivedNext(r, got'[r][i][1], got'[r][i][2])
    BY <1>2, <1>20
  <2> QED BY <2>1, <2>2, <2>3, <2>4 DEF ReaderOrder, Arrived, Sent, ArrivedNext, SentNext,
                                       FirstUnsent, FirstNext
<1>23. \A s \in Readers : s # r => ReaderOrder(s)'
  BY <1>2, <1>6, <1>10, <1>11, <1>12, ReaderRests
<1> QED BY <1>10, <1>11, <1>12, <1>22, <1>23 DEF FlowInv

\* read_acquire: the oldest item of the receive ring moves to what was read.
LEMMA ReadStep ==
  ASSUME FlowInv, NEW r \in Readers, ReadAcquire(r)
  PROVE  FlowInv'
<1>1. FlowTypes /\ ReaderOrder(r)
  BY DEF FlowInv
<1> DEFINE c == recvRing[r]  g == got[r]  p == recvRing'[r]  h == got'[r]
<1>2. /\ UNCHANGED <<state, sendRing, committed, frame, sendPc, sendSeq, pipe>>
      /\ recvRing[r] # <<>>
      /\ recvRing' = [recvRing EXCEPT ![r] = Tail(c)] /\ got' = [got EXCEPT ![r] = Append(g, Head(c))]
  BY DEF ReadAcquire, writerVars
<1>3. /\ p = Tail(c) /\ h = Append(g, Head(c))
      /\ \A s \in Readers : s # r => recvRing'[s] = recvRing[s] /\ got'[s] = got[s]
  BY <1>1, <1>2 DEF FlowTypes
<1>4. c \in Seq(Items) /\ c # <<>> /\ g \in Seq(Items)
  BY <1>1, <1>2, TypesOfReader
<1>5. /\ Tail(c) \in Seq(Items) /\ Append(g, Head(c)) \in Seq(Items)
      /\ 1 \in 1..Len(c) /\ Head(c) = c[1]
      /\ \A i \in 1..Len(Tail(c)) : i + 1 \in 1..Len(c) /\ 1 < i + 1 /\ Tail(c)[i] = c[i + 1]
      /\ \A i, j \in 1..Len(Tail(c)) : i < j => i + 1 < j + 1
      /\ \A i \in 1..Len(Append(g, Head(c))) : IF i = Len(g) + 1 THEN Append(g, Head(c))[i] = c[1]
                                    ELSE i \in 1..Len(g) /\ Append(g, Head(c))[i] = g[i]
  <2> HIDE DEF c, g
  <2>1. /\ Tail(c) \in Seq(Items) /\ 1 \in 1..Len(c) /\ Head(c) = c[1] /\ Head(c) \in Items
        /\ \A i \in 1..Len(Tail(c)) : i + 1 \in 1..Len(c) /\ 1 < i + 1 /\ Tail(c)[i] = c[i + 1]
        /\ \A i, j \in 1..Len(Tail(c)) : i < j => i + 1 < j + 1
    BY SMT, <1>4
  <2> DEFINE x == Head(c)
  <2>2. x \in Items /\ x = c[1]
    BY <2>1
  <2> HIDE DEF x
  <2>3. /\ Append(g, x) \in Seq(Items)
        /\ \A i \in 1..Len(Append(g, x)) : IF i = Len(g) + 1 THEN Append(g, x)[i] = x
                                    ELSE i \in 1..Len(g) /\ Append(g, x)[i] = g[i]
    BY SMT, <1>4, <2>2
  <2>4. \A i \in 1..Len(Append(g, x)) : IF i = Len(g) + 1 THEN Append(g, x)[i] = c[1]
                                    ELSE i \in 1..Len(g) /\ Append(g, x)[i] = g[i]
    BY <2>2, <2>3
  <2> QED BY <2>1, <2>3, <2>4 DEF x
<1>6. recvRing' \in [Readers -> Seq(Items)] /\ got' \in [Readers -> Seq(Items)]
  <2> HIDE DEF c, g
  <2> QED BY <1>1, <1>2, <1>5 DEF FlowTypes
<1>7. FlowTypes'
  BY <1>1, <1>2, <1>6 DEF FlowTypes
<1>8. \A x \in Writers : Onward(x) /\ SenderOrder(x)'
  BY <1>2, SendersRest
<1>9. \A x \in Writers, s \in Readers : Cut(x, s)
  BY <1>1, <1>2, CutQuiet
<1>10. \A x \in Writers, s \in Readers : PipeOrder(x, s)' /\ Flows(x, s)
  BY <1>7, <1>8, <1>9, PipesShrink
<1>11. \A x \in Writers : \A m : Arrived(r, x, m) => ArrivedNext(r, x, m)
  BY <1>1, <1>7, <1>8, <1>10, ArrivedStays
<1>12. /\ \A i \in 1..Len(c) : Arrived(r, c[i][1], c[i][2]) /\ c[i][1] \in Writers
       /\ \A i, j \in 1..Len(c) : i < j /\ c[i][1] = c[j][1] => c[i][2] < c[j][2]
       /\ \A i \in 1..Len(g) : Arrived(r, g[i][1], g[i][2]) /\ g[i][1] \in Writers
       /\ \A i \in 1..Len(g), j \in 1..Len(c) : g[i][1] = c[j][1] => g[i][2] < c[j][2]
  BY <1>1, TypesOfReader DEF ReaderOrder
<1> HIDE DEF p, c, g, h
<1>13. /\ \A i \in 1..Len(p) : i + 1 \in 1..Len(c) /\ 1 < i + 1 /\ p[i] = c[i + 1]
       /\ \A i, j \in 1..Len(p) : i < j => i + 1 < j + 1
       /\ \A i \in 1..Len(h) : IF i = Len(g) + 1 THEN h[i] = c[1] ELSE i \in 1..Len(g) /\ h[i] = g[i]
  BY <1>3, <1>5
<1>14. \A i \in 1..Len(p) : ArrivedNext(r, p[i][1], p[i][2])
  BY <1>11, <1>12, <1>13
<1>15. \A i, j \in 1..Len(p) : i < j /\ p[i][1] = p[j][1] => p[i][2] < p[j][2]
  <2> SUFFICES ASSUME NEW i \in 1..Len(p), NEW j \in 1..Len(p), i < j, p[i][1] = p[j][1]
               PROVE  p[i][2] < p[j][2]
    OBVIOUS
  <2>1. /\ i + 1 \in 1..Len(c) /\ p[i] = c[i + 1] /\ j + 1 \in 1..Len(c) /\ p[j] = c[j + 1]
        /\ i + 1 < j + 1
    BY <1>13
  <2>2. c[i + 1][2] < c[j + 1][2]
    BY <1>12, <2>1
  <2> QED BY <2>1, <2>2
<1>16. \A i \in 1..Len(h) : ArrivedNext(r, h[i][1], h[i][2])
  BY <1>5, <1>11, <1>12, <1>13
<1>17. ASSUME NEW i \in 1..Len(h), NEW j \in 1..Len(p), h[i][1] = p[j][1]
       PROVE  h[i][2] < p[j][2]
  <2>1. j + 1 \in 1..Len(c) /\ 1 < j + 1 /\ p[j] = c[j + 1]
    BY <1>13
  <2>2. CASE i = Len(g) + 1
    <3>1. h[i] = c[1]
      BY <1>13, <2>2
    <3>2. c[1][2] < c[j + 1][2]
      BY <1>5, <1>12, <1>17, <2>1, <3>1
    <3> QED BY <2>1, <3>1, <3>2
  <2>3. CASE i # Len(g) + 1
    <3>1. i \in 1..Len(g) /\ h[i] = g[i]
      BY <1>13, <2>3
    <3>2. g[i][1] = c[j + 1][1]
      BY <1>17, <2>1, <3>1
    <3>3. g[i][2] < c[j + 1][2]
      BY <1>12, <2>1, <3>1, <3>2
    <3> QED BY <2>1, <3>1, <3>3
  <2> QED BY <2>2, <2>3
<1>18. ReaderOrder(r)'
  <2>1. \A i \in 1..Len(recvRing'[r]) : ArrivedNext(r, recvRing'[r][i][1], recvRing'[r][i][2])
    BY <1>14 DEF p
  <2>2. \A i, j \in 1..Len(recvRing'[r]) : i < j /\ recvRing'[r][i][1] = recvRing'[r][j][1]
           => recvRing'[r][i][2] < recvRing'[r][j][2]
    BY <1>15 DEF p
  <2>3. \A i \in 1..Len(got'[r]), j \in 1..Len(recvRing'[r]) :
           got'[r][i][1] = recvRing'[r][j][1] => got'[r][i][2] < recvRing'[r][j][2]
    BY <1>17 DEF p, h
  <2>4. \A i \in 1..Len(got'[r]) : ArrivedNext(r, got'[r][i][1], got'[r][i][2])
    BY <1>16 DEF h
  <2> QED BY <2>1, <2>2, <2>3, <2>4 DEF ReaderOrder, Arrived, Sent, ArrivedNext, SentNext,
                                       FirstUnsent, FirstNext
<1>19. \A s \in Readers : s # r => ReaderOrder(s)'
  BY <1>3, <1>7, <1>8, <1>10, ReaderRests
<1> QED BY <1>7, <1>8, <1>10, <1>18, <1>19 DEF FlowInv

-----------------------------------------------------------------------------
(* The invariant holds                                                     *)

LEMMA FlowInit == Init => FlowInv
<1> SUFFICES ASSUME Init PROVE FlowInv
  OBVIOUS
<1>1. FlowTypes
  <2>1. NoFrame \in Packets /\ 0 \in Nat /\ "off" \in SendPcs
    BY SMT DEF NoFrame, Packets, SendPcs
  <2>2. state \in [Ends -> EndStates]
    BY DEF Init, EndStates
  <2>3. /\ sendRing \in [Writers -> Seq(Nat)] /\ pipe \in [Writers -> [Readers -> Seq(Packets)]]
        /\ recvRing \in [Readers -> Seq(Items)] /\ got \in [Readers -> Seq(Items)]
    BY EmptySeq DEF Init
  <2> QED BY <2>1, <2>2, <2>3 DEF FlowTypes, Init
<1>2. /\ \A w \in Writers : sendRing[w] = <<>> /\ sendPc[w] = "off"
      /\ \A w \in Writers, r \in Readers : pipe[w][r] = <<>>
      /\ \A r \in Readers : recvRing[r] = <<>> /\ got[r] = <<>>
  BY DEF Init
<1>3. \A q : q = <<>> => \A i \in 1..Len(q) : FALSE
  BY EmptySeq
<1>4. \A w \in Writers : SenderOrder(w)
  BY <1>2, <1>3 DEF SenderOrder
<1>5. \A w \in Writers, r \in Readers : PipeOrder(w, r)
  BY <1>2, <1>3 DEF PipeOrder
<1>6. \A r \in Readers : ReaderOrder(r)
  BY <1>2, <1>3 DEF ReaderOrder
<1> QED BY <1>1, <1>4, <1>5, <1>6 DEF FlowInv

LEMMA FlowStep ==
  ASSUME QueueAssumption, FlowInv, [Next]_vars
  PROVE  FlowInv'
<1>1. CASE vars' = vars
  <2>1. UNCHANGED <<state, sendRing, committed, frame, sendPc, sendSeq, pipe, recvRing, got>>
    BY <1>1 DEF vars, writerVars, readerVars
  <2>2. FlowTypes
    BY DEF FlowInv
  <2>3. FlowTypes'
    BY <2>1, <2>2 DEF FlowTypes
  <2>4. \A x \in Writers : Onward(x) /\ SenderOrder(x)'
    BY <2>1, SendersRest
  <2>5. \A x \in Writers, r \in Readers : Cut(x, r)
    BY <2>1, <2>2, CutQuiet
  <2> QED BY <2>1, <2>3, <2>4, <2>5, QuietStep
<1>2. CASE \E e \in Ends : ApplyMasterApproval(e) \/ StartFails(e) \/ Start(e) \/ Stop(e)
  BY <1>2, EndSteps
<1>3. ASSUME NEW w \in Writers, WriterSteps(w)  PROVE FlowInv'
  <2>1. w \in Ends
    BY DEF Ends
  <2> QED BY <1>3, <2>1, SenderQuiet, CommitStep, AdvanceStep, TransmitStep, CloseStep DEF WriterSteps
<1>4. ASSUME NEW r \in Readers, ReaderSteps(r)  PROVE FlowInv'
  <2>1. r \in Ends
    BY DEF Ends
  <2> QED BY <1>4, <2>1, RecvStep, LossStep, ReadStep, CloseStep DEF ReaderSteps
<1> QED BY <1>1, <1>2, <1>3, <1>4 DEF Next

\* Every item is committed once and moves from ring to connection to ring in the
\* order of its writer's commits: what is further on is older.
THEOREM ItemsFlowInOrder == ASSUME QueueAssumption PROVE Spec => []FlowInv
<1>1. FlowInv /\ [Next]_vars => FlowInv'
  BY FlowStep
<1> QED BY FlowInit, <1>1, PTL DEF Spec

-----------------------------------------------------------------------------
(* The contract                                                            *)

\* Only write_commit and read_acquire change what the roles see.
LEMMA RolesSee ==
  ASSUME [Next]_vars
  PROVE  \/ UNCHANGED <<committed, got>>
         \/ \E w \in Writers : WriteCommit(w)
         \/ \E r \in Readers : ReadAcquire(r)
<1>1. CASE vars' = vars
  BY <1>1 DEF vars, writerVars, readerVars
<1>2. CASE \E e \in Ends : ApplyMasterApproval(e) \/ StartFails(e) \/ Start(e) \/ Stop(e)
  BY <1>2 DEF ApplyMasterApproval, StartFails, Start, Stop, writerVars, readerVars
<1>3. ASSUME NEW w \in Writers, WriterSteps(w), ~WriteCommit(w)  PROVE UNCHANGED <<committed, got>>
  BY <1>3 DEF WriterSteps, WriteAcquire, WriteDiscard, SendTop, SendSleep, SendFrame, SendFails,
              SendAdvance, StopNotify, CloseWriter, writerVars, readerVars
<1>4. ASSUME NEW r \in Readers, ReaderSteps(r), ~ReadAcquire(r)  PROVE UNCHANGED <<committed, got>>
  BY <1>4 DEF ReaderSteps, RecvFrame, RecvDamaged, LoseFrame, CloseReader, writerVars, readerVars
<1> QED BY <1>1, <1>2, <1>3, <1>4 DEF Next

\* read_acquire hands over an item newer than all the reader has had of its writer.
LEMMA ReadDelivers ==
  ASSUME FlowInv, NEW r \in Readers, ReadAcquire(r)
  PROVE  \E w \in Writers : \E n \in 1..committed[w] : Contract!Deliver(r, w, n)
<1> DEFINE x == Head(recvRing[r])
<1>1. FlowTypes /\ ReaderOrder(r)
  BY DEF FlowInv
<1>2. /\ recvRing[r] # <<>> /\ got' = [got EXCEPT ![r] = Append(got[r], x)] /\ committed' = committed
  BY DEF ReadAcquire, writerVars
<1>3. 1 \in 1..Len(recvRing[r]) /\ x = recvRing[r][1] /\ x \in Items
  BY <1>1, <1>2, TailOf, TypesOfReader
<1>4. Arrived(r, x[1], x[2]) /\ \A i \in 1..Len(got[r]) : got[r][i][1] = x[1] => got[r][i][2] < x[2]
  BY <1>1, <1>3 DEF ReaderOrder
<1> HIDE DEF x
<1>5. x[1] \in Writers /\ x[2] \in Nat /\ x = <<x[1], x[2]>>
  BY SMT, <1>3 DEF Items
<1>6. x[2] \in 1..committed[x[1]]
  BY <1>4 DEF Arrived, Sent
<1>7. x[2] <= committed[x[1]]
  <2>1. committed[x[1]] \in Nat
    BY <1>1, <1>5, TypesOfSender
  <2> QED BY SMT, <1>6, <2>1
<1>8. got' = [got EXCEPT ![r] = Append(got[r], <<x[1], x[2]>>)]
  BY <1>2, <1>5
<1>9. Contract!Deliver(r, x[1], x[2])
  BY <1>2, <1>4, <1>7, <1>8 DEF Contract!Deliver
<1> QED BY <1>5, <1>6, <1>9

\* The queue of hub_zmq_queue.cpp implements ItemQueue: write_commit is a commit,
\* read_acquire a delivery, and no other step of its threads, sockets and
\* connections is seen by the roles.
THEOREM QueueKeepsContract == ASSUME QueueAssumption PROVE Spec => QueueContract
<1>1. Init => Contract!Init
  BY DEF Init, Contract!Init
<1>2. FlowInv /\ [Next]_vars => [Contract!Next]_Contract!vars
  <2> SUFFICES ASSUME FlowInv, [Next]_vars PROVE Contract!Next \/ UNCHANGED Contract!vars
    OBVIOUS
  <2>1. CASE UNCHANGED <<committed, got>>
    BY <2>1 DEF Contract!vars
  <2>2. ASSUME NEW w \in Writers, WriteCommit(w)  PROVE Contract!Next
    <3>1. Contract!Commit(w)
      BY <2>2 DEF WriteCommit, readerVars, Contract!Commit
    <3> QED BY <3>1 DEF Contract!Next
  <2>3. ASSUME NEW r \in Readers, ReadAcquire(r)  PROVE Contract!Next
    BY <2>3, ReadDelivers DEF Contract!Next
  <2> QED BY <2>1, <2>2, <2>3, RolesSee
<1> QED BY <1>1, <1>2, ItemsFlowInOrder, PTL DEF Spec, QueueContract, Contract!Spec

-----------------------------------------------------------------------------
(* A write buffer is a promise of room                                     *)

RoomInv == buffer \in [Writers -> BOOLEAN] /\ CommitFindsRoom

\* The ring of a writer grows only in write_commit, which gives the buffer back.
LEMMA RoomStep ==
  ASSUME QueueAssumption, FlowInv, RoomInv, [Next]_vars
  PROVE  RoomInv'
<1>1. CASE UNCHANGED <<buffer, sendRing>>
  BY <1>1 DEF RoomInv, CommitFindsRoom
<1>2. CASE \E e \in Ends : ApplyMasterApproval(e) \/ StartFails(e) \/ Start(e) \/ Stop(e)
  BY <1>1, <1>2 DEF ApplyMasterApproval, StartFails, Start, Stop, writerVars
<1>3. ASSUME NEW w \in Writers, SendTop(w) \/ SendSleep(w) \/ SendFrame(w) \/ SendFails(w)
                                \/ StopNotify(w) \/ CloseWriter(w)
      PROVE  RoomInv'
  BY <1>1, <1>3 DEF SendTop, SendSleep, SendFrame, SendFails, StopNotify, CloseWriter, writerVars
<1>4. ASSUME NEW r \in Readers, ReaderSteps(r)  PROVE RoomInv'
  BY <1>1, <1>4 DEF ReaderSteps, RecvFrame, RecvDamaged, LoseFrame, ReadAcquire, CloseReader, writerVars
<1>5. CASE vars' = vars
  BY <1>1, <1>5 DEF vars, writerVars
<1>6. ASSUME NEW w \in Writers, WriteAcquire(w)  PROVE RoomInv'
  BY <1>6 DEF WriteAcquire, Room, RoomInv, CommitFindsRoom
<1>7. ASSUME NEW w \in Writers, WriteDiscard(w)  PROVE RoomInv'
  BY <1>7 DEF WriteDiscard, RoomInv, CommitFindsRoom
<1>8. ASSUME NEW w \in Writers, WriteCommit(w)  PROVE RoomInv'
  <2>1. /\ buffer' = [buffer EXCEPT ![w] = FALSE]
        /\ \A x \in Writers : x # w => sendRing'[x] = sendRing[x]
    BY <1>8 DEF WriteCommit, FlowInv, FlowTypes
  <2> QED BY <2>1 DEF RoomInv, CommitFindsRoom
<1>9. ASSUME NEW w \in Writers, SendAdvance(w)  PROVE RoomInv'
  <2>1. /\ buffer' = buffer /\ sendRing'[w] = Tail(sendRing[w])
        /\ \A x \in Writers : x # w => sendRing'[x] = sendRing[x]
    BY <1>9 DEF SendAdvance, FlowInv, FlowTypes
  <2>2. sendRing[w] \in Seq(Nat) /\ sendRing[w] # <<>>
    BY <1>9 DEF SendAdvance, FlowInv, FlowTypes, SenderOrder
  <2>3. Len(sendRing[w]) < SendDepth => Len(Tail(sendRing[w])) < SendDepth
    BY SMT, <2>2 DEF QueueAssumption
  <2> QED BY <2>1, <2>3 DEF RoomInv, CommitFindsRoom
<1> QED BY <1>2, <1>3, <1>4, <1>5, <1>6, <1>7, <1>8, <1>9 DEF Next, WriterSteps

\* write_commit never drops an item for want of room ("violated single-acquire
\* contract; item dropped"): the room write_acquire saw is still there.
THEOREM CommitsFindRoom == ASSUME QueueAssumption PROVE Spec => []CommitFindsRoom
<1>1. Init => RoomInv
  <2> SUFFICES ASSUME Init PROVE RoomInv
    OBVIOUS
  <2>1. buffer = [w \in Writers |-> FALSE]
    BY DEF Init
  <2> QED BY <2>1 DEF RoomInv, CommitFindsRoom
<1>2. FlowInv /\ RoomInv /\ [Next]_vars => RoomInv'
  BY RoomStep
<1>3. RoomInv => CommitFindsRoom
  BY DEF RoomInv
<1> QED BY <1>1, <1>2, <1>3, ItemsFlowInOrder, PTL DEF Spec
=============================================================================
