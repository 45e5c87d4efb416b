--------------------------- MODULE RoleHostProofs ---------------------------
(***************************************************************************)
(* A role process (RoleHost), for every role and every depth of its        *)
(* queues: the accounting of its requests, the slots of its data loop, and *)
(* the order in which its threads end.                                     *)
(***************************************************************************)
EXTENDS RoleHost, FiniteSetTheorems, TLAPS

\* The leaves are Zenon's unless they cite SMT: few of them need arithmetic.
USE Zenon

-----------------------------------------------------------------------------
(* Sequences as the sets of their elements                                 *)

\* What the ends of a sequence and its elements have to do with each other.
LEMMA EndsOfSeq ==
  ASSUME NEW S, NEW q \in Seq(S)
  PROVE  /\ Range(q) \subseteq S
         /\ q # <<>> => /\ Head(q) \in Range(q) /\ Tail(q) \in Seq(S)
                        /\ Range(Tail(q)) \subseteq Range(q)
                        /\ Len(Tail(q)) = Len(q) - 1
         /\ q # <<>> => /\ Last(q) \in Range(q) /\ Front(q) \in Seq(S)
                        /\ Range(q) = Range(Front(q)) \cup {Last(q)}
<1>1. Len(q) \in Nat /\ DOMAIN q = 1..Len(q) /\ \A i \in 1..Len(q) : q[i] \in S
  BY SMT
<1>2. Range(q) \subseteq S
  BY <1>1 DEF Range
<1>3. ASSUME q # <<>>
      PROVE  /\ Head(q) \in Range(q) /\ Tail(q) \in Seq(S)
             /\ Len(Tail(q)) = Len(q) - 1
             /\ Range(Tail(q)) \subseteq Range(q)
  <2>1. 1 \in 1..Len(q) /\ Head(q) = q[1] /\ Tail(q) \in Seq(S) /\ Len(Tail(q)) = Len(q) - 1
    BY SMT, <1>3
  <2>2. DOMAIN Tail(q) = 1..Len(q)-1
        /\ \A i \in 1..Len(q)-1 : Tail(q)[i] = q[i + 1] /\ i + 1 \in 1..Len(q)
    BY SMT, <1>3
  <2> QED BY SMT, <1>1, <2>1, <2>2 DEF Range
<1>4. ASSUME q # <<>>
      PROVE  /\ Last(q) \in Range(q) /\ Front(q) \in Seq(S)
             /\ Range(q) = Range(Front(q)) \cup {Last(q)}
  <2>1. Len(q) \in 1..Len(q) /\ Len(q) - 1 \in Nat
    BY SMT, <1>4
  <2>2. Front(q) \in Seq(S) /\ DOMAIN Front(q) = 1..Len(q)-1
        /\ \A i \in 1..Len(q)-1 : Front(q)[i] = q[i] /\ i \in 1..Len(q)
    BY SMT, <1>4, <2>1 DEF Front
  <2>3. \A i \in 1..Len(q) : i = Len(q) \/ i \in 1..Len(q)-1
    <3>1. \A n \in Nat : \A i \in 1..n : i = n \/ i \in 1..n-1
      BY SMT
    <3> QED BY <1>1, <3>1
  <2> QED BY <1>1, <2>1, <2>2, <2>3 DEF Range, Last
<1> QED BY <1>2, <1>3, <1>4

\* What is in a longer sequence.
LEMMA AppendIsLonger ==
  ASSUME NEW S, NEW q \in Seq(S), NEW x \in S
  PROVE  /\ Append(q, x) \in Seq(S) /\ Len(Append(q, x)) = Len(q) + 1
         /\ Range(Append(q, x)) = Range(q) \cup {x}
<1>1. /\ Append(q, x) \in Seq(S) /\ Len(Append(q, x)) = Len(q) + 1
      /\ DOMAIN q = 1..Len(q) /\ DOMAIN Append(q, x) = 1..Len(q)+1
      /\ Append(q, x)[Len(q) + 1] = x /\ Len(q) + 1 \in 1..Len(q)+1
  BY SMT
<1>2. /\ \A i \in 1..Len(q) : Append(q, x)[i] = q[i] /\ i \in 1..Len(q)+1
      /\ \A i \in 1..Len(q)+1 : i = Len(q) + 1 \/ i \in 1..Len(q)
  BY SMT
<1> QED BY <1>1, <1>2 DEF Range

LEMMA ConcatIsLonger ==
  ASSUME NEW S, NEW q \in Seq(S), NEW r \in Seq(S)
  PROVE  q \o r \in Seq(S) /\ Range(q \o r) = Range(q) \cup Range(r)
<1>1. /\ q \o r \in Seq(S) /\ DOMAIN q = 1..Len(q) /\ DOMAIN r = 1..Len(r)
      /\ DOMAIN (q \o r) = 1..Len(q)+Len(r)
  BY SMT
<1>2. /\ \A i \in 1..Len(q) : (q \o r)[i] = q[i] /\ i \in 1..Len(q)+Len(r)
      /\ \A i \in 1..Len(r) : (q \o r)[Len(q) + i] = r[i] /\ Len(q) + i \in 1..Len(q)+Len(r)
      /\ \A i \in 1..Len(q)+Len(r) : i \in 1..Len(q) \/ \E j \in 1..Len(r) : i = Len(q) + j
  <2>1. \A m, n \in Nat : \A i \in 1..m+n : i \in 1..m \/ (i - m \in 1..n /\ i = m + (i - m))
    BY SMT
  <2>2. Len(q) \in Nat /\ Len(r) \in Nat
    BY SMT
  <2>3. \A i \in 1..Len(q)+Len(r) : i \in 1..Len(q) \/ \E j \in 1..Len(r) : i = Len(q) + j
    BY <2>1, <2>2
  <2>4. /\ \A i \in 1..Len(q) : (q \o r)[i] = q[i] /\ i \in 1..Len(q)+Len(r)
        /\ \A i \in 1..Len(r) : (q \o r)[Len(q) + i] = r[i] /\ Len(q) + i \in 1..Len(q)+Len(r)
    BY SMT
  <2> QED BY <2>3, <2>4
<1>3. /\ \A y : y \in Range(q \o r) <=> \E i \in 1..Len(q)+Len(r) : y = (q \o r)[i]
      /\ \A y : y \in Range(q) <=> \E i \in 1..Len(q) : y = q[i]
      /\ \A y : y \in Range(r) <=> \E i \in 1..Len(r) : y = r[i]
  BY <1>1 DEF Range
<1>4. ASSUME NEW y \in Range(q) \cup Range(r)  PROVE y \in Range(q \o r)
  BY SMT, <1>2, <1>3
<1>5. ASSUME NEW y \in Range(q \o r)  PROVE y \in Range(q) \cup Range(r)
  BY SMT, <1>2, <1>3
<1> QED BY <1>1, <1>4, <1>5

-----------------------------------------------------------------------------
(* The request channel                                                     *)

\* The requests in a sequence of commands or frames, as pairs of correlation
\* id and body.
Tags(q) == {<<m.id, m.body>> : m \in {n \in Range(q) : n.id # 0}}
Ids(T) == {i \in Nat : \E b \in Bodies : <<i, b>> \in T}

Queued(c) == Tags(cmds[c])
Wired(c) == Tags(toHub[c]) \cup Tags(fromHub[c])
IdsOf(c) == Ids(Queued(c)) \cup Ids(Wired(c)) \cup pendingReq[c]

\* Somebody still knows of request i.
Accounted(i) == i \in abandoned \/ \E k \in Callers : call[k].id = i /\ call[k].st = "waiting"

\* The inductive invariant: an id is used once; it is in the command queue, or
\* has left it for the pending table and the wire, on one connection; every
\* queued or pending request is accounted for; and whatever carries the id of
\* a waiting call carries that call's body.
RequestInv ==
    /\ RequestTypeOK
    /\ \A c \in Conns : \A i \in IdsOf(c) : i < nextId
    /\ \A c \in Conns : Ids(Queued(c)) \cap (Ids(Wired(c)) \cup pendingReq[c]) = {}
    /\ \A c, d \in Conns : c # d => IdsOf(c) \cap IdsOf(d) = {}
    /\ \A c \in Conns : \A i \in Ids(Queued(c)) \cup pendingReq[c] : Accounted(i)
    /\ \A c \in Conns, k \in Callers, b \in Bodies :
          call[k].st = "waiting" /\ <<call[k].id, b>> \in Queued(c) \cup Wired(c)
              => call[k].body = b
    /\ \A k \in Callers : call[k].st # "idle" => call[k].id # 0 /\ call[k].id < nextId
    /\ RepliesMatchCalls

\* The tags of the sequences the channel makes.
LEMMA TagsOf ==
  ASSUME NEW S, \A m \in S : m.id \in Nat /\ m.body \in Bodies, NEW q \in Seq(S)
  PROVE  /\ Tags(q) \subseteq Nat \X Bodies
         /\ Tags(<<>>) = {}
         /\ q # <<>> => /\ Tags(Tail(q)) \subseteq Tags(q) /\ Head(q) \in S
                        /\ Head(q).id # 0 => <<Head(q).id, Head(q).body>> \in Tags(q)
<1>1. \A r, s : Range(r) \subseteq Range(s) => Tags(r) \subseteq Tags(s)
  BY DEF Tags
<1>2. Range(q) \subseteq S
  BY EndsOfSeq
<1>3. Tags(q) \subseteq Nat \X Bodies
  <2>1. \A m \in Range(q) : m.id \in Nat /\ m.body \in Bodies
    BY <1>2
  <2> QED BY SMT, <2>1 DEF Tags
<1>4. Tags(<<>>) = {}
  <2>1. Range(<<>>) = {}
    BY SMT DEF Range
  <2> QED BY <2>1 DEF Tags
<1>5. ASSUME q # <<>>
      PROVE  /\ Tags(Tail(q)) \subseteq Tags(q) /\ Head(q) \in S
             /\ Head(q).id # 0 => <<Head(q).id, Head(q).body>> \in Tags(q)
  BY <1>1, <1>2, <1>5, EndsOfSeq DEF Tags
<1> QED BY <1>3, <1>4, <1>5

LEMMA AppendTags ==
  ASSUME NEW S, NEW q \in Seq(S), NEW x \in S
  PROVE  Tags(Append(q, x)) = Tags(q) \cup Tags(<<x>>)
<1>1. Range(<<x>>) = {x}
  BY SMT DEF Range
<1>2. Range(Append(q, x)) = Range(q) \cup {x}
  BY SMT, AppendIsLonger
<1> QED BY <1>1, <1>2 DEF Tags

LEMMA ConcatTags ==
  ASSUME NEW S, NEW q \in Seq(S), NEW r \in Seq(S)
  PROVE  Tags(q \o r) = Tags(q) \cup Tags(r)
<1>1. Range(q \o r) = Range(q) \cup Range(r)
  BY SMT, ConcatIsLonger
<1> QED BY <1>1 DEF Tags

\* The tags of one message.
LEMMA TagOf ==
  ASSUME NEW x
  PROVE  Tags(<<x>>) = IF x.id = 0 THEN {} ELSE {<<x.id, x.body>>}
<1>1. Range(<<x>>) = {x}
  BY SMT DEF Range
<1> QED BY <1>1 DEF Tags

\* A command is a pair of an id and a body, a frame has its answer besides.
LEMMA Messages ==
  /\ \A m \in Command : m.id \in Nat /\ m.body \in Bodies
  /\ \A m \in Frame : m.id \in Nat /\ m.body \in Bodies
BY SMT DEF Command, Frame

\* MonitoredQueue::push keeps the depth and adds nothing but the new command.
LEMMA PushKeepsDepth ==
  ASSUME NEW q \in Seq(Command), Len(q) <= CmdDepth, NEW x \in Command
  PROVE  /\ Pushed(q, x) \in Seq(Command) /\ Len(Pushed(q, x)) <= CmdDepth
         /\ Tags(Pushed(q, x)) \subseteq Tags(q) \cup Tags(<<x>>)
<1>1. CASE Len(q) >= CmdDepth
  <2>1. q # <<>>
    BY SMT, <1>1, DepthAssumption
  <2>2. /\ Tail(q) \in Seq(Command) /\ Len(Tail(q)) = Len(q) - 1
        /\ Tags(Tail(q)) \subseteq Tags(q)
    BY <2>1, EndsOfSeq, TagsOf, Messages
  <2>3. /\ Append(Tail(q), x) \in Seq(Command)
        /\ Len(Append(Tail(q), x)) = Len(Tail(q)) + 1
    BY SMT, <2>2, AppendIsLonger
  <2>5. Tags(Append(Tail(q), x)) = Tags(Tail(q)) \cup Tags(<<x>>)
    <3>1. \A t \in Seq(Command) : Tags(Append(t, x)) = Tags(t) \cup Tags(<<x>>)
      BY SMT, AppendTags
    <3> QED BY <2>2, <3>1
  <2>4. Len(Append(Tail(q), x)) <= CmdDepth
    BY SMT, <2>2, <2>3, DepthAssumption
  <2> QED BY <1>1, <2>2, <2>3, <2>4, <2>5 DEF Pushed
<1>2. CASE ~(Len(q) >= CmdDepth)
  <2>1. Append(q, x) \in Seq(Command) /\ Len(Append(q, x)) = Len(q) + 1
    BY SMT, AppendIsLonger
  <2>3. Tags(Append(q, x)) = Tags(q) \cup Tags(<<x>>)
    BY SMT, AppendTags
  <2>2. Len(Append(q, x)) <= CmdDepth
    BY SMT, <1>2, <2>1, DepthAssumption
  <2> QED BY <1>2, <2>1, <2>2, <2>3 DEF Pushed
<1> QED BY <1>1, <1>2

\* The steps of the channel; each step of RoleHost is one of them or leaves the
\* channel alone.
RequestStep ==
    \/ \E cs \in SUBSET Conns :
          \/ ConnectAll(cs) \/ StopAll(cs) \/ DisconnectAll(cs)
          \/ \E b \in Bodies : SendCommand(cs, b)
    \/ \E k \in Callers, c \in Conns, b \in Bodies : DoRequest(k, c, b)
    \/ \E k \in Callers : TakeReply(k) \/ GiveUp(k)
    \/ \E c \in Conns :
          \/ DrainCommands(c) \/ ReceiveReply(c) \/ ReceiveNotify(c) \/ Reap(c)
          \/ CheckMonitor(c) \/ LinkDown(c)
          \/ \E b \in Bodies : HubNotifies(c, b)
          \/ \E ok \in Answers : HubAnswers(c, ok)

\* A step that only loses requests and changes no call keeps the invariant.
LEMMA LosingRequests ==
  ASSUME RequestInv, RequestTypeOK', UNCHANGED <<call, abandoned, nextId>>,
         \A c \in Conns : /\ Queued(c)' \subseteq Queued(c) /\ Wired(c)' \subseteq Wired(c)
                          /\ pendingReq'[c] \subseteq pendingReq[c]
  PROVE  RequestInv'
<1>1. ASSUME NEW c \in Conns
      PROVE  /\ Ids(Queued(c))' \subseteq Ids(Queued(c)) /\ Ids(Wired(c))' \subseteq Ids(Wired(c))
             /\ IdsOf(c)' \subseteq IdsOf(c)
  BY DEF Ids, IdsOf
<1>2. \A i : Accounted(i) => Accounted(i)'
  BY DEF Accounted
<1>3. RepliesMatchCalls'
  BY DEF RequestInv, RepliesMatchCalls
<1>4. \A c \in Conns : \A i \in IdsOf(c)' : i < nextId'
  BY <1>1 DEF RequestInv
<1>5. \A c \in Conns : Ids(Queued(c))' \cap (Ids(Wired(c))' \cup pendingReq'[c]) = {}
  BY <1>1 DEF RequestInv
<1>6. \A c, d \in Conns : c # d => IdsOf(c)' \cap IdsOf(d)' = {}
  BY <1>1 DEF RequestInv
<1>7. \A c \in Conns : \A i \in Ids(Queued(c))' \cup pendingReq'[c] : Accounted(i)'
  BY <1>1, <1>2 DEF RequestInv
<1>8. \A c \in Conns, k \in Callers, b \in Bodies :
          call'[k].st = "waiting" /\ <<call'[k].id, b>> \in Queued(c)' \cup Wired(c)'
              => call'[k].body = b
  BY DEF RequestInv
<1>9. \A k \in Callers : call'[k].st # "idle" => call'[k].id # 0 /\ call'[k].id < nextId'
  BY DEF RequestInv
<1> QED BY <1>3, <1>4, <1>5, <1>6, <1>7, <1>8, <1>9 DEF RequestInv

\* Steps that touch neither queue nor table.
LEMMA QuietSteps ==
  ASSUME RequestInv, UNCHANGED <<cmds, pendingReq, toHub, fromHub, call, abandoned, nextId>>
  PROVE  RequestInv'
<1>1. RequestTypeOK'
  BY DEF RequestInv, RequestTypeOK
<1>2. \A c \in Conns : /\ Queued(c)' \subseteq Queued(c) /\ Wired(c)' \subseteq Wired(c)
                       /\ pendingReq'[c] \subseteq pendingReq[c]
  BY DEF Queued, Wired
<1> QED BY <1>1, <1>2, LosingRequests

LEMMA SendCommandStep ==
  ASSUME RequestInv, NEW cs \in SUBSET Conns, NEW b \in Bodies, SendCommand(cs, b)
  PROVE  RequestInv'
<1> DEFINE x == [id |-> 0, body |-> b]
<1>1. x \in Command /\ x.id = 0
  BY SMT DEF Command
<1>2. Tags(<<x>>) = {}
  BY <1>1, TagOf
<1> HIDE DEF x
<1>3. ASSUME NEW c \in Conns
      PROVE  /\ Pushed(cmds[c], x) \in Seq(Command) /\ Len(Pushed(cmds[c], x)) <= CmdDepth
             /\ Tags(Pushed(cmds[c], x)) \subseteq Tags(cmds[c])
  <2>1. cmds[c] \in Seq(Command) /\ Len(cmds[c]) <= CmdDepth
    BY DEF RequestInv, RequestTypeOK
  <2> QED BY <1>1, <1>2, <2>1, PushKeepsDepth
<1>4. cmds' = [c \in Conns |-> IF c \in cs THEN Pushed(cmds[c], x) ELSE cmds[c]]
  BY DEF SendCommand, x
<1>5. \A c \in Conns : cmds[c] \in Seq(Command) /\ Len(cmds[c]) <= CmdDepth
  BY DEF RequestInv, RequestTypeOK
<1>6. \A c \in Conns : /\ cmds'[c] \in Seq(Command) /\ Len(cmds'[c]) <= CmdDepth
                       /\ Tags(cmds'[c]) \subseteq Tags(cmds[c])
  BY <1>3, <1>4, <1>5
<1>7. RequestTypeOK'
  <2>1. cmds' \in [Conns -> Seq(Command)]
    BY <1>4, <1>6
  <2> QED BY <1>6, <2>1 DEF RequestInv, RequestTypeOK, SendCommand
<1>8. \A c \in Conns : /\ Queued(c)' \subseteq Queued(c) /\ Wired(c)' \subseteq Wired(c)
                       /\ pendingReq'[c] \subseteq pendingReq[c]
  BY <1>6 DEF Queued, Wired, SendCommand
<1> QED BY <1>7, <1>8, LosingRequests DEF SendCommand

LEMMA ReceiveNotifyStep ==
  ASSUME RequestInv, NEW c \in Conns, ReceiveNotify(c)
  PROVE  RequestInv'
<1>1. fromHub[c] \in Seq(Frame) /\ fromHub[c] # <<>>
  BY DEF RequestInv, RequestTypeOK, ReceiveNotify
<1>2. Tail(fromHub[c]) \in Seq(Frame) /\ Tags(Tail(fromHub[c])) \subseteq Tags(fromHub[c])
  BY <1>1, EndsOfSeq, TagsOf, Messages
<1>3. fromHub' \in [Conns -> Seq(Frame)]
  BY <1>2 DEF ReceiveNotify, RequestInv, RequestTypeOK
<1>4. \A d \in Conns : Tags(fromHub'[d]) \subseteq Tags(fromHub[d])
  BY <1>2 DEF ReceiveNotify, RequestInv, RequestTypeOK
<1>5. RequestTypeOK'
  BY <1>3 DEF ReceiveNotify, RequestInv, RequestTypeOK
<1>6. \A d \in Conns : /\ Queued(d)' \subseteq Queued(d) /\ Wired(d)' \subseteq Wired(d)
                       /\ pendingReq'[d] \subseteq pendingReq[d]
  BY <1>4 DEF Queued, Wired, ReceiveNotify
<1> QED BY <1>5, <1>6, LosingRequests DEF ReceiveNotify

LEMMA LinkDownStep ==
  ASSUME RequestInv, NEW c \in Conns, LinkDown(c)
  PROVE  RequestInv'
<1>1. <<>> \in Seq(Command)
  BY SMT
<1>2. Tags(<<>>) = {}
  BY <1>1, TagsOf, Messages
<1>3. toHub' \in [Conns -> Seq(Command)]
  BY <1>1 DEF LinkDown, RequestInv, RequestTypeOK
<1>4. \A d \in Conns : Tags(toHub'[d]) \subseteq Tags(toHub[d])
  BY <1>2 DEF LinkDown, RequestInv, RequestTypeOK
<1>5. RequestTypeOK'
  BY <1>3 DEF LinkDown, RequestInv, RequestTypeOK
<1>6. \A d \in Conns : /\ Queued(d)' \subseteq Queued(d) /\ Wired(d)' \subseteq Wired(d)
                       /\ pendingReq'[d] \subseteq pendingReq[d]
  BY <1>4 DEF Queued, Wired, LinkDown
<1> QED BY <1>5, <1>6, LosingRequests DEF LinkDown

LEMMA HubNotifiesStep ==
  ASSUME RequestInv, NEW c \in Conns, NEW b \in Bodies, HubNotifies(c, b)
  PROVE  RequestInv'
<1> DEFINE x == [id |-> 0, body |-> b, ok |-> "ok"]
<1>1. x \in Frame /\ x.id = 0
  BY SMT DEF Frame, Answers
<1>2. Tags(<<x>>) = {}
  BY <1>1, TagOf
<1>3. fromHub' = [fromHub EXCEPT ![c] = Append(fromHub[c], x)]
  BY DEF HubNotifies
<1> HIDE DEF x
<1>4. fromHub \in [Conns -> Seq(Frame)]
  BY DEF RequestInv, RequestTypeOK
<1>5. Append(fromHub[c], x) \in Seq(Frame)
  BY SMT, <1>1, <1>4, AppendIsLonger
<1>6. Tags(Append(fromHub[c], x)) = Tags(fromHub[c])
  <2>1. \A q \in Seq(Frame) : Tags(Append(q, x)) = Tags(q) \cup Tags(<<x>>)
    BY SMT, <1>1, AppendTags
  <2> QED BY <1>2, <1>4, <2>1
<1>7. fromHub' \in [Conns -> Seq(Frame)]
  BY <1>3, <1>4, <1>5
<1>8. \A d \in Conns : Tags(fromHub'[d]) \subseteq Tags(fromHub[d])
  BY <1>3, <1>4, <1>6
<1>9. RequestTypeOK'
  BY <1>7 DEF HubNotifies, RequestInv, RequestTypeOK
<1>10. \A d \in Conns : /\ Queued(d)' \subseteq Queued(d) /\ Wired(d)' \subseteq Wired(d)
                        /\ pendingReq'[d] \subseteq pendingReq[d]
  BY <1>8 DEF Queued, Wired, HubNotifies
<1> QED BY <1>9, <1>10, LosingRequests DEF HubNotifies

LEMMA HubAnswersStep ==
  ASSUME RequestInv, NEW c \in Conns, NEW ok \in Answers, HubAnswers(c, ok)
  PROVE  RequestInv'
<1> DEFINE m == Head(toHub[c])
           x == [id |-> m.id, body |-> m.body, ok |-> ok]
<1>1. toHub \in [Conns -> Seq(Command)] /\ fromHub \in [Conns -> Seq(Frame)]
  BY DEF RequestInv, RequestTypeOK
<1>2. toHub[c] # <<>>
  BY DEF HubAnswers
<1>3. /\ Tail(toHub[c]) \in Seq(Command) /\ Tags(Tail(toHub[c])) \subseteq Tags(toHub[c])
      /\ m \in Command
      /\ m.id # 0 => <<m.id, m.body>> \in Tags(toHub[c])
  BY <1>1, <1>2, EndsOfSeq, TagsOf, Messages
<1>4. /\ toHub' = [toHub EXCEPT ![c] = Tail(toHub[c])]
      /\ fromHub' = [fromHub EXCEPT ![c] = IF m.id = 0 THEN fromHub[c] ELSE Append(fromHub[c], x)]
  BY DEF HubAnswers
<1>5. m.id \in Nat /\ m.body \in Bodies
  BY <1>3, Messages
<1> HIDE DEF m
<1>6. x \in Frame /\ x.id = m.id /\ x.body = m.body
  BY SMT, <1>5 DEF Frame
<1> HIDE DEF x
<1>7. Append(fromHub[c], x) \in Seq(Frame)
  BY SMT, <1>1, <1>6, AppendIsLonger
<1>8. Tags(Append(fromHub[c], x)) = Tags(fromHub[c]) \cup Tags(<<x>>)
  <2>1. \A q \in Seq(Frame) : Tags(Append(q, x)) = Tags(q) \cup Tags(<<x>>)
    BY SMT, <1>6, AppendTags
  <2> QED BY <1>1, <2>1
<1>9. m.id # 0 => Tags(<<x>>) \subseteq Tags(toHub[c])
  BY <1>3, <1>6, TagOf
<1>10. toHub' \in [Conns -> Seq(Command)] /\ fromHub' \in [Conns -> Seq(Frame)]
  BY <1>1, <1>3, <1>4, <1>7
<1>11. \A d \in Conns : Tags(toHub'[d]) \subseteq Tags(toHub[d])
  BY <1>1, <1>3, <1>4
<1>12. \A d \in Conns : Tags(fromHub'[d]) \subseteq Tags(fromHub[d]) \cup Tags(toHub[d])
  <2>1. CASE m.id = 0
    BY <1>1, <1>4, <2>1
  <2>2. CASE m.id # 0
    <3>1. Tags(fromHub'[c]) \subseteq Tags(fromHub[c]) \cup Tags(toHub[c])
      BY <1>1, <1>4, <1>8, <1>9, <2>2
    <3>2. \A d \in Conns \ {c} : fromHub'[d] = fromHub[d]
      BY <1>1, <1>4
    <3> QED BY SMT, <3>1, <3>2
  <2> QED BY <2>1, <2>2
<1>13. RequestTypeOK'
  BY <1>10 DEF HubAnswers, RequestInv, RequestTypeOK
<1>14. \A d \in Conns : /\ Queued(d)' \subseteq Queued(d) /\ Wired(d)' \subseteq Wired(d)
                        /\ pendingReq'[d] \subseteq pendingReq[d]
  BY <1>11, <1>12 DEF Queued, Wired, HubAnswers
<1> QED BY <1>13, <1>14, LosingRequests DEF HubAnswers

\* A caller leaves: with its reply, or without one, when the request that is
\* left behind is marked abandoned.
LEMMA CallerLeaves ==
  ASSUME RequestInv, NEW k \in Callers, TakeReply(k) \/ GiveUp(k)
  PROVE  RequestInv'
<1>1. /\ UNCHANGED <<cmds, pendingReq, toHub, fromHub, nextId>>
      /\ call' = [call EXCEPT ![k] = NoCall]
  BY DEF TakeReply, GiveUp
<1>2. NoCall \in Call /\ NoCall.st = "idle"
  BY SMT DEF NoCall, Call
<1>3. call \in [Callers -> Call]
  BY DEF RequestInv, RequestTypeOK
<1>4. /\ call' \in [Callers -> Call] /\ call'[k].st = "idle"
      /\ \A l \in Callers : l # k => call'[l] = call[l]
  BY <1>1, <1>2, <1>3
<1>5. RequestTypeOK'
  BY <1>1, <1>4 DEF RequestInv, RequestTypeOK
<1>6. \A c \in Conns : Queued(c)' = Queued(c) /\ Wired(c)' = Wired(c) /\ IdsOf(c)' = IdsOf(c)
  BY <1>1 DEF Queued, Wired, IdsOf
<1>7. \A i : Accounted(i) => Accounted(i)'
  <2>1. CASE TakeReply(k)
    <3>1. call[k].st # "waiting" /\ abandoned' = abandoned
      BY <2>1 DEF TakeReply
    <3> QED BY <1>4, <3>1 DEF Accounted
  <2>2. CASE GiveUp(k)
    <3>1. abandoned' = abandoned \cup {call[k].id}
      BY <2>2 DEF GiveUp
    <3> QED BY <1>4, <3>1 DEF Accounted
  <2> QED BY <2>1, <2>2
<1>8. RepliesMatchCalls'
  <2>1. \A l \in Callers : call'[l].st = "answered" => call'[l] = call[l]
    BY <1>4
  <2> QED BY <2>1 DEF RequestInv, RepliesMatchCalls
<1>9. \A c \in Conns : \A i \in Ids(Queued(c))' \cup pendingReq'[c] : Accounted(i)'
  BY <1>1, <1>6, <1>7 DEF RequestInv
<1>10. \A c \in Conns, l \in Callers, b \in Bodies :
          call'[l].st = "waiting" /\ <<call'[l].id, b>> \in Queued(c)' \cup Wired(c)'
              => call'[l].body = b
  BY <1>4, <1>6 DEF RequestInv
<1>11. \A l \in Callers : call'[l].st # "idle" => call'[l].id # 0 /\ call'[l].id < nextId'
  BY <1>1, <1>4 DEF RequestInv
<1>12. \A c \in Conns : /\ Ids(Queued(c))' = Ids(Queued(c)) /\ Ids(Wired(c))' = Ids(Wired(c))
  BY <1>6 DEF Ids
<1> QED BY <1>1, <1>5, <1>6, <1>8, <1>9, <1>10, <1>11, <1>12 DEF RequestInv

\* drain_command_queue: what was queued is now pending, and perhaps on the wire.
LEMMA DrainCommandsStep ==
  ASSUME RequestInv, NEW c \in Conns, DrainCommands(c)
  PROVE  RequestInv'
<1>1. /\ cmds \in [Conns -> Seq(Command)] /\ toHub \in [Conns -> Seq(Command)]
      /\ pendingReq \in [Conns -> SUBSET (Nat \ {0})]
      /\ \A d \in Conns : Len(cmds[d]) <= CmdDepth
  BY DEF RequestInv, RequestTypeOK
<1> DEFINE new == {cmds[c][i].id : i \in 1..Len(cmds[c])} \ {0}
<1>2. /\ cmds' = [cmds EXCEPT ![c] = <<>>]
      /\ pendingReq' = [pendingReq EXCEPT ![c] = pendingReq[c] \cup new]
      /\ toHub' = [toHub EXCEPT ![c] = IF connected[c] /\ link[c] = "up"
                                       THEN toHub[c] \o cmds[c] ELSE toHub[c]]
      /\ UNCHANGED <<fromHub, call, abandoned, nextId>>
  BY DEF DrainCommands
<1>3. new = Ids(Queued(c)) /\ new \subseteq Nat \ {0}
  <2>1. DOMAIN cmds[c] = 1..Len(cmds[c])
    BY SMT, <1>1
  <2>2. Range(cmds[c]) = {cmds[c][i] : i \in 1..Len(cmds[c])}
    BY <2>1 DEF Range
  <2>3. \A m \in Range(cmds[c]) : m.id \in Nat /\ m.body \in Bodies
    <3>1. Range(cmds[c]) \subseteq Command
      BY <1>1, EndsOfSeq
    <3> QED BY <3>1, Messages
  <2>4. new = {m.id : m \in Range(cmds[c])} \ {0}
    BY <2>2
  <2>5. \A i, b : <<i, b>> \in Queued(c) <=> \E m \in Range(cmds[c]) : m.id = i /\ m.body = b /\ i # 0
    BY SMT DEF Queued, Tags
  <2>6. \A i : i \in new <=> i # 0 /\ \E m \in Range(cmds[c]) : m.id = i
    BY <2>4
  <2>7. \A i : i \in Ids(Queued(c)) <=> i \in Nat /\ \E b \in Bodies : <<i, b>> \in Queued(c)
    BY DEF Ids
  <2> HIDE DEF new
  <2>8. \A i : i \in new <=> i \in Ids(Queued(c))
    <3>1. ASSUME NEW i \in new  PROVE i \in Ids(Queued(c))
      <4>1. PICK m \in Range(cmds[c]) : m.id = i
        BY <2>6
      <4>2. <<i, m.body>> \in Queued(c) /\ i \in Nat /\ m.body \in Bodies
        BY <2>3, <2>5, <2>6, <4>1
      <4> QED BY <2>7, <4>2
    <3>2. ASSUME NEW i \in Ids(Queued(c))  PROVE i \in new
      BY <2>5, <2>6, <2>7
    <3> QED BY <3>1, <3>2
  <2>9. new \subseteq Nat \ {0}
    BY <2>3, <2>6
  <2> QED BY <2>8, <2>9
<1> HIDE DEF new
<1>4. <<>> \in Seq(Command) /\ Tags(<<>>) = {} /\ Len(<<>>) <= CmdDepth
  <2>1. <<>> \in Seq(Command) /\ Len(<<>>) = 0
    BY SMT
  <2>2. Len(<<>>) <= CmdDepth
    BY SMT, <2>1, DepthAssumption
  <2> QED BY <2>1, <2>2, TagsOf, Messages
<1>5. /\ toHub[c] \o cmds[c] \in Seq(Command)
      /\ Tags(toHub[c] \o cmds[c]) = Tags(toHub[c]) \cup Tags(cmds[c])
  <2>1. toHub[c] \in Seq(Command) /\ cmds[c] \in Seq(Command)
    BY <1>1
  <2>2. \A q, r \in Seq(Command) : q \o r \in Seq(Command) /\ Tags(q \o r) = Tags(q) \cup Tags(r)
    BY SMT, ConcatIsLonger, ConcatTags
  <2> QED BY <2>1, <2>2
<1>6. /\ cmds' \in [Conns -> Seq(Command)] /\ toHub' \in [Conns -> Seq(Command)]
      /\ pendingReq' \in [Conns -> SUBSET (Nat \ {0})]
      /\ \A d \in Conns : Len(cmds'[d]) <= CmdDepth
  <2>1. cmds' \in [Conns -> Seq(Command)] /\ \A d \in Conns : Len(cmds'[d]) <= CmdDepth
    BY <1>1, <1>2, <1>4
  <2>2. toHub' \in [Conns -> Seq(Command)]
    BY <1>1, <1>2, <1>5
  <2>3. pendingReq' \in [Conns -> SUBSET (Nat \ {0})]
    BY <1>1, <1>2, <1>3
  <2> QED BY <2>1, <2>2, <2>3
<1>7. RequestTypeOK'
  BY <1>2, <1>6 DEF RequestInv, RequestTypeOK
<1>8. /\ Queued(c)' = {} /\ Wired(c)' \subseteq Wired(c) \cup Queued(c)
      /\ pendingReq'[c] = pendingReq[c] \cup Ids(Queued(c))
  <2>1. cmds'[c] = <<>> /\ pendingReq'[c] = pendingReq[c] \cup new
    BY <1>1, <1>2
  <2>2. toHub'[c] = toHub[c] \o cmds[c] \/ toHub'[c] = toHub[c]
    BY <1>1, <1>2
  <2> QED BY <1>2, <1>3, <1>4, <1>5, <2>1, <2>2 DEF Queued, Wired
<1>9. \A d \in Conns \ {c} : /\ Queued(d)' = Queued(d) /\ Wired(d)' = Wired(d)
                             /\ pendingReq'[d] = pendingReq[d]
  <2>1. \A d \in Conns \ {c} : /\ cmds'[d] = cmds[d] /\ toHub'[d] = toHub[d]
                               /\ pendingReq'[d] = pendingReq[d]
    BY <1>1, <1>2
  <2> QED BY SMT, <1>2, <2>1 DEF Queued, Wired
<1>10. /\ Ids(Queued(c))' = {} /\ Ids(Wired(c))' \subseteq Ids(Wired(c)) \cup Ids(Queued(c))
       /\ IdsOf(c)' \subseteq IdsOf(c)
  <2>1. Ids(Queued(c))' = {} /\ Ids(Wired(c))' \subseteq Ids(Wired(c)) \cup Ids(Queued(c))
    BY <1>8 DEF Ids
  <2> QED BY <1>8, <2>1 DEF IdsOf
<1>11. \A d \in Conns \ {c} : /\ Ids(Queued(d))' = Ids(Queued(d)) /\ Ids(Wired(d))' = Ids(Wired(d))
                              /\ IdsOf(d)' = IdsOf(d)
  BY SMT, <1>9 DEF Ids, IdsOf
<1>12. \A d \in Conns : IdsOf(d)' \subseteq IdsOf(d)
  BY SMT, <1>10, <1>11
<1>13. \A d \in Conns : \A i \in IdsOf(d)' : i < nextId'
  BY <1>2, <1>12 DEF RequestInv
<1>14. \A d \in Conns : Ids(Queued(d))' \cap (Ids(Wired(d))' \cup pendingReq'[d]) = {}
  BY SMT, <1>9, <1>10, <1>11 DEF RequestInv
<1>15. \A d, e \in Conns : d # e => IdsOf(d)' \cap IdsOf(e)' = {}
  BY <1>12 DEF RequestInv
<1>16. \A d \in Conns : \A i \in Ids(Queued(d))' \cup pendingReq'[d] : Accounted(i)'
  <2>1. \A i : Accounted(i) => Accounted(i)'
    BY <1>2 DEF Accounted
  <2>2. \A d \in Conns : Ids(Queued(d))' \cup pendingReq'[d] \subseteq Ids(Queued(d)) \cup pendingReq[d]
    BY SMT, <1>8, <1>9, <1>10, <1>11
  <2> QED BY <2>1, <2>2 DEF RequestInv
<1>17. \A d \in Conns, k \in Callers, b \in Bodies :
          call'[k].st = "waiting" /\ <<call'[k].id, b>> \in Queued(d)' \cup Wired(d)'
              => call'[k].body = b
  <2>1. \A d \in Conns : Queued(d)' \cup Wired(d)' \subseteq Queued(d) \cup Wired(d)
    BY SMT, <1>8, <1>9
  <2> QED BY <1>2, <2>1 DEF RequestInv
<1>18. \A k \in Callers : call'[k].st # "idle" => call'[k].id # 0 /\ call'[k].id < nextId'
  BY <1>2 DEF RequestInv
<1>19. RepliesMatchCalls'
  BY <1>2 DEF RequestInv, RepliesMatchCalls
<1> QED BY <1>7, <1>13, <1>14, <1>15, <1>16, <1>17, <1>18, <1>19 DEF RequestInv

\* What the accounting of the wire, the queues and the tables needs of a step
\* that adds no id and changes no waiting call but by answering it.
LEMMA Forgetting ==
  ASSUME RequestInv, RequestTypeOK', UNCHANGED nextId, RepliesMatchCalls',
         \A k \in Callers : \/ call'[k] = call[k]
                            \/ call'[k].st = "answered" /\ call[k].st = "waiting"
                               /\ call'[k].id = call[k].id,
         \A c \in Conns : /\ Queued(c)' \subseteq Queued(c) /\ Wired(c)' \subseteq Wired(c)
                          /\ pendingReq'[c] \subseteq pendingReq[c],
         \A c \in Conns : \A i \in Ids(Queued(c))' \cup pendingReq'[c] :
             Accounted(i) => Accounted(i)'
  PROVE  RequestInv'
<1>1. ASSUME NEW c \in Conns
      PROVE  /\ Ids(Queued(c))' \subseteq Ids(Queued(c)) /\ Ids(Wired(c))' \subseteq Ids(Wired(c))
             /\ IdsOf(c)' \subseteq IdsOf(c)
  BY DEF Ids, IdsOf
<1>2. \A c \in Conns : \A i \in IdsOf(c)' : i < nextId'
  BY <1>1 DEF RequestInv
<1>3. \A c \in Conns : Ids(Queued(c))' \cap (Ids(Wired(c))' \cup pendingReq'[c]) = {}
  BY <1>1 DEF RequestInv
<1>4. \A c, d \in Conns : c # d => IdsOf(c)' \cap IdsOf(d)' = {}
  BY <1>1 DEF RequestInv
<1>5. \A c \in Conns : \A i \in Ids(Queued(c))' \cup pendingReq'[c] : Accounted(i)'
  BY <1>1 DEF RequestInv
<1>6. \A c \in Conns, k \in Callers, b \in Bodies :
          call'[k].st = "waiting" /\ <<call'[k].id, b>> \in Queued(c)' \cup Wired(c)'
              => call'[k].body = b
  <2> SUFFICES ASSUME NEW c \in Conns, NEW k \in Callers, NEW b \in Bodies,
                      call'[k].st = "waiting",
                      <<call'[k].id, b>> \in Queued(c)' \cup Wired(c)'
               PROVE  call'[k].body = b
    OBVIOUS
  <2>1. call'[k] = call[k]
    OBVIOUS
  <2> QED BY <2>1 DEF RequestInv
<1>7. \A k \in Callers : call'[k].st # "idle" => call'[k].id # 0 /\ call'[k].id < nextId'
  <2> SUFFICES ASSUME NEW k \in Callers, call'[k].st # "idle"
               PROVE  call'[k].id # 0 /\ call'[k].id < nextId'
    OBVIOUS
  <2>1. CASE call'[k] = call[k]
    BY <2>1 DEF RequestInv
  <2>2. CASE call[k].st = "waiting" /\ call'[k].id = call[k].id
    BY <2>2 DEF RequestInv
  <2> QED BY <2>1, <2>2
<1> QED BY <1>2, <1>3, <1>4, <1>5, <1>6, <1>7 DEF RequestInv

\* reap_abandoned_requests forgets on one connection only what is abandoned.
LEMMA ReapStep ==
  ASSUME RequestInv, NEW c \in Conns, Reap(c)
  PROVE  RequestInv'
<1>1. /\ pendingReq' = [pendingReq EXCEPT ![c] = pendingReq[c] \ abandoned]
      /\ abandoned' = abandoned \ pendingReq[c]
      /\ UNCHANGED <<cmds, toHub, fromHub, call, nextId>>
  BY DEF Reap
<1>2. pendingReq \in [Conns -> SUBSET (Nat \ {0})]
  BY DEF RequestInv, RequestTypeOK
<1>3. RequestTypeOK'
  <2>1. pendingReq' \in [Conns -> SUBSET (Nat \ {0})]
    BY <1>1, <1>2
  <2> QED BY <1>1, <2>1 DEF RequestInv, RequestTypeOK
<1>4. \A d \in Conns : /\ Queued(d)' = Queued(d) /\ Wired(d)' = Wired(d)
                       /\ pendingReq'[d] \subseteq pendingReq[d]
  BY <1>1, <1>2 DEF Queued, Wired
<1>5. RepliesMatchCalls'
  BY <1>1 DEF RequestInv, RepliesMatchCalls
<1>6. ASSUME NEW d \in Conns, NEW i \in Ids(Queued(d))' \cup pendingReq'[d], Accounted(i)
      PROVE  Accounted(i)'
  <2>1. CASE \E k \in Callers : call[k].id = i /\ call[k].st = "waiting"
    BY <1>1, <2>1 DEF Accounted
  <2>2. CASE i \in abandoned
    <3>1. i \notin pendingReq[c]
      <4>1. CASE d = c /\ i \in pendingReq'[d]
        BY <1>1, <1>2, <2>2, <4>1
      <4>2. CASE d = c /\ i \in Ids(Queued(d))'
        <5>1. i \in Ids(Queued(c))
          BY <1>4, <4>2
        <5> QED BY <5>1 DEF RequestInv
      <4>3. CASE d # c
        <5>1. i \in IdsOf(d)
          BY <1>4 DEF IdsOf, Ids
        <5>2. IdsOf(c) \cap IdsOf(d) = {}
          BY <4>3 DEF RequestInv
        <5> QED BY <5>1, <5>2 DEF IdsOf
      <4> QED BY <4>1, <4>2, <4>3
    <3> QED BY <1>1, <2>2, <3>1 DEF Accounted
  <2> QED BY <1>6, <2>1, <2>2 DEF Accounted
<1> QED BY <1>1, <1>3, <1>4, <1>5, <1>6, Forgetting

\* disconnect() forgets whole connections.
LEMMA DisconnectStep ==
  ASSUME RequestInv, NEW cs \in SUBSET Conns, DisconnectAll(cs)
  PROVE  RequestInv'
<1>1. /\ cmds' = [c \in Conns |-> IF c \in cs THEN <<>> ELSE cmds[c]]
      /\ pendingReq' = [c \in Conns |-> IF c \in cs THEN {} ELSE pendingReq[c]]
      /\ toHub' = [c \in Conns |-> IF c \in cs THEN <<>> ELSE toHub[c]]
      /\ fromHub' = [c \in Conns |-> IF c \in cs THEN <<>> ELSE fromHub[c]]
      /\ abandoned' = abandoned \ UNION {pendingReq[c] : c \in cs}
      /\ UNCHANGED <<call, nextId>>
  BY DEF DisconnectAll
<1>2. /\ \A c \in Conns : cmds[c] \in Seq(Command) /\ Len(cmds[c]) <= CmdDepth
      /\ \A c \in Conns : toHub[c] \in Seq(Command) /\ fromHub[c] \in Seq(Frame)
      /\ \A c \in Conns : pendingReq[c] \in SUBSET (Nat \ {0})
  BY DEF RequestInv, RequestTypeOK
<1>3. /\ <<>> \in Seq(Command) /\ <<>> \in Seq(Frame) /\ Len(<<>>) <= CmdDepth
      /\ Tags(<<>>) = {}
  <2>1. <<>> \in Seq(Command) /\ <<>> \in Seq(Frame) /\ Len(<<>>) = 0
    BY SMT
  <2>2. Len(<<>>) <= CmdDepth
    BY SMT, <2>1, DepthAssumption
  <2> QED BY <2>1, <2>2, TagsOf, Messages
<1>4. RequestTypeOK'
  <2>1. cmds' \in [Conns -> Seq(Command)] /\ \A c \in Conns : Len(cmds'[c]) <= CmdDepth
    BY <1>1, <1>2, <1>3
  <2>2. toHub' \in [Conns -> Seq(Command)] /\ fromHub' \in [Conns -> Seq(Frame)]
    BY <1>1, <1>2, <1>3
  <2>3. pendingReq' \in [Conns -> SUBSET (Nat \ {0})]
    BY <1>1, <1>2
  <2> QED BY <1>1, <2>1, <2>2, <2>3 DEF RequestInv, RequestTypeOK
<1>5. ASSUME NEW c \in Conns
      PROVE  /\ c \in cs => Queued(c)' = {} /\ Wired(c)' = {} /\ pendingReq'[c] = {}
             /\ c \notin cs => /\ Queued(c)' = Queued(c) /\ Wired(c)' = Wired(c)
                               /\ pendingReq'[c] = pendingReq[c]
  BY <1>1, <1>3 DEF Queued, Wired
<1>6. \A c \in Conns : /\ Queued(c)' \subseteq Queued(c) /\ Wired(c)' \subseteq Wired(c)
                       /\ pendingReq'[c] \subseteq pendingReq[c]
  BY <1>5
<1>7. RepliesMatchCalls'
  BY <1>1 DEF RequestInv, RepliesMatchCalls
<1>8. ASSUME NEW d \in Conns, NEW i \in Ids(Queued(d))' \cup pendingReq'[d], Accounted(i)
      PROVE  Accounted(i)'
  <2>1. d \notin cs /\ i \in IdsOf(d)
    BY <1>5 DEF Ids, IdsOf
  <2>2. ASSUME NEW c \in cs  PROVE i \notin pendingReq[c]
    <3>1. IdsOf(c) \cap IdsOf(d) = {}
      BY <2>1 DEF RequestInv
    <3> QED BY <2>1, <3>1 DEF IdsOf
  <2>3. i \in abandoned => i \in abandoned'
    BY <1>1, <2>2
  <2> QED BY <1>1, <1>8, <2>3 DEF Accounted
<1> QED BY <1>1, <1>4, <1>6, <1>7, <1>8, Forgetting

\* recv_and_dispatch: a reply to a pending request that was not abandoned wakes
\* its caller; every other reply is dropped.
LEMMA ReceiveReplyStep ==
  ASSUME RequestInv, NEW c \in Conns, ReceiveReply(c)
  PROVE  RequestInv'
<1> DEFINE m == Head(fromHub[c])
<1>1. /\ fromHub[c] # <<>> /\ m.id # 0
      /\ pendingReq' = [pendingReq EXCEPT ![c] = pendingReq[c] \ {m.id}]
      /\ call' = [k \in Callers |-> IF k \in Answered(c, m)
                                    THEN [st |-> "answered", conn |-> call[k].conn, id |-> m.id,
                                          body |-> call[k].body, reply |-> <<m>>]
                                    ELSE call[k]]
      /\ abandoned' = abandoned \ {m.id}
      /\ fromHub' = [fromHub EXCEPT ![c] = Tail(fromHub[c])]
      /\ UNCHANGED <<cmds, toHub, nextId>>
  BY DEF ReceiveReply
<1>2. /\ fromHub \in [Conns -> Seq(Frame)] /\ call \in [Callers -> Call]
      /\ pendingReq \in [Conns -> SUBSET (Nat \ {0})]
  BY DEF RequestInv, RequestTypeOK
<1>3. /\ Tail(fromHub[c]) \in Seq(Frame) /\ Tags(Tail(fromHub[c])) \subseteq Tags(fromHub[c])
      /\ m \in Frame
      /\ <<m.id, m.body>> \in Tags(fromHub[c])
  BY <1>1, <1>2, EndsOfSeq, TagsOf, Messages
<1>4. m.id \in Nat /\ m.body \in Bodies
  BY <1>3, Messages
<1> HIDE DEF m
<1>5. <<m.id, m.body>> \in Wired(c) /\ m.id \in Ids(Wired(c)) /\ m.id \in IdsOf(c)
  BY <1>3, <1>4 DEF Wired, Ids, IdsOf
<1>6. ASSUME NEW k \in Answered(c, m)
      PROVE  /\ call[k].st = "waiting" /\ call[k].id = m.id /\ call[k].body = m.body
             /\ call'[k] \in Call /\ call'[k].st = "answered" /\ call'[k].id = call[k].id
             /\ call'[k].body = call[k].body /\ call'[k].reply[1] = m
  <2>1. k \in Callers /\ call[k].st = "waiting" /\ call[k].id = m.id
    BY DEF Answered
  <2>2. call[k].body = m.body
    BY <1>4, <1>5, <2>1 DEF RequestInv
  <2>3. call'[k] = [st |-> "answered", conn |-> call[k].conn, id |-> m.id,
                    body |-> call[k].body, reply |-> <<m>>]
    BY <1>1, <2>1
  <2>4. <<m>> \in Seq(Frame) /\ <<m>>[1] = m
    BY SMT, <1>3
  <2>5. /\ call'[k].st = "answered" /\ call'[k].id = m.id
        /\ call'[k].body = call[k].body /\ call'[k].reply = <<m>>
    BY SMT, <2>3
  <2>6. call[k].body \in Bodies \cup {NoBody} /\ call[k].conn \in Conns \cup {0}
    <3>1. call[k] \in Call
      BY <1>2, <2>1
    <3> QED BY SMT, <3>1 DEF Call
  <2>7. call'[k] \in Call
    BY SMT, <1>4, <2>3, <2>4, <2>6 DEF Call
  <2> QED BY <2>1, <2>2, <2>4, <2>5, <2>7
<1>7. \A k \in Callers \ Answered(c, m) : call'[k] = call[k]
  BY <1>1
<1>8. RequestTypeOK'
  <2>1. fromHub' \in [Conns -> Seq(Frame)]
    BY <1>1, <1>2, <1>3
  <2>2. pendingReq' \in [Conns -> SUBSET (Nat \ {0})]
    BY <1>1, <1>2
  <2>3. ASSUME NEW k \in Callers  PROVE call'[k] \in Call
    <3>1. CASE k \in Answered(c, m)
      BY <1>6, <3>1
    <3>2. CASE k \notin Answered(c, m)
      BY <1>2, <1>7, <3>2
    <3> QED BY <3>1, <3>2
  <2>4. call' \in [Callers -> Call]
    BY <1>1, <2>3
  <2> QED BY <1>1, <2>1, <2>2, <2>4 DEF RequestInv, RequestTypeOK
<1>9. RepliesMatchCalls'
  <2> SUFFICES ASSUME NEW k \in Callers, call'[k].st = "answered"
               PROVE  call'[k].reply[1].body = call'[k].body /\ call'[k].reply[1].id = call'[k].id
    BY DEF RepliesMatchCalls
  <2>1. CASE k \in Answered(c, m)
    BY <1>6, <2>1
  <2>2. CASE k \notin Answered(c, m)
    BY <1>7, <2>2 DEF RequestInv, RepliesMatchCalls
  <2> QED BY <2>1, <2>2
<1>10. \A d \in Conns : /\ Queued(d)' \subseteq Queued(d) /\ Wired(d)' \subseteq Wired(d)
                        /\ pendingReq'[d] \subseteq pendingReq[d]
  <2>1. \A d \in Conns : Tags(fromHub'[d]) \subseteq Tags(fromHub[d])
    BY <1>1, <1>2, <1>3
  <2> QED BY <1>1, <1>2, <2>1 DEF Queued, Wired
<1>11. ASSUME NEW d \in Conns, NEW i \in Ids(Queued(d))' \cup pendingReq'[d], Accounted(i)
       PROVE  Accounted(i)'
  <2>1. i # m.id
    <3>1. CASE d = c /\ i \in pendingReq'[d]
      BY <1>1, <1>2, <3>1
    <3>2. CASE d = c /\ i \in Ids(Queued(d))'
      <4>1. i \in Ids(Queued(c))
        BY <1>10, <3>2 DEF Ids
      <4> QED BY <1>5, <4>1 DEF RequestInv
    <3>3. CASE d # c
      <4>1. i \in IdsOf(d)
        BY <1>10 DEF IdsOf, Ids
      <4>2. IdsOf(c) \cap IdsOf(d) = {}
        BY <3>3 DEF RequestInv
      <4> QED BY <1>5, <4>1, <4>2
    <3> QED BY <3>1, <3>2, <3>3
  <2>2. \A k \in Callers : call[k].id = i => k \notin Answered(c, m)
    BY <1>6, <2>1
  <2>3. \A k \in Callers : call[k].id = i => call'[k] = call[k]
    BY <1>7, <2>2
  <2> QED BY <1>1, <1>11, <2>1, <2>3 DEF Accounted
<1>12. \A k \in Callers : \/ call'[k] = call[k]
                          \/ call'[k].st = "answered" /\ call[k].st = "waiting"
                             /\ call'[k].id = call[k].id
  BY <1>6, <1>7
<1> QED BY <1>1, <1>8, <1>9, <1>10, <1>11, <1>12, Forgetting

\* do_request: a fresh id, in the queue and with its caller.
LEMMA DoRequestStep ==
  ASSUME RequestInv, NEW k \in Callers, NEW c \in Conns, NEW b \in Bodies, DoRequest(k, c, b)
  PROVE  RequestInv'
<1> DEFINE x == [id |-> nextId, body |-> b]
           y == [st |-> "waiting", conn |-> c, id |-> nextId, body |-> b, reply |-> <<>>]
<1>1. /\ call[k].st = "idle"
      /\ cmds' = [cmds EXCEPT ![c] = Pushed(cmds[c], x)]
      /\ call' = [call EXCEPT ![k] = y]
      /\ nextId' = nextId + 1
      /\ UNCHANGED <<pendingReq, toHub, fromHub, abandoned>>
  BY DEF DoRequest
<1>2. /\ cmds \in [Conns -> Seq(Command)] /\ call \in [Callers -> Call]
      /\ \A d \in Conns : Len(cmds[d]) <= CmdDepth
      /\ nextId \in Nat /\ nextId # 0
  BY DEF RequestInv, RequestTypeOK
<1>3. x \in Command /\ x.id = nextId /\ x.body = b
  BY SMT, <1>2 DEF Command
<1>4. Tags(<<x>>) = {<<nextId, b>>}
  BY <1>2, <1>3, TagOf
<1>5. y \in Call /\ y.st = "waiting" /\ y.id = nextId /\ y.body = b
  BY SMT, <1>2 DEF Call
<1> HIDE DEF x, y
<1>6. /\ Pushed(cmds[c], x) \in Seq(Command) /\ Len(Pushed(cmds[c], x)) <= CmdDepth
      /\ Tags(Pushed(cmds[c], x)) \subseteq Tags(cmds[c]) \cup {<<nextId, b>>}
  BY <1>2, <1>3, <1>4, PushKeepsDepth
<1>7. /\ call' \in [Callers -> Call] /\ call'[k] = y
      /\ \A l \in Callers : l # k => call'[l] = call[l]
  BY <1>1, <1>2, <1>5
<1>8. nextId' \in Nat \ {0} /\ nextId < nextId' /\ \A i \in Nat : i < nextId => i < nextId' /\ i # nextId
  BY SMT, <1>1, <1>2
<1>9. RequestTypeOK'
  <2>1. cmds' \in [Conns -> Seq(Command)] /\ \A d \in Conns : Len(cmds'[d]) <= CmdDepth
    BY <1>1, <1>2, <1>6
  <2> QED BY <1>1, <1>7, <1>8, <2>1 DEF RequestInv, RequestTypeOK
<1>10. /\ \A d \in Conns : Wired(d)' = Wired(d) /\ pendingReq'[d] = pendingReq[d]
       /\ \A d \in Conns : d # c => Queued(d)' = Queued(d)
       /\ Queued(c)' \subseteq Queued(c) \cup {<<nextId, b>>}
  <2>1. cmds'[c] = Pushed(cmds[c], x) /\ \A d \in Conns : d # c => cmds'[d] = cmds[d]
    BY <1>1, <1>2
  <2> QED BY <1>1, <1>6, <2>1 DEF Queued, Wired
<1>11. /\ \A d \in Conns : Ids(Wired(d))' = Ids(Wired(d))
       /\ \A d \in Conns : d # c => Ids(Queued(d))' = Ids(Queued(d)) /\ IdsOf(d)' = IdsOf(d)
       /\ Ids(Queued(c))' \subseteq Ids(Queued(c)) \cup {nextId}
       /\ IdsOf(c)' \subseteq IdsOf(c) \cup {nextId}
  <2>1. \A d \in Conns : Ids(Wired(d))' = Ids(Wired(d))
    BY <1>10 DEF Ids
  <2>2. \A d \in Conns : d # c => Ids(Queued(d))' = Ids(Queued(d))
    BY <1>10 DEF Ids
  <2>3. Ids(Queued(c))' \subseteq Ids(Queued(c)) \cup {nextId}
    BY SMT, <1>10 DEF Ids
  <2> QED BY <1>10, <2>1, <2>2, <2>3 DEF IdsOf
<1>12. \A d \in Conns : IdsOf(d) \subseteq Nat /\ nextId \notin IdsOf(d)
  <2>1. \A d \in Conns : IdsOf(d) \subseteq Nat
    BY DEF RequestInv, RequestTypeOK, IdsOf, Ids
  <2> QED BY <1>8, <2>1 DEF RequestInv
<1>13. \A d \in Conns : \A i \in IdsOf(d)' : i < nextId'
  <2>1. \A d \in Conns : \A i \in IdsOf(d) : i < nextId'
    BY <1>8, <1>12 DEF RequestInv
  <2> QED BY <1>8, <1>11, <2>1
<1>14. \A d \in Conns : Ids(Queued(d))' \cap (Ids(Wired(d))' \cup pendingReq'[d]) = {}
  <2>1. \A d \in Conns : nextId \notin Ids(Wired(d)) \cup pendingReq[d]
    BY <1>12 DEF IdsOf
  <2>2. \A d \in Conns : Ids(Queued(d))' \subseteq Ids(Queued(d)) \cup {nextId}
    BY <1>11
  <2> QED BY <1>10, <1>11, <2>1, <2>2 DEF RequestInv
<1>15. \A d, e \in Conns : d # e => IdsOf(d)' \cap IdsOf(e)' = {}
  <2>1. \A d, e \in Conns : d # e => IdsOf(d) \cap IdsOf(e) = {}
    BY DEF RequestInv
  <2> QED BY SMT, <1>11, <1>12, <2>1
<1>16. \A d \in Conns : \A i \in Ids(Queued(d))' \cup pendingReq'[d] : Accounted(i)'
  <2>1. \A i : Accounted(i) => Accounted(i)'
    BY <1>1, <1>7 DEF Accounted
  <2>2. \A i : i = nextId => Accounted(i)'
    BY <1>5, <1>7 DEF Accounted
  <2>3. \A d \in Conns : Ids(Queued(d))' \cup pendingReq'[d]
                           \subseteq Ids(Queued(d)) \cup pendingReq[d] \cup {nextId}
    BY <1>10, <1>11
  <2> QED BY <2>1, <2>2, <2>3 DEF RequestInv
<1>17. ASSUME NEW d \in Conns, NEW l \in Callers, NEW z \in Bodies,
              call'[l].st = "waiting", <<call'[l].id, z>> \in Queued(d)' \cup Wired(d)'
       PROVE  call'[l].body = z
  <2>1. Queued(d)' \cup Wired(d)' \subseteq Queued(d) \cup Wired(d) \cup {<<nextId, b>>}
    BY <1>10
  <2>2. ASSUME NEW i \in Nat, <<i, z>> \in Queued(d) \cup Wired(d)  PROVE i # nextId
    BY <1>12, <2>2 DEF IdsOf, Ids
  <2>3. CASE l = k
    <3>1. <<nextId, z>> \in Queued(d) \cup Wired(d) \cup {<<nextId, b>>}
      BY <1>5, <1>7, <1>17, <2>1, <2>3
    <3>2. <<nextId, z>> = <<nextId, b>>
      BY <1>2, <2>2, <3>1
    <3>3. z = b
      BY SMT, <3>2
    <3> QED BY <1>5, <1>7, <2>3, <3>3
  <2>4. CASE l # k
    <3>1. call'[l] = call[l]
      BY <1>7, <2>4
    <3>2. call[l].id < nextId /\ call[l].id \in Nat
      <4>1. call[l] \in Call
        BY <1>2
      <4>2. call[l].id \in Nat
        BY SMT, <4>1 DEF Call
      <4> QED BY <1>17, <3>1, <4>2 DEF RequestInv
    <3>3. <<call[l].id, z>> # <<nextId, b>>
      <4>1. call[l].id # nextId
        BY <1>8, <3>2
      <4> QED BY SMT, <4>1
    <3>4. <<call[l].id, z>> \in Queued(d) \cup Wired(d)
      BY <1>17, <2>1, <3>1, <3>3
    <3> QED BY <1>17, <3>1, <3>4 DEF RequestInv
  <2> QED BY <2>3, <2>4
<1>18. \A l \in Callers : call'[l].st # "idle" => call'[l].id # 0 /\ call'[l].id < nextId'
  <2>1. \A l \in Callers : call[l].id \in Nat
    BY SMT, <1>2 DEF Call
  <2> QED BY <1>2, <1>5, <1>7, <1>8, <2>1 DEF RequestInv
<1>19. RepliesMatchCalls'
  <2>1. \A l \in Callers : call'[l].st = "answered" => call'[l] = call[l]
    BY <1>5, <1>7
  <2> QED BY <2>1 DEF RequestInv, RepliesMatchCalls
<1> QED BY <1>9, <1>13, <1>14, <1>15, <1>16, <1>17, <1>18, <1>19 DEF RequestInv

\* The request channel keeps its invariant.
LEMMA RequestInvStep ==
  ASSUME RequestInv, [RequestStep]_brcVars
  PROVE  RequestInv'
<1>1. CASE UNCHANGED brcVars
  BY <1>1, QuietSteps DEF brcVars
<1>2. ASSUME NEW cs \in SUBSET Conns,
             \/ ConnectAll(cs) \/ StopAll(cs) \/ DisconnectAll(cs)
             \/ \E b \in Bodies : SendCommand(cs, b)
      PROVE  RequestInv'
  BY <1>2, QuietSteps, DisconnectStep, SendCommandStep DEF ConnectAll, StopAll
<1>3. ASSUME NEW c \in Conns,
             \/ DrainCommands(c) \/ ReceiveReply(c) \/ ReceiveNotify(c) \/ Reap(c)
             \/ CheckMonitor(c) \/ LinkDown(c)
             \/ \E b \in Bodies : HubNotifies(c, b)
             \/ \E ok \in Answers : HubAnswers(c, ok)
      PROVE  RequestInv'
  <2>1. CASE CheckMonitor(c)
    BY <2>1, QuietSteps DEF CheckMonitor
  <2> QED BY <1>3, <2>1, DrainCommandsStep, ReceiveReplyStep, ReceiveNotifyStep, ReapStep,
             LinkDownStep, HubNotifiesStep, HubAnswersStep
<1>4. CASE \E k \in Callers, c \in Conns, b \in Bodies : DoRequest(k, c, b)
  BY <1>4, DoRequestStep
<1>5. CASE \E k \in Callers : TakeReply(k) \/ GiveUp(k)
  BY <1>5, CallerLeaves
<1> QED BY <1>1, <1>2, <1>3, <1>4, <1>5 DEF RequestStep

\* What the invariant says of every blocking request.
LEMMA RequestInvImplies == RequestInv => RequestsAreAccounted
BY DEF RequestInv, RequestsAreAccounted, PendingIsAccounted, Accounted

LEMMA RequestInvInit == RequestInit => RequestInv
<1> SUFFICES ASSUME RequestInit PROVE RequestInv
  OBVIOUS
<1>1. <<>> \in Seq(Command) /\ <<>> \in Seq(Frame) /\ Len(<<>>) <= CmdDepth
  BY SMT, DepthAssumption
<1>2. NoCall \in Call /\ NoCall.st = "idle"
  BY SMT DEF NoCall, Call
<1>3. RequestTypeOK
  <2>1. nextId \in Nat \ {0}
    BY SMT DEF RequestInit
  <2> QED BY <1>1, <1>2, <2>1 DEF RequestInit, RequestTypeOK
<1>4. Tags(<<>>) = {}
  BY <1>1, TagsOf, Messages
<1>5. \A c \in Conns : Queued(c) = {} /\ Wired(c) = {} /\ IdsOf(c) = {} /\ pendingReq[c] = {}
  BY <1>4 DEF RequestInit, Queued, Wired, IdsOf, Ids
<1>6. \A k \in Callers : call[k].st = "idle"
  BY <1>2 DEF RequestInit
<1> QED BY <1>3, <1>5, <1>6 DEF RequestInv, RepliesMatchCalls, Ids

-----------------------------------------------------------------------------
(* The data loop                                                           *)

loopSlots == <<role, loopPc, input, out, supply, taken, offered>>

\* The inductive invariant behind the slots of the loop: who can hold a slot
\* where, and which places of the loop a role passes.
LoopInv ==
    /\ role \in Roles
    /\ supply \in Nat /\ taken \in Nat /\ offered \in Nat /\ input \in Nat /\ out \in BOOLEAN
    /\ loopPc \in {"off", "top", "init", "read", "write", "observe", "invoke", "exit", "done"}
    /\ loopPc = "read" => Reads
    /\ loopPc = "write" => Writes
    /\ ~Reads => input = 0
    /\ ~Writes => ~out
    /\ loopPc \notin {"observe", "invoke"} => ~out
    /\ loopPc \in {"off", "top", "init", "read", "exit"} /\ ~(Reads /\ Writes) => input = 0
    /\ loopPc = "done" => input = 0
    /\ BlockModeOffersEveryInput

\* What does not move the loop or its slots keeps the invariant.
LEMMA LoopRests ==
  ASSUME LoopInv, UNCHANGED loopSlots
  PROVE  LoopInv'
BY DEF LoopInv, loopSlots, Reads, Writes, BlockModeOffersEveryInput

LEMMA LoopMoves ==
  ASSUME LoopInv, LoopStep \/ RxArrives
  PROVE  LoopInv'
<1>0. /\ role.shape \in {"producer", "consumer", "processor"}
      /\ role' = role /\ (Reads' <=> Reads) /\ (Writes' <=> Writes)
  <2>1. role' = role
    BY DEF LoopStep, RxArrives, LoopTop, InitReady, InitNotReady, InitTimesOut, AcquireInput,
           AcquireOutput, Observe, CleanupOnExit, Invoke
  <2> QED BY <2>1, RolesAssumption DEF LoopInv, Reads, Writes
<1>1. CASE LoopTop
  <2>1. /\ UNCHANGED <<input, out, supply, taken, offered>>
        /\ loopPc = "top" /\ loopPc' \in {"exit", "init"}
    BY <1>1 DEF LoopTop
  <2> QED BY <1>0, <2>1 DEF LoopInv, BlockModeOffersEveryInput
<1>2. CASE InitReady
  <2>1. /\ UNCHANGED <<input, out, supply, taken, offered>>
        /\ loopPc = "init" /\ loopPc' = IF Reads THEN "read" ELSE "write"
    BY <1>2 DEF InitReady
  <2>2. ~Reads => Writes
    BY DEF Reads, Writes
  <2> QED BY <1>0, <2>1, <2>2 DEF LoopInv, BlockModeOffersEveryInput
<1>3. CASE InitNotReady
  <2>1. /\ UNCHANGED <<input, out, supply, taken, offered>>
        /\ loopPc = "init" /\ loopPc' = "observe"
    BY <1>3 DEF InitNotReady
  <2> QED BY <1>0, <2>1 DEF LoopInv, BlockModeOffersEveryInput
<1>4. CASE InitTimesOut
  <2>1. /\ UNCHANGED <<input, out, supply, taken, offered>>
        /\ loopPc = "init" /\ loopPc' = "exit"
    BY <1>4 DEF InitTimesOut
  <2> QED BY <1>0, <2>1 DEF LoopInv, BlockModeOffersEveryInput
<1>5. CASE AcquireInput
  <2>1. /\ UNCHANGED <<out, offered>> /\ loopPc = "read" /\ Reads /\ ~out
        /\ loopPc' = IF Writes /\ input' # 0 THEN "write" ELSE "observe"
    BY <1>5 DEF AcquireInput, LoopInv
  <2>2. CASE UNCHANGED <<input, supply, taken>>
    BY <1>0, <2>1, <2>2 DEF LoopInv, BlockModeOffersEveryInput
  <2>3. CASE /\ input = 0 /\ supply > 0
             /\ input' = taken + 1 /\ taken' = taken + 1 /\ supply' = supply - 1
    <3>1. input' \in Nat /\ input' # 0 /\ taken' \in Nat /\ supply' \in Nat
      BY SMT, <2>3 DEF LoopInv
    <3>2. BlockModeOffersEveryInput'
      <4>1. (role.shape = "processor" /\ ~role.dropMode) => taken = offered + 0
        BY <2>1, <2>3 DEF LoopInv, BlockModeOffersEveryInput
      <4>2. taken = offered + 0 => taken' = offered + 1
        BY SMT, <2>3 DEF LoopInv
      <4> QED BY <1>0, <2>1, <3>1, <4>1, <4>2 DEF BlockModeOffersEveryInput
    <3> QED BY <1>0, <2>1, <3>1, <3>2 DEF LoopInv
  <2> QED BY <1>5, <2>2, <2>3 DEF AcquireInput
<1>6. CASE AcquireOutput
  <2>1. /\ UNCHANGED <<input, supply, taken, offered>> /\ loopPc = "write" /\ loopPc' = "observe"
        /\ out' \in BOOLEAN /\ Writes
    BY <1>6 DEF AcquireOutput, LoopInv
  <2> QED BY <1>0, <2>1 DEF LoopInv, BlockModeOffersEveryInput
<1>7. CASE Observe
  <2>1. /\ UNCHANGED <<supply, taken, offered>> /\ loopPc = "observe"
        /\ \/ out' = FALSE /\ input' = 0 /\ loopPc' = "exit"
           \/ UNCHANGED <<input, out>> /\ loopPc' = "invoke"
    BY <1>7 DEF Observe, CleanupOnShutdown
  <2>2. CASE out' = FALSE /\ input' = 0 /\ loopPc' = "exit"
    <3>1. 0 \in Nat
      BY SMT
    <3>2. input' \in Nat /\ ~out' /\ out' \in BOOLEAN
      BY <2>2, <3>1
    <3> QED BY <1>0, <2>1, <2>2, <3>2 DEF LoopInv, BlockModeOffersEveryInput
  <2>3. CASE UNCHANGED <<input, out>> /\ loopPc' = "invoke"
    BY <1>0, <2>1, <2>3 DEF LoopInv, BlockModeOffersEveryInput
  <2> QED BY <2>1, <2>2, <2>3
<1>8. CASE CleanupOnExit
  <2>1. /\ UNCHANGED <<out, supply, taken, offered>> /\ loopPc = "exit" /\ loopPc' = "done"
        /\ input' = IF Reads /\ Writes THEN 0 ELSE input
    BY <1>8 DEF CleanupOnExit
  <2>2. 0 \in Nat
    BY SMT
  <2> QED BY <1>0, <2>1, <2>2 DEF LoopInv, BlockModeOffersEveryInput
<1>9. ASSUME NEW result, NEW calledStop, Invoke(result, calledStop)
      PROVE  LoopInv'
  <2>1. /\ UNCHANGED <<supply, taken>> /\ loopPc = "invoke" /\ loopPc' \in {"exit", "top"}
        /\ offered' = IF input # 0 /\ out THEN offered + 1 ELSE offered
        /\ SlotsReturned
    BY <1>9 DEF Invoke
  <2>2. offered' \in Nat /\ 0 \in Nat
    BY SMT, <2>1 DEF LoopInv
  <2>3. CASE role.shape = "producer"
    <3>1. out' = FALSE /\ input' = input
      BY <2>1, <2>3 DEF SlotsReturned, ProducerReturns
    <3> QED BY <1>0, <2>1, <2>2, <2>3, <3>1 DEF LoopInv, BlockModeOffersEveryInput, Reads, Writes
  <2>4. CASE role.shape = "consumer"
    <3>1. input' = 0 /\ out' = out
      BY <2>1, <2>4 DEF SlotsReturned, ConsumerReturns
    <3> QED BY <1>0, <2>1, <2>2, <2>4, <3>1 DEF LoopInv, BlockModeOffersEveryInput, Reads, Writes
  <2>5. CASE role.shape = "processor"
    <3>1. out' = FALSE /\ input' = IF out \/ role.dropMode THEN 0 ELSE input
      BY <2>1, <2>5 DEF SlotsReturned, ProcessorReturns
    <3>2. input' \in Nat
      BY <2>2, <3>1 DEF LoopInv
    <3>3. BlockModeOffersEveryInput'
      <4> SUFFICES ASSUME ~role.dropMode
                   PROVE  taken = offered' + (IF input' = 0 THEN 0 ELSE 1)
        BY <1>0, <2>1 DEF BlockModeOffersEveryInput
      <4>1. taken = offered + (IF input = 0 THEN 0 ELSE 1)
        BY <2>1, <2>5 DEF LoopInv, BlockModeOffersEveryInput
      <4> QED BY SMT, <2>1, <3>1, <4>1 DEF LoopInv
    <3>4. Reads /\ Writes
      BY <2>5 DEF Reads, Writes
    <3> QED BY <1>0, <2>1, <2>2, <3>1, <3>2, <3>3, <3>4 DEF LoopInv
  <2> QED BY <1>0, <2>3, <2>4, <2>5
<1>10. CASE RxArrives
  <2>1. UNCHANGED <<loopPc, input, out, taken, offered>> /\ supply' = supply + 1
    BY <1>10 DEF RxArrives
  <2>2. supply' \in Nat
    BY SMT, <2>1 DEF LoopInv
  <2> QED BY <1>0, <2>1, <2>2 DEF LoopInv, BlockModeOffersEveryInput
<1> QED BY <1>1, <1>2, <1>3, <1>4, <1>5, <1>6, <1>7, <1>8, <1>9, <1>10 DEF LoopStep

-----------------------------------------------------------------------------
(* The worker, its control threads and main()                              *)

\* The places of the worker: before the data loop; all those from which it may
\* still ask a hub; those where it waits for an answer; the way out.
Starting == {"register", "regwait", "retry", "apply", "beat", "finalize", "peerwait", "ready"}
Talking == Starting \cup {"loop", "loopwait", "dereg", "deregwait"}
Waits == {"regwait", "peerwait", "loopwait", "deregwait"}
Ending == {"abort", "ask", "snap", "wait", "ask2", "snap2", "wait2", "invalidate", "destroy",
           "return", "gone"}

\* Where the worker stands, and what has been told to stop by then.
PhaseInv ==
    /\ wpc \in {"setup", "start"} \cup Talking \cup Ending
    /\ brcStop \in [Conns -> BOOLEAN]
    /\ wpc \in {"setup", "start"} => \A c \in Conns : ctl[c] = "none"
    /\ wpc \in {"setup", "start"} \cup Talking => \A c \in Conns : ~brcStop[c]
    /\ wpc \in {"start"} \cup Talking => "running" \in flags
    /\ wpc \in {"setup", "start"} \cup Starting => loopPc = "off"
    /\ wpc \notin Waits => call["worker"].st = "idle"
    /\ wpc \in {"register", "regwait", "retry", "apply", "deregwait"} => todo # <<>>

\* The threads that were spawned.
Spawned == {"worker"} \cup {CtrlOf[c] : c \in {d \in Conns : ctl[d] # "none"}}

\* drain() loses no thread: it waits for it, joins it or detaches it; the master
\* is told to stop only when the worker has returned or was given up.
DrainInv ==
    /\ "worker" \in done => wpc = "gone"
    /\ drainPc = "idle" => Spawned \subseteq Range(slots)
    /\ drainPc # "idle" => closing /\ Spawned \subseteq Range(toJoin) \cup done \cup detached
    /\ drainPc = "peers" => "worker" \in Range(toJoin)
    /\ "ctrl1" \in stopAsked => "worker" \in done \cup overdue
    /\ ctl[1] = "gone" => wpc \in Ending \/ "worker" \in overdue
    /\ api = "reset" => drainPc # "idle" /\ Spawned \subseteq done

\* A frame without a correlation id is a closing notification.
NotifyInv ==
    \A c \in Conns : \A m \in Range(fromHub[c]) : m.id = 0 => m.body.kind = "closing"

\* The inductive invariant of the role process.
HostInv == HostTypeOK /\ RequestInv /\ LoopInv /\ PhaseInv /\ DrainInv /\ NotifyInv

\* The connections of a role and the threads that serve them.
LEMMA ConnsOfRole ==
  ASSUME role \in Roles
  PROVE  /\ \A x \in {"in", "out"} : ConnOf(x) \in Conns
         /\ \/ UsedConns = {1} /\ Cardinality(UsedConns) = 1
            \/ UsedConns = {1, 2} /\ Cardinality(UsedConns) = 2
<1>1. \A x : ConnOf(x) \in {1, 2}
  BY DEF ConnOf
<1>2. Cardinality({1}) = 1 /\ Cardinality({1, 2}) = 2
  <2>1. IsFiniteSet({1}) /\ Cardinality({1}) = 1
    BY FS_Singleton
  <2>2. 2 \notin {1}
    BY SMT
  <2>3. Cardinality({1} \cup {2}) = Cardinality({1}) + 1
    BY <2>1, <2>2, FS_AddElement
  <2>4. {1} \cup {2} = {1, 2}
    OBVIOUS
  <2> QED BY SMT, <2>1, <2>3, <2>4
<1>3. CASE ~role.dual
  <2>1. \A x : ConnOf(x) = 1
    BY <1>3 DEF ConnOf
  <2>2. \E x : x \in Sides(role)
    BY RolesAssumption DEF Sides
  <2>3. UsedConns = {1}
    BY <2>1, <2>2 DEF UsedConns
  <2> QED BY <1>1, <1>2, <2>3, HostAssumption
<1>4. CASE role.dual
  <2>1. Sides(role) = {"in", "out"}
    BY <1>4, RolesAssumption DEF Sides
  <2>2. ConnOf("in") = 1 /\ ConnOf("out") = 2
    BY <1>4 DEF ConnOf
  <2>3. UsedConns = {1, 2}
    BY <2>1, <2>2 DEF UsedConns
  <2> QED BY <1>1, <1>2, <2>3, HostAssumption
<1> QED BY <1>3, <1>4

\* What is registered, and later deregistered, is a list of sides.
LEMMA RegOrderIsSeq ==
  ASSUME role \in Roles
  PROVE  RegOrder \in Seq({"in", "out"}) /\ RegOrder # <<>>
<1>1. /\ <<"out">> \in Seq({"in", "out"}) /\ <<"in">> \in Seq({"in", "out"})
      /\ <<"out", "in">> \in Seq({"in", "out"})
      /\ <<"out">> # <<>> /\ <<"in">> # <<>> /\ <<"out", "in">> # <<>>
  BY SMT
<1>2. RegOrder \in {<<"out">>, <<"in">>, <<"out", "in">>}
  BY RolesAssumption DEF RegOrder
<1> QED BY <1>1, <1>2

\* The invariant without the request channel and the data loop.
ProcessInv == HostTypeOK /\ PhaseInv /\ DrainInv

\* Steps of the other threads leave the worker where it is.
LEMMA PhaseRests ==
  ASSUME PhaseInv, UNCHANGED <<wpc, todo, brcStop, loopPc>>,
         "running" \in flags => "running" \in flags',
         \A c \in Conns : ctl[c] = "none" => ctl'[c] = "none",
         call["worker"].st = "idle" => call'["worker"].st = "idle"
  PROVE  PhaseInv'
BY DEF PhaseInv

\* Steps of the worker that leave the threads where they are.
LEMMA DrainRests ==
  ASSUME DrainInv, UNCHANGED <<tmVars, ctl, api>>,
         wpc \in Ending => wpc' \in Ending, wpc = "gone" => wpc' = "gone"
  PROVE  DrainInv'
<1>1. Spawned' = Spawned
  BY DEF Spawned
<1> QED BY <1>1 DEF DrainInv, tmVars

\* The worker walks on, and nothing else of this happens.
LEMMA WorkerWalks ==
  ASSUME ProcessInv,
         UNCHANGED <<todo, ctl, promise, api, flags, incoming, presence, loopPc, tmVars, call>>,
         \/ wpc \in {"setup", "start"} /\ wpc' = "return" /\ brcStop' = brcStop
         \/ wpc \in {"register", "apply", "finalize"} /\ wpc' = "abort" /\ brcStop' = brcStop
         \/ wpc = "beat" /\ wpc' \in {"finalize", "ready"} /\ brcStop' = brcStop
         \/ /\ wpc \in Ending \ {"gone"} /\ wpc' \in Ending \ {"gone"}
            /\ brcStop' \in [Conns -> BOOLEAN]
  PROVE  ProcessInv'
<1>1. HostTypeOK'
  BY DEF ProcessInv, HostTypeOK, ManagerTypeOK, tmVars
<1>2. PhaseInv'
  <2>1. CASE wpc \in {"setup", "start"} /\ wpc' = "return" /\ brcStop' = brcStop
    BY <2>1 DEF ProcessInv, PhaseInv, Starting, Talking, Waits, Ending
  <2>2. CASE wpc \in {"register", "apply", "finalize"} /\ wpc' = "abort" /\ brcStop' = brcStop
    BY <2>2 DEF ProcessInv, PhaseInv, Starting, Talking, Waits, Ending
  <2>3. CASE wpc = "beat" /\ wpc' \in {"finalize", "ready"} /\ brcStop' = brcStop
    BY <2>3 DEF ProcessInv, PhaseInv, Starting, Talking, Waits, Ending
  <2>4. CASE /\ wpc \in Ending \ {"gone"} /\ wpc' \in Ending \ {"gone"}
             /\ brcStop' \in [Conns -> BOOLEAN]
    BY <2>4 DEF ProcessInv, PhaseInv, Starting, Talking, Waits, Ending
  <2> QED BY <2>1, <2>2, <2>3, <2>4
<1>3. wpc # "gone" /\ (wpc \in Ending => wpc' \in Ending)
  BY DEF Ending
<1> QED BY <1>1, <1>2, <1>3, DrainRests DEF ProcessInv

\* The worker issues a blocking request.
LEMMA WorkerAsks ==
  ASSUME ProcessInv,
         UNCHANGED <<todo, ctl, promise, api, flags, incoming, loopPc, tmVars, brcStop>>,
         \/ wpc \in {"register", "retry"} /\ wpc' = "regwait" /\ todo # <<>>
         \/ wpc = "finalize" /\ wpc' = "peerwait"
         \/ wpc = "loop" /\ wpc' = "loopwait"
         \/ wpc = "dereg" /\ wpc' = "deregwait" /\ todo # <<>>,
         \/ presence' = presence
         \/ \E x \in {"in", "out"} : presence' = [presence EXCEPT ![x] = "RegRequestPending"]
  PROVE  ProcessInv'
<1>1. HostTypeOK'
  <2>1. presence' \in [{"in", "out"} -> {"Unregistered", "RegRequestPending", "Registered",
                                         "Authorized", "Deregistered"}]
    BY DEF ProcessInv, HostTypeOK
  <2> QED BY <2>1 DEF ProcessInv, HostTypeOK, ManagerTypeOK, tmVars
<1>2. PhaseInv'
  BY DEF ProcessInv, PhaseInv, Starting, Talking, Waits, Ending
<1>3. wpc # "gone" /\ wpc \notin Ending
  BY DEF Ending
<1> QED BY <1>1, <1>2, <1>3, DrainRests DEF ProcessInv

\* The worker's request ends, with an answer or without one.
LEMMA CallEndsStep ==
  ASSUME ProcessInv, RequestInv, CallEnds
  PROVE  ProcessInv'
<1> DEFINE x == IF todo = <<>> THEN "out" ELSE Head(todo)
<1>1. PICK o \in {"ok", "notready", "error", "none"} :
         /\ IF o = "none" THEN GiveUp("worker") ELSE TakeReply("worker")
         /\ \E n \in AfterCall(x, o) : wpc' = n[1] /\ SetPresence(x, n[2])
  BY DEF CallEnds
<1>2. PICK n \in AfterCall(x, o) : wpc' = n[1] /\ SetPresence(x, n[2])
  BY <1>1
<1>3. /\ wpc \in Waits /\ UNCHANGED <<ctl, promise, api, flags, incoming, loopPc, tmVars>>
      /\ todo' = IF wpc = "deregwait" THEN Tail(todo) ELSE todo
      /\ presence' = [presence EXCEPT ![x] = n[2]] /\ wpc' = n[1]
  BY <1>2 DEF CallEnds, keepTm, SetPresence, coreVars, Waits
<1>4. /\ call \in [Callers -> Call] /\ "worker" \in Callers
      /\ presence \in [{"in", "out"} -> {"Unregistered", "RegRequestPending", "Registered",
                                         "Authorized", "Deregistered"}]
      /\ todo \in Seq({"in", "out"})
  BY HostAssumption DEF RequestInv, RequestTypeOK, ProcessInv, HostTypeOK
<1>5. brcStop' = brcStop /\ call'["worker"].st = "idle"
  <2>1. brcStop' = brcStop /\ call' = [call EXCEPT !["worker"] = NoCall]
    BY <1>1 DEF GiveUp, TakeReply
  <2>2. call'["worker"] = NoCall
    BY <2>1, <1>4
  <2>3. NoCall.st = "idle"
    BY SMT DEF NoCall
  <2> QED BY <2>1, <2>2, <2>3
<1>6. x \in {"in", "out"} /\ (todo # <<>> => Tail(todo) \in Seq({"in", "out"}))
  BY <1>4, EndsOfSeq
<1> HIDE DEF x
<1>7. \/ wpc = "regwait" /\ n \in AfterRegister(x, o)
      \/ wpc = "peerwait" /\ n \in AfterPeerReady(x, o)
      \/ wpc = "deregwait" /\ n = <<"dereg", "Deregistered">>
      \/ wpc = "loopwait" /\ n = <<"loop", presence[x]>>
  BY <1>3 DEF AfterCall, Waits
<1>8. /\ \/ wpc = "regwait" /\ wpc' \in {"apply", "abort", "retry"}
         \/ wpc = "peerwait" /\ wpc' \in {"ready", "abort", "finalize"}
         \/ wpc = "deregwait" /\ wpc' = "dereg"
         \/ wpc = "loopwait" /\ wpc' = "loop"
      /\ n[2] \in {"Unregistered", "RegRequestPending", "Registered", "Authorized",
                   "Deregistered"}
  <2>1. presence[x] \in {"Unregistered", "RegRequestPending", "Registered", "Authorized",
                         "Deregistered"}
    BY <1>4, <1>6
  <2>2. \A a, b : n = <<a, b>> => wpc' = a /\ n[2] = b
    <3>1. \A a, b : n = <<a, b>> => n[1] = a /\ n[2] = b
      BY SMT
    <3>2. wpc' = n[1]
      BY <1>3
    <3> QED BY <3>1, <3>2
  <2>3. CASE wpc = "regwait" /\ n \in AfterRegister(x, o)
    <3>1. \/ n = <<"apply", "Registered">> \/ n = <<"abort", "Unregistered">>
          \/ n = <<"retry", presence[x]>>
      BY <2>3 DEF AfterRegister
    <3> QED BY <2>1, <2>2, <2>3, <3>1
  <2>4. CASE wpc = "peerwait" /\ n \in AfterPeerReady(x, o)
    <3>1. \/ n = <<"ready", presence[x]>> \/ n = <<"abort", presence[x]>>
          \/ n = <<"finalize", presence[x]>>
      BY <2>4 DEF AfterPeerReady
    <3> QED BY <2>1, <2>2, <2>4, <3>1
  <2>5. CASE wpc = "deregwait" /\ n = <<"dereg", "Deregistered">>
    BY <2>2, <2>5
  <2>6. CASE wpc = "loopwait" /\ n = <<"loop", presence[x]>>
    BY <2>1, <2>2, <2>6
  <2> QED BY <1>7, <2>3, <2>4, <2>5, <2>6
<1>9. HostTypeOK'
  <2>1. wpc = "deregwait" => todo # <<>>
    BY DEF ProcessInv, PhaseInv
  <2>2. todo' \in Seq({"in", "out"})
    BY <1>3, <1>4, <1>6, <2>1
  <2>3. presence' \in [{"in", "out"} -> {"Unregistered", "RegRequestPending", "Registered",
                                         "Authorized", "Deregistered"}]
    BY <1>3, <1>4, <1>6, <1>8
  <2> QED BY <1>3, <2>2, <2>3 DEF ProcessInv, HostTypeOK, ManagerTypeOK, tmVars
<1>10. PhaseInv'
  BY <1>3, <1>5, <1>8 DEF ProcessInv, PhaseInv, Starting, Talking, Waits, Ending
<1>11. wpc # "gone" /\ wpc \notin Ending
  BY <1>3 DEF Waits, Ending
<1> QED BY <1>3, <1>9, <1>10, <1>11, DrainRests DEF ProcessInv

\* The control threads of the connections are spawned; a closing manager, and
\* so a draining one, would refuse them.
LEMMA StartHandlerThreadsStep ==
  ASSUME ProcessInv, role \in Roles, StartHandlerThreads
  PROVE  ProcessInv'
<1> DEFINE ts == [i \in 1..Cardinality(UsedConns) |-> CtrlOf[i]]
<1>1. /\ wpc = "start" /\ wpc' = "register" /\ ConnectAll(UsedConns) /\ Spawn(ts)
      /\ ctl' = [c \in Conns |-> IF c \in UsedConns THEN "spawned" ELSE "none"]
      /\ todo' = RegOrder
      /\ UNCHANGED <<promise, api, flags, incoming, presence, loopPc>>
  BY DEF StartHandlerThreads, keepLoop, loopVars
<1>2. /\ ts \in Seq({"ctrl1", "ctrl2"}) /\ Len(ts) = Cardinality(UsedConns)
      /\ Len(ts) \in Nat \ {0}
      /\ \A c \in UsedConns : c \in 1..Len(ts) /\ ts[c] = CtrlOf[c]
  <2>1. CASE UsedConns = {1} /\ Cardinality(UsedConns) = 1
    BY SMT, <2>1 DEF CtrlOf
  <2>2. CASE UsedConns = {1, 2} /\ Cardinality(UsedConns) = 2
    <3>1. ts = [i \in 1..2 |-> <<"ctrl1", "ctrl2">>[i]]
      BY <2>2 DEF CtrlOf
    <3> HIDE DEF ts
    <3>2. ts \in Seq({"ctrl1", "ctrl2"}) /\ Len(ts) = 2
      BY SMT, <3>1
    <3>3. ts[1] = <<"ctrl1", "ctrl2">>[1] /\ ts[2] = <<"ctrl1", "ctrl2">>[2]
          /\ 2 \in Nat \ {0} /\ 1 \in 1..2 /\ 2 \in 1..2
      BY SMT, <3>1
    <3> QED BY <2>2, <3>2, <3>3 DEF CtrlOf
  <2> QED BY <2>1, <2>2, ConnsOfRole
<1> HIDE DEF ts
<1>3. 1 \in 1..Len(ts)
  BY SMT, <1>2
<1>4. ~closing /\ slots' = slots \o ts
      /\ UNCHANGED <<closing, stopAsked, inLoop, done, drainVars, pending>>
  BY <1>1, <1>3 DEF Spawn, CanSpawn
<1>5. drainPc = "idle" /\ UNCHANGED <<drainPc, toJoin, overdue, detached>>
  BY <1>4 DEF ProcessInv, DrainInv, drainVars
<1>6. slots \in Seq(Threads) /\ ts \in Seq(Threads)
  <2>1. ts \in Seq({"worker", "ctrl1", "ctrl2"})
    BY SMT, <1>2
  <2> QED BY <2>1, HostAssumption DEF ProcessInv, HostTypeOK, ManagerTypeOK
<1>7. slots' \in Seq(Threads) /\ Range(slots') = Range(slots) \cup Range(ts)
  <2>1. slots \o ts \in Seq(Threads) /\ Range(slots \o ts) = Range(slots) \cup Range(ts)
    BY <1>6, ConcatIsLonger
  <2> QED BY <1>4, <2>1
<1>8. Spawned' \subseteq Range(slots')
  <2>1. \A c \in UsedConns : CtrlOf[c] \in Range(ts)
    <3>1. DOMAIN ts = 1..Len(ts)
      BY SMT, <1>2
    <3> QED BY <1>2, <3>1 DEF Range
  <2>2. \A c \in Conns : ctl'[c] # "none" => c \in UsedConns
    BY <1>1
  <2>3. "worker" \in Range(slots)
    BY <1>5 DEF ProcessInv, DrainInv, Spawned
  <2> QED BY <1>7, <2>1, <2>2, <2>3 DEF Spawned
<1>9. RegOrder \in Seq({"in", "out"}) /\ RegOrder # <<>>
  BY RegOrderIsSeq
<1>10. HostTypeOK'
  <2>1. ManagerTypeOK'
    BY <1>4, <1>5, <1>7 DEF ProcessInv, HostTypeOK, ManagerTypeOK
  <2> QED BY <1>1, <1>9, <2>1 DEF ProcessInv, HostTypeOK
<1>11. PhaseInv'
  <2>1. brcStop' \in [Conns -> BOOLEAN] /\ \A c \in Conns : ~brcStop'[c]
    BY <1>1 DEF ConnectAll, ProcessInv, PhaseInv
  <2>2. call'["worker"].st = "idle"
    BY <1>1 DEF ConnectAll, ProcessInv, PhaseInv, Waits
  <2> QED BY <1>1, <1>9, <2>1, <2>2 DEF ProcessInv, PhaseInv, Starting, Talking, Waits, Ending
<1>12. DrainInv'
  <2>1. ctl'[1] # "gone"
    BY <1>1, HostAssumption
  <2>2. api' # "reset"
    BY <1>1, <1>5 DEF ProcessInv, DrainInv
  <2> QED BY <1>1, <1>4, <1>5, <1>8, <2>1, <2>2 DEF ProcessInv, DrainInv
<1> QED BY <1>10, <1>11, <1>12 DEF ProcessInv

\* A step of the data loop.
LEMMA RunDataLoopStep ==
  ASSUME ProcessInv, RunDataLoop
  PROVE  ProcessInv'
<1>1. /\ wpc = "loop" /\ LoopStep
      /\ UNCHANGED <<wpc, todo, ctl, promise, api, tmVars, brcStop, call>>
  BY DEF RunDataLoop, hostVars, keepTm, keepBrc, brcVars
<1>2. /\ presence' = presence
      /\ incoming' = incoming \/ incoming' = <<>>
      /\ flags \subseteq flags' /\ flags' \subseteq flags \cup {"shutdown", "critical"}
  <2>1. CASE \E result \in {"commit", "discard", "error"}, calledStop \in BOOLEAN :
                Invoke(result, calledStop)
    BY <2>1 DEF Invoke
  <2>2. CASE InitTimesOut
    BY <2>2 DEF InitTimesOut
  <2>3. CASE LoopTop \/ InitReady \/ InitNotReady
    BY <2>3 DEF LoopTop, InitReady, InitNotReady, coreVars
  <2>4. CASE AcquireInput \/ AcquireOutput \/ Observe \/ CleanupOnExit
    BY <2>4 DEF AcquireInput, AcquireOutput, Observe, CleanupOnExit, coreVars
  <2> QED BY <1>1, <2>1, <2>2, <2>3, <2>4 DEF LoopStep
<1>3. HostTypeOK'
  <2>1. <<>> \in Seq([kind : {"closing", "hubdead"}, master : BOOLEAN]) /\ Len(<<>>) <= IncomingCap
    BY SMT, RolesAssumption
  <2>2. /\ incoming' \in Seq([kind : {"closing", "hubdead"}, master : BOOLEAN])
        /\ Len(incoming') <= IncomingCap
    BY <1>2, <2>1 DEF ProcessInv, HostTypeOK
  <2>3. flags' \subseteq {"running", "shutdown", "critical", "exit"}
    BY <1>2 DEF ProcessInv, HostTypeOK
  <2> QED BY <1>1, <1>2, <2>2, <2>3 DEF ProcessInv, HostTypeOK, ManagerTypeOK, tmVars
<1>4. PhaseInv'
  BY <1>1, <1>2 DEF ProcessInv, PhaseInv, Starting, Talking, Waits, Ending
<1> QED BY <1>1, <1>3, <1>4, DrainRests DEF ProcessInv

\* The worker leaves its loop and goes down the list of its presences.
LEMMA DeregisterStep ==
  ASSUME ProcessInv, role \in Roles, LeaveDataLoop \/ Deregister
  PROVE  ProcessInv'
<1>1. CASE LeaveDataLoop
  <2>1. /\ wpc = "loop" /\ wpc' = "dereg" /\ todo' = RegOrder
        /\ UNCHANGED <<ctl, promise, api, flags, incoming, presence, loopPc, tmVars, brcStop, call>>
    BY <1>1 DEF LeaveDataLoop, keepLoop, keepTm, keepBrc, brcVars, loopVars
  <2>2. HostTypeOK'
    BY <2>1, RegOrderIsSeq DEF ProcessInv, HostTypeOK, ManagerTypeOK, tmVars
  <2>3. PhaseInv'
    BY <2>1 DEF ProcessInv, PhaseInv, Starting, Talking, Waits, Ending
  <2>4. wpc # "gone" /\ wpc \notin Ending
    BY <2>1 DEF Ending
  <2> QED BY <2>1, <2>2, <2>3, <2>4, DrainRests DEF ProcessInv
<1>2. CASE Deregister
  <2>1. /\ wpc = "dereg" /\ todo # <<>>
        /\ UNCHANGED <<ctl, promise, api, flags, incoming, presence, loopPc, tmVars>>
    BY <1>2 DEF Deregister, keepLoop, keepTm, loopVars
  <2>2. \/ /\ wpc' = "deregwait" /\ todo' = todo /\ brcStop' = brcStop
        \/ /\ wpc' = wpc /\ todo' = Tail(todo) /\ UNCHANGED <<brcStop, call>>
    BY <1>2 DEF Deregister, DoRequest, keepBrc, brcVars
  <2>3. CASE wpc' = "deregwait" /\ todo' = todo /\ brcStop' = brcStop
    BY <2>1, <2>3, WorkerAsks
  <2>4. CASE wpc' = wpc /\ todo' = Tail(todo) /\ UNCHANGED <<brcStop, call>>
    <3>1. todo' \in Seq({"in", "out"})
      BY <2>1, <2>4, EndsOfSeq DEF ProcessInv, HostTypeOK
    <3>2. HostTypeOK'
      BY <2>1, <3>1 DEF ProcessInv, HostTypeOK, ManagerTypeOK, tmVars
    <3>3. PhaseInv'
      BY <2>1, <2>4 DEF ProcessInv, PhaseInv, Starting, Talking, Waits, Ending
    <3> QED BY <2>1, <2>4, <3>2, <3>3, DrainRests DEF ProcessInv
  <2> QED BY <2>2, <2>3, <2>4
<1> QED BY <1>1, <1>2

\* The worker tells the manager to stop its threads, looks which of them are in
\* their loops, and returns itself.
LEMMA WorkerManages ==
  ASSUME ProcessInv, AskAll \/ Snapshot \/ WorkerReturns
  PROVE  ProcessInv'
<1>0. Spawned' = Spawned /\ ctl' = ctl /\ api' = api
  BY DEF Spawned, AskAll, Snapshot, WorkerReturns, WorkerGoes
<1>1. /\ {stopAsked, inLoop, done, overdue, detached, pending} \subseteq SUBSET Threads
      /\ slots \in Seq(Threads) /\ Range(slots) \subseteq Threads /\ "worker" \in Threads
  <2>1. /\ {stopAsked, inLoop, done, overdue, detached, pending} \subseteq SUBSET Threads
        /\ slots \in Seq(Threads)
    BY DEF ProcessInv, HostTypeOK, ManagerTypeOK
  <2>2. Range(slots) \subseteq Threads
    BY <2>1, EndsOfSeq
  <2> QED BY <2>1, <2>2, HostAssumption
<1>2. CASE AskAll
  <2>1. /\ wpc \in Ending \ {"gone"} /\ wpc' \in Ending \ {"gone"}
        /\ closing' = TRUE /\ stopAsked' = stopAsked \cup (Range(slots) \ {MasterThread})
        /\ UNCHANGED <<slots, inLoop, done, drainPc, toJoin, overdue, detached, pending>>
        /\ UNCHANGED <<todo, promise, flags, incoming, presence, loopPc, brcStop, call>>
    BY <1>2 DEF AskAll, WorkerGoes, RequestShutdownAll, drainVars, keepLoop, keepBrc, brcVars,
                loopVars, Ending
  <2>2. HostTypeOK'
    <3>1. stopAsked' \subseteq Threads
      BY <1>1, <2>1
    <3>2. ManagerTypeOK'
      BY <2>1, <3>1 DEF ProcessInv, HostTypeOK, ManagerTypeOK
    <3> QED BY <1>0, <2>1, <3>2 DEF ProcessInv, HostTypeOK
  <2>3. PhaseInv'
    BY <1>0, <2>1 DEF ProcessInv, PhaseInv, Starting, Talking, Waits, Ending
  <2>4. DrainInv'
    BY <1>0, <2>1, HostAssumption DEF ProcessInv, DrainInv
  <2> QED BY <2>2, <2>3, <2>4 DEF ProcessInv
<1>3. CASE Snapshot
  <2>1. /\ wpc \in Ending \ {"gone"} /\ wpc' \in Ending \ {"gone"}
        /\ pending' = (Range(slots) \cap inLoop) \ {"worker"}
        /\ UNCHANGED <<slots, closing, stopAsked, inLoop, done, drainPc, toJoin, overdue, detached>>
        /\ UNCHANGED <<todo, promise, flags, incoming, presence, loopPc, brcStop, call>>
    BY <1>3 DEF Snapshot, WorkerGoes, QuiescenceSnapshot, drainVars, keepLoop, keepBrc, brcVars,
                loopVars, Ending
  <2>2. HostTypeOK'
    <3>1. pending' \subseteq Threads
      BY <1>1, <2>1
    <3>2. ManagerTypeOK'
      BY <2>1, <3>1 DEF ProcessInv, HostTypeOK, ManagerTypeOK
    <3> QED BY <1>0, <2>1, <3>2 DEF ProcessInv, HostTypeOK
  <2>3. PhaseInv'
    BY <1>0, <2>1 DEF ProcessInv, PhaseInv, Starting, Talking, Waits, Ending
  <2>4. DrainInv'
    BY <1>0, <2>1 DEF ProcessInv, DrainInv
  <2> QED BY <2>2, <2>3, <2>4 DEF ProcessInv
<1>4. CASE WorkerReturns
  <2>1. /\ wpc = "return" /\ wpc' = "gone"
        /\ done' = done \cup {"worker"} /\ inLoop' = inLoop \ {"worker"}
        /\ promise' = IF promise = "unset" THEN "false" ELSE promise
        /\ UNCHANGED <<slots, closing, stopAsked, drainPc, toJoin, overdue, detached, pending>>
        /\ UNCHANGED <<todo, flags, incoming, presence, loopPc, brcStop, call>>
    BY <1>4 DEF WorkerReturns, BodyReturns, drainVars, keepLoop, keepBrc, brcVars, loopVars
  <2>2. HostTypeOK'
    <3>1. done' \subseteq Threads /\ inLoop' \subseteq Threads
      BY <1>1, <2>1
    <3>2. ManagerTypeOK'
      BY <2>1, <3>1 DEF ProcessInv, HostTypeOK, ManagerTypeOK
    <3> QED BY <1>0, <2>1, <3>2 DEF ProcessInv, HostTypeOK
  <2>3. PhaseInv'
    BY <1>0, <2>1 DEF ProcessInv, PhaseInv, Starting, Talking, Waits, Ending
  <2>4. wpc' \in Ending
    BY <2>1 DEF Ending
  <2>5. DrainInv'
    BY <1>0, <2>1, <2>4 DEF ProcessInv, DrainInv
  <2> QED BY <2>2, <2>3, <2>5 DEF ProcessInv
<1> QED BY <1>2, <1>3, <1>4

\* One lemma for the worker.
LEMMA WorkerStep ==
  ASSUME ProcessInv, RequestInv, role \in Roles, Worker
  PROVE  ProcessInv'
<1>1. CASE SetupSucceeds
  <2>1. /\ wpc = "setup" /\ wpc' = "start" /\ flags' = flags \cup {"running"}
        /\ UNCHANGED <<todo, ctl, promise, api, incoming, presence, loopPc, tmVars, brcStop, call>>
    BY <1>1 DEF SetupSucceeds, WorkerGoes, SetFlags, keepBrc, keepTm, brcVars
  <2>2. HostTypeOK'
    BY <2>1 DEF ProcessInv, HostTypeOK, ManagerTypeOK, tmVars
  <2>3. PhaseInv'
    BY <2>1 DEF ProcessInv, PhaseInv, Starting, Talking, Waits, Ending
  <2>4. wpc # "gone" /\ wpc \notin Ending
    BY <2>1 DEF Ending
  <2> QED BY <2>1, <2>2, <2>3, <2>4, DrainRests DEF ProcessInv
<1>2. CASE SetupFails \/ StartHandlerFails
  <2>1. /\ wpc \in {"setup", "start"} /\ wpc' = "return" /\ brcStop' = brcStop
        /\ UNCHANGED <<todo, ctl, promise, api, flags, incoming, presence, loopPc, tmVars, call>>
    BY <1>2 DEF SetupFails, StartHandlerFails, WorkerGoes, keepLoop, keepBrc, keepTm, brcVars,
                loopVars
  <2> QED BY <2>1, WorkerWalks
<1>3. CASE RegisterRefused \/ ApplyFails \/ FinalizeFails
  <2>1. /\ wpc \in {"register", "apply", "finalize"} /\ wpc' = "abort" /\ brcStop' = brcStop
        /\ UNCHANGED <<todo, ctl, promise, api, flags, incoming, presence, loopPc, tmVars, call>>
    BY <1>3 DEF RegisterRefused, ApplyFails, FinalizeFails, WorkerGoes, keepLoop, keepBrc, keepTm,
                brcVars, loopVars
  <2> QED BY <2>1, WorkerWalks
<1>4. CASE InstallHeartbeat
  <2>1. /\ wpc = "beat" /\ wpc' \in {"finalize", "ready"} /\ brcStop' = brcStop
        /\ UNCHANGED <<todo, ctl, promise, api, flags, incoming, presence, loopPc, tmVars, call>>
    BY <1>4 DEF InstallHeartbeat, keepLoop, keepBrc, keepTm, brcVars, loopVars
  <2> QED BY <2>1, WorkerWalks
<1>5. CASE StopHandlerThreads \/ HandlersQuiet \/ QuiescenceExpires \/ InvalidateContext
           \/ DestroyHandler
  <2>1. /\ wpc \in Ending \ {"gone"} /\ wpc' \in Ending \ {"gone"}
        /\ UNCHANGED <<todo, ctl, promise, api, flags, incoming, presence, loopPc, tmVars>>
    BY <1>5 DEF StopHandlerThreads, HandlersQuiet, QuiescenceExpires, InvalidateContext,
                DestroyHandler, WorkerGoes, keepLoop, keepTm, loopVars, Ending
  <2>2. StopAll(UsedConns) \/ DisconnectAll(UsedConns) \/ keepBrc
    BY <1>5 DEF StopHandlerThreads, HandlersQuiet, QuiescenceExpires, InvalidateContext,
                DestroyHandler
  <2>3. brcStop \in [Conns -> BOOLEAN]
    BY DEF ProcessInv, PhaseInv
  <2>4. call' = call /\ brcStop' \in [Conns -> BOOLEAN]
    BY <2>2, <2>3 DEF StopAll, DisconnectAll, keepBrc, brcVars
  <2> QED BY <2>1, <2>4, WorkerWalks
<1>6. CASE RegisterProducerChannel \/ RegisterConsumer
  <2>1. /\ wpc \in {"register", "retry"} /\ wpc' = "regwait" /\ todo # <<>>
        /\ UNCHANGED <<todo, ctl, promise, api, flags, incoming, loopPc, tmVars, brcStop>>
    BY <1>6 DEF RegisterProducerChannel, RegisterConsumer, Registers, WorkerGoes, SetPresence,
                DoRequest, keepTm, keepLoop, loopVars, coreVars
  <2>2. \/ presence' = presence
        \/ \E x \in {"in", "out"} : presence' = [presence EXCEPT ![x] = "RegRequestPending"]
    BY <1>6 DEF RegisterProducerChannel, RegisterConsumer, SetPresence, keepLoop, loopVars
  <2> QED BY <2>1, <2>2, WorkerAsks
<1>7. CASE AskPeerReady \/ RequestInCycle
  <2>1. /\ \/ wpc = "finalize" /\ wpc' = "peerwait"
           \/ wpc = "loop" /\ wpc' = "loopwait"
        /\ UNCHANGED <<todo, ctl, promise, api, flags, incoming, presence, loopPc, tmVars, brcStop>>
    BY <1>7 DEF AskPeerReady, RequestInCycle, WorkerGoes, DoRequest, keepTm, keepLoop, loopVars
  <2> QED BY <2>1, WorkerAsks
<1>8. CASE ApplyRegAck
  <2>1. /\ wpc = "apply" /\ wpc' = IF Tail(todo) = <<>> THEN "beat" ELSE "register"
        /\ todo' = Tail(todo) /\ presence' = [presence EXCEPT ![Head(todo)] = "Authorized"]
        /\ UNCHANGED <<ctl, promise, api, flags, incoming, loopPc, tmVars, brcStop, call>>
    BY <1>8 DEF ApplyRegAck, SetPresence, keepBrc, keepTm, brcVars, coreVars
  <2>2. todo # <<>> /\ todo \in Seq({"in", "out"})
    BY <2>1 DEF ProcessInv, PhaseInv, HostTypeOK
  <2>3. Head(todo) \in {"in", "out"} /\ Tail(todo) \in Seq({"in", "out"})
    BY <2>2, EndsOfSeq
  <2>4. presence' \in [{"in", "out"} -> {"Unregistered", "RegRequestPending", "Registered",
                                         "Authorized", "Deregistered"}]
    BY <2>1, <2>3 DEF ProcessInv, HostTypeOK
  <2>5. HostTypeOK'
    BY <2>1, <2>3, <2>4 DEF ProcessInv, HostTypeOK, ManagerTypeOK, tmVars
  <2>6. PhaseInv'
    BY <2>1 DEF ProcessInv, PhaseInv, Starting, Talking, Waits, Ending
  <2>7. wpc # "gone" /\ wpc \notin Ending
    BY <2>1 DEF Ending
  <2> QED BY <2>1, <2>5, <2>6, <2>7, DrainRests DEF ProcessInv
<1>9. CASE EnterDataLoop
  <2>1. /\ wpc = "ready" /\ wpc' = "loop" /\ promise' = "true"
        /\ UNCHANGED <<todo, ctl, api, flags, incoming, presence, tmVars, brcStop, call>>
    BY <1>9 DEF EnterDataLoop, keepBrc, keepTm, brcVars, coreVars
  <2>2. HostTypeOK'
    BY <2>1 DEF ProcessInv, HostTypeOK, ManagerTypeOK, tmVars
  <2>3. PhaseInv'
    BY <2>1 DEF ProcessInv, PhaseInv, Starting, Talking, Waits, Ending
  <2>4. wpc # "gone" /\ wpc \notin Ending
    BY <2>1 DEF Ending
  <2> QED BY <2>1, <2>2, <2>3, <2>4, DrainRests DEF ProcessInv
<1>10. CASE StopCtrl
  <2>1. /\ wpc = "dereg" /\ wpc' = "ask" /\ flags' = flags \ {"running"} /\ StopAll(UsedConns)
        /\ UNCHANGED <<todo, ctl, promise, api, incoming, presence, loopPc, tmVars>>
    BY <1>10 DEF StopCtrl, WorkerGoes, SetFlags, keepTm
  <2>2. call' = call /\ brcStop' \in [Conns -> BOOLEAN]
    BY <2>1 DEF StopAll, ProcessInv, PhaseInv
  <2>3. HostTypeOK'
    BY <2>1 DEF ProcessInv, HostTypeOK, ManagerTypeOK, tmVars
  <2>4. PhaseInv'
    BY <2>1, <2>2 DEF ProcessInv, PhaseInv, Starting, Talking, Waits, Ending
  <2>5. wpc # "gone" /\ wpc' \in Ending
    BY <2>1 DEF Ending
  <2> QED BY <2>1, <2>3, <2>4, <2>5, DrainRests DEF ProcessInv
<1> QED BY <1>1, <1>2, <1>3, <1>4, <1>5, <1>6, <1>7, <1>8, <1>9, <1>10, CallEndsStep,
           StartHandlerThreadsStep, RunDataLoopStep, DeregisterStep, WorkerManages DEF Worker

\* enqueue_message keeps the bound of the queue.
LEMMA EnqueueKeepsDepth ==
  ASSUME HostTypeOK, NEW m \in [kind : {"closing", "hubdead"}, master : BOOLEAN]
  PROVE  /\ Enqueued(incoming, m) \in Seq([kind : {"closing", "hubdead"}, master : BOOLEAN])
         /\ Len(Enqueued(incoming, m)) <= IncomingCap
<1> DEFINE S == [kind : {"closing", "hubdead"}, master : BOOLEAN]
<1>1. incoming \in Seq(S) /\ Len(incoming) <= IncomingCap /\ IncomingCap \in Nat /\ m \in S
  BY RolesAssumption DEF HostTypeOK
<1> HIDE DEF S
<1>2. Append(incoming, m) \in Seq(S) /\ Len(Append(incoming, m)) = Len(incoming) + 1
      /\ Len(incoming) \in Nat
  BY SMT, <1>1
<1>3. \A k, n \in Nat : ~(k >= n) => k + 1 <= n
  BY SMT
<1>4. Enqueued(incoming, m) \in Seq(S) /\ Len(Enqueued(incoming, m)) <= IncomingCap
  BY <1>1, <1>2, <1>3 DEF Enqueued
<1> QED BY <1>4 DEF S

\* A control thread goes on: no thread appears or disappears.
LEMMA CtrlMoves ==
  ASSUME ctl \in [Conns -> {"none", "spawned", "poll", "dead", "gone"}], NEW c \in Conns,
         ctl[c] # "none", NEW to \in {"poll", "dead", "gone"}, ctl' = [ctl EXCEPT ![c] = to]
  PROVE  /\ ctl' \in [Conns -> {"none", "spawned", "poll", "dead", "gone"}]
         /\ \A d \in Conns : ctl[d] = "none" <=> ctl'[d] = "none"
         /\ Spawned' = Spawned
         /\ \A d \in Conns : ctl'[d] = "gone" => ctl[d] = "gone" \/ (d = c /\ to = "gone")
<1>1. \A d \in Conns : ctl[d] = "none" <=> ctl'[d] = "none"
  OBVIOUS
<1>2. {d \in Conns : ctl[d] # "none"} = {d \in Conns : ctl'[d] # "none"}
  BY <1>1
<1>3. Spawned' = Spawned
  BY <1>2 DEF Spawned
<1>4. ctl' \in [Conns -> {"none", "spawned", "poll", "dead", "gone"}]
  OBVIOUS
<1>5. \A d \in Conns : ctl'[d] = "gone" => ctl[d] = "gone" \/ (d = c /\ to = "gone")
  OBVIOUS
<1> QED BY <1>1, <1>3, <1>4, <1>5

\* A control thread enters its loop, sees its hub go, or reports that.
LEMMA CtrlGoesOn ==
  ASSUME ProcessInv, NEW c \in Conns, CtrlEnters(c) \/ CtrlSeesDisconnect(c) \/ CtrlHubDead(c)
  PROVE  ProcessInv'
<1>1. PICK to \in {"poll", "dead"} : ctl[c] # "none" /\ KeepHostBut(c, to)
  BY DEF CtrlEnters, CtrlSeesDisconnect, CtrlHubDead, Polling
<1>2. /\ ctl' = [ctl EXCEPT ![c] = to] /\ UNCHANGED <<wpc, todo, promise, api>>
      /\ UNCHANGED <<flags, loopPc, brcStop, call>>
  BY <1>1 DEF KeepHostBut, CtrlEnters, CtrlSeesDisconnect, CtrlHubDead, CheckMonitor, keepBrc,
              keepLoop, loopVars, brcVars
<1>3. /\ ctl' \in [Conns -> {"none", "spawned", "poll", "dead", "gone"}]
      /\ \A d \in Conns : ctl[d] = "none" <=> ctl'[d] = "none"
      /\ Spawned' = Spawned
      /\ \A d \in Conns : ctl'[d] = "gone" => ctl[d] = "gone"
  BY <1>1, <1>2, CtrlMoves DEF ProcessInv, HostTypeOK
<1>4. PhaseInv'
  BY <1>2, <1>3, PhaseRests DEF ProcessInv
<1>5. /\ UNCHANGED <<slots, closing, stopAsked, done, drainPc, toJoin, overdue, detached, pending>>
      /\ inLoop' \in {inLoop, inLoop \cup {CtrlOf[c]}}
  BY DEF CtrlEnters, CtrlSeesDisconnect, CtrlHubDead, EnterLoop, drainVars, keepTm, tmVars
<1>6. DrainInv'
  BY <1>2, <1>3, <1>5, HostAssumption DEF ProcessInv, DrainInv
<1>7. ManagerTypeOK'
  <2>1. CtrlOf[c] \in Threads
    BY SMT, HostAssumption DEF CtrlOf
  <2>2. inLoop' \subseteq Threads
    BY <1>5, <2>1 DEF ProcessInv, HostTypeOK, ManagerTypeOK
  <2> QED BY <1>5, <2>2 DEF ProcessInv, HostTypeOK, ManagerTypeOK
<1>8. /\ incoming' \in Seq([kind : {"closing", "hubdead"}, master : BOOLEAN])
      /\ Len(incoming') <= IncomingCap
  <2>1. CASE incoming' = incoming
    BY <2>1 DEF ProcessInv, HostTypeOK
  <2>2. CASE incoming' = Enqueued(incoming, [kind |-> "hubdead", master |-> c = 1])
    <3>1. [kind |-> "hubdead", master |-> c = 1] \in [kind : {"closing", "hubdead"}, master : BOOLEAN]
      BY SMT
    <3> QED BY <2>2, <3>1, EnqueueKeepsDepth DEF ProcessInv
  <2> QED BY <2>1, <2>2 DEF CtrlEnters, CtrlSeesDisconnect, CtrlHubDead, keepLoop, loopVars
<1>9. presence' \in [{"in", "out"} -> {"Unregistered", "RegRequestPending", "Registered",
                                       "Authorized", "Deregistered"}]
  <2>1. presence \in [{"in", "out"} -> {"Unregistered", "RegRequestPending", "Registered",
                                        "Authorized", "Deregistered"}]
    BY DEF ProcessInv, HostTypeOK
  <2> QED BY <2>1 DEF CtrlEnters, CtrlSeesDisconnect, CtrlHubDead, keepLoop, loopVars
<1>10. HostTypeOK'
  BY <1>2, <1>3, <1>7, <1>8, <1>9 DEF ProcessInv, HostTypeOK
<1> QED BY <1>4, <1>6, <1>10 DEF ProcessInv

\* A control thread leaves its poll loop: the worker has stopped it, or is given up.
LEMMA CtrlReturnsStep ==
  ASSUME ProcessInv, NEW c \in Conns, CtrlReturns(c)
  PROVE  ProcessInv'
<1>1. /\ ctl[c] = "poll" /\ ctl' = [ctl EXCEPT ![c] = "gone"]
      /\ "running" \notin flags \/ CtrlOf[c] \in stopAsked \/ brcStop[c]
      /\ done' = done \cup {CtrlOf[c]} /\ inLoop' = inLoop \ {CtrlOf[c]}
      /\ UNCHANGED <<slots, closing, stopAsked, drainPc, toJoin, overdue, detached, pending>>
      /\ UNCHANGED <<wpc, todo, promise, api, flags, incoming, presence, loopPc, brcStop, call>>
  BY DEF CtrlReturns, KeepHostBut, BodyReturns, drainVars, keepLoop, keepBrc, loopVars, brcVars
<1>2. /\ ctl' \in [Conns -> {"none", "spawned", "poll", "dead", "gone"}]
      /\ \A d \in Conns : ctl[d] = "none" <=> ctl'[d] = "none"
      /\ Spawned' = Spawned
      /\ \A d \in Conns : ctl'[d] = "gone" => ctl[d] = "gone" \/ d = c
  BY <1>1, CtrlMoves DEF ProcessInv, HostTypeOK
<1>3. CtrlOf[c] \in Threads /\ CtrlOf[c] # "worker" /\ (c = 1 => CtrlOf[c] = "ctrl1")
  BY SMT, HostAssumption DEF CtrlOf
<1>4. HostTypeOK'
  <2>1. done' \subseteq Threads /\ inLoop' \subseteq Threads
    BY <1>1, <1>3 DEF ProcessInv, HostTypeOK, ManagerTypeOK
  <2>2. ManagerTypeOK'
    BY <1>1, <2>1 DEF ProcessInv, HostTypeOK, ManagerTypeOK
  <2> QED BY <1>1, <1>2, <2>2 DEF ProcessInv, HostTypeOK
<1>5. PhaseInv'
  BY <1>1, <1>2, PhaseRests DEF ProcessInv
<1>6. c = 1 => wpc \in Ending \/ "worker" \in overdue
  <2>1. wpc \in Talking \cup Ending
    BY <1>1 DEF ProcessInv, PhaseInv
  <2>2. wpc \in Talking => "running" \in flags /\ ~brcStop[c]
    BY DEF ProcessInv, PhaseInv
  <2>3. CASE "worker" \in done
    BY <2>3 DEF ProcessInv, DrainInv, Ending
  <2> QED BY <1>1, <1>3, <2>1, <2>2, <2>3 DEF ProcessInv, DrainInv
<1>7. DrainInv'
  <2>1. "worker" \in done' <=> "worker" \in done
    BY <1>1, <1>3
  <2>2. ctl'[1] = "gone" => wpc \in Ending \/ "worker" \in overdue
    BY <1>2, <1>6, HostAssumption DEF ProcessInv, DrainInv
  <2> QED BY <1>1, <1>2, <2>1, <2>2 DEF ProcessInv, DrainInv
<1> QED BY <1>4, <1>5, <1>7 DEF ProcessInv

\* A step that leaves the worker, the threads and the presences where they are.
LEMMA ProcessRests ==
  ASSUME ProcessInv, UNCHANGED <<wpc, todo, ctl, promise, api, presence, loopPc, tmVars, brcStop>>,
         flags \subseteq flags', flags' \subseteq {"running", "shutdown", "critical", "exit"},
         incoming' \in Seq([kind : {"closing", "hubdead"}, master : BOOLEAN]),
         Len(incoming') <= IncomingCap,
         call["worker"].st = "idle" => call'["worker"].st = "idle"
  PROVE  ProcessInv'
<1>1. HostTypeOK'
  BY DEF ProcessInv, HostTypeOK, ManagerTypeOK, tmVars
<1>2. PhaseInv'
  BY PhaseRests DEF ProcessInv
<1> QED BY <1>1, <1>2, DrainRests DEF ProcessInv

\* The control threads at work, the hubs, the data sources, the signal handler,
\* and main() up to its shutdown.
LEMMA OtherSteps ==
  ASSUME ProcessInv, RequestInv, NotifyInv,
         \/ \E c \in Conns : CtrlServes(c) \/ CtrlNotified(c) \/ Hub(c)
         \/ CtrlBeats \/ DataArrives \/ Signal \/ MainStarted \/ MainLoopEnds \/ MainShutdown
  PROVE  ProcessInv'
<1>0. /\ incoming \in Seq([kind : {"closing", "hubdead"}, master : BOOLEAN])
      /\ Len(incoming) <= IncomingCap /\ flags \subseteq {"running", "shutdown", "critical", "exit"}
      /\ "worker" \in Callers
  BY HostAssumption DEF ProcessInv, HostTypeOK
<1>1. ASSUME NEW c \in Conns, CtrlServes(c)  PROVE ProcessInv'
  <2>1. /\ UNCHANGED <<wpc, todo, ctl, promise, api, flags, incoming, presence, loopPc, tmVars>>
        /\ DrainCommands(c) \/ ReceiveReply(c) \/ Reap(c)
    BY <1>1 DEF CtrlServes, hostVars, keepLoop, keepTm, loopVars
  <2>2. brcStop' = brcStop /\ (call["worker"].st = "idle" => call'["worker"].st = "idle")
    <3>1. CASE DrainCommands(c) \/ Reap(c)
      BY <3>1 DEF DrainCommands, Reap
    <3>2. CASE ReceiveReply(c)
      <4>1. call["worker"].st = "idle" => "worker" \notin Answered(c, Head(fromHub[c]))
        BY DEF Answered
      <4> QED BY <1>0, <3>2, <4>1 DEF ReceiveReply
    <3> QED BY <2>1, <3>1, <3>2
  <2> QED BY <1>0, <2>1, <2>2, ProcessRests
<1>2. ASSUME NEW c \in Conns, CtrlNotified(c)  PROVE ProcessInv'
  <2>1. /\ UNCHANGED <<wpc, todo, ctl, promise, api, flags, presence, loopPc, tmVars, brcStop, call>>
        /\ fromHub[c] # <<>> /\ Head(fromHub[c]).id = 0
        /\ \/ incoming' = incoming
           \/ incoming' = Enqueued(incoming, [kind |-> Head(fromHub[c]).body.kind, master |-> FALSE])
    BY <1>2 DEF CtrlNotified, ReceiveNotify, hostVars, keepTm
  <2>2. Head(fromHub[c]).body.kind = "closing"
    <3>1. fromHub[c] \in Seq(Frame)
      BY DEF RequestInv, RequestTypeOK
    <3>2. Head(fromHub[c]) \in Range(fromHub[c])
      BY <2>1, <3>1, EndsOfSeq
    <3> QED BY <2>1, <3>2 DEF NotifyInv
  <2>3. [kind |-> "closing", master |-> FALSE] \in [kind : {"closing", "hubdead"}, master : BOOLEAN]
    BY SMT
  <2>4. /\ incoming' \in Seq([kind : {"closing", "hubdead"}, master : BOOLEAN])
        /\ Len(incoming') <= IncomingCap
    BY <1>0, <2>1, <2>2, <2>3, EnqueueKeepsDepth DEF ProcessInv
  <2> QED BY <1>0, <2>1, <2>4, ProcessRests
<1>3. ASSUME NEW c \in Conns, Hub(c)  PROVE ProcessInv'
  <2>1. /\ UNCHANGED <<wpc, todo, ctl, promise, api, flags, incoming, presence, loopPc, tmVars>>
        /\ UNCHANGED <<brcStop, call>>
    BY <1>3 DEF Hub, HubReplies, HubClosesChannel, HubDies, HubAnswers, HubNotifies, LinkDown,
                hostVars, keepLoop, keepTm, loopVars
  <2> QED BY <1>0, <2>1, ProcessRests
<1>4. CASE CtrlBeats
  <2>1. /\ UNCHANGED <<wpc, todo, ctl, promise, api, flags, incoming, presence, loopPc, tmVars>>
        /\ UNCHANGED <<brcStop, call>>
    BY <1>4 DEF CtrlBeats, SendCommand, hostVars, keepBrc, brcVars, keepTm, coreVars
  <2> QED BY <1>0, <2>1, ProcessRests
<1>5. CASE DataArrives
  <2>1. /\ UNCHANGED <<wpc, todo, ctl, promise, api, flags, incoming, presence, loopPc, tmVars>>
        /\ UNCHANGED <<brcStop, call>>
    BY <1>5 DEF DataArrives, RxArrives, hostVars, keepBrc, brcVars, keepTm, coreVars
  <2> QED BY <1>0, <2>1, ProcessRests
<1>6. CASE Signal \/ MainShutdown
  <2>1. /\ UNCHANGED <<wpc, todo, ctl, promise, api, incoming, presence, loopPc, tmVars>>
        /\ UNCHANGED <<brcStop, call>>
        /\ flags' = flags \cup {"exit"} \/ flags' = flags \cup {"shutdown"}
    BY <1>6 DEF Signal, MainShutdown, MainGoes, SetFlags, hostVars, keepBrc, brcVars, keepTm
  <2>2. flags \subseteq flags' /\ flags' \subseteq {"running", "shutdown", "critical", "exit"}
    BY <1>0, <2>1
  <2> QED BY <1>0, <2>1, <2>2, ProcessRests
<1>7. CASE MainStarted \/ MainLoopEnds
  <2>1. /\ UNCHANGED <<wpc, todo, ctl, promise, api, flags, incoming, presence, loopPc, tmVars>>
        /\ UNCHANGED <<brcStop, call>>
    BY <1>7 DEF MainStarted, MainLoopEnds, MainGoes, keepLoop, loopVars, keepBrc, brcVars, keepTm
  <2> QED BY <1>0, <2>1, ProcessRests
<1> QED BY <1>1, <1>2, <1>3, <1>4, <1>5, <1>6, <1>7

\* drain(), and the detach gate behind it.
LEMMA DrainSteps ==
  ASSUME ProcessInv, MainDrains \/ MainResets
  PROVE  ProcessInv'
<1>0. /\ UNCHANGED <<wpc, todo, ctl, promise, flags, incoming, presence, loopPc, brcStop, call>>
      /\ Spawned' = Spawned
  BY DEF MainDrains, MainResets, MainGoes, hostVars, keepLoop, loopVars, keepBrc, brcVars, Spawned
<1>1. PhaseInv'
  BY <1>0, PhaseRests DEF ProcessInv
<1>2. /\ slots \in Seq(Threads) /\ toJoin \in Seq(Threads) /\ "worker" \in Spawned
      /\ {stopAsked, inLoop, done, overdue, detached, pending} \subseteq SUBSET Threads
  BY DEF ProcessInv, HostTypeOK, ManagerTypeOK, Spawned
<1>3. Range(slots) \subseteq Threads /\ "ctrl1" \in Threads
  <2>1. Range(slots) \subseteq Threads
    BY <1>2, EndsOfSeq
  <2> QED BY <2>1, HostAssumption
<1>4. SUFFICES ManagerTypeOK' /\ DrainInv' /\ api' \in {"live", "reset", "leaked"}
  BY <1>0, <1>1 DEF ProcessInv, HostTypeOK
<1>5. CASE MainResets
  <2>1. /\ drainPc = "join" /\ toJoin = <<>>
        /\ api' = IF detached \subseteq done THEN "reset" ELSE "leaked"
        /\ UNCHANGED <<slots, closing, stopAsked, inLoop, done, drainPc, toJoin, overdue, detached,
                       pending>>
    BY <1>5 DEF MainResets, Drained, AllDetachedDone, keepTm, tmVars
  <2>2. ManagerTypeOK'
    BY <2>1 DEF ProcessInv, HostTypeOK, ManagerTypeOK
  <2>3. Range(toJoin) = {}
    BY SMT, <2>1 DEF Range
  <2>4. api' = "reset" => Spawned \subseteq done
    BY <2>1, <2>3 DEF ProcessInv, DrainInv
  <2> QED BY <1>0, <2>1, <2>2, <2>4 DEF ProcessInv, DrainInv
<1>6. ASSUME MainDrains, api' = api
      PROVE  ManagerTypeOK' /\ DrainInv' /\ api' \in {"live", "reset", "leaked"}
  <2>1. CASE DrainBegin
    <3>1. /\ drainPc = "idle" /\ closing' = TRUE /\ toJoin' = slots /\ slots' = <<>>
          /\ drainPc' = IF "ctrl1" \in Range(slots) THEN "peers" ELSE "join"
          /\ stopAsked' \in {stopAsked, stopAsked \cup (Range(slots) \ {"ctrl1"})}
          /\ UNCHANGED <<inLoop, done, overdue, detached, pending>>
      BY <2>1, HostAssumption DEF DrainBegin
    <3>2. ManagerTypeOK'
      <4>1. stopAsked' \subseteq Threads
        BY <1>2, <1>3, <3>1
      <4>2. <<>> \in Seq(Threads)
        BY SMT
      <4> QED BY <3>1, <4>1, <4>2 DEF ProcessInv, HostTypeOK, ManagerTypeOK
    <3>3. "ctrl1" \in stopAsked' => "ctrl1" \in stopAsked
      BY <3>1
    <3>4. Spawned \subseteq Range(slots) /\ api # "reset"
      BY <3>1 DEF ProcessInv, DrainInv
    <3>5. drainPc' # "idle" /\ Spawned \subseteq Range(toJoin') /\ "worker" \in Range(toJoin')
      BY <1>2, <3>1, <3>4
    <3> QED BY <1>0, <1>6, <3>1, <3>2, <3>3, <3>4, <3>5 DEF ProcessInv, DrainInv, HostTypeOK
  <2>2. CASE SignalMaster
    <3>1. /\ drainPc = "peers" /\ drainPc' = "join" /\ stopAsked' = stopAsked \cup {"ctrl1"}
          /\ Range(toJoin) \ {"ctrl1"} \subseteq done \cup overdue
          /\ UNCHANGED <<slots, closing, inLoop, done, toJoin, overdue, detached, pending>>
      BY <2>2, HostAssumption DEF SignalMaster
    <3>2. ManagerTypeOK'
      BY <1>2, <1>3, <3>1 DEF ProcessInv, HostTypeOK, ManagerTypeOK
    <3>3. "worker" \in done \cup overdue
      BY <3>1 DEF ProcessInv, DrainInv
    <3> QED BY <1>0, <1>6, <3>1, <3>2, <3>3 DEF ProcessInv, DrainInv, HostTypeOK
  <2>3. CASE JoinLast \/ JoinExpires
    <3>1. /\ drainPc = "join" /\ toJoin # <<>> /\ toJoin' = Front(toJoin)
          /\ \/ detached' = detached /\ Last(toJoin) \in done
             \/ detached' = detached \cup {Last(toJoin)}
          /\ UNCHANGED <<slots, closing, stopAsked, inLoop, done, drainPc, overdue, pending>>
      BY <2>3 DEF JoinLast, JoinExpires
    <3>2. /\ Last(toJoin) \in Threads /\ Front(toJoin) \in Seq(Threads)
          /\ Range(toJoin) = Range(Front(toJoin)) \cup {Last(toJoin)}
      BY <1>2, <3>1, EndsOfSeq
    <3>3. ManagerTypeOK'
      <4>1. detached \subseteq Threads
        BY <1>2
      <4>2. detached' \subseteq Threads
        BY <3>1, <3>2, <4>1
      <4> QED BY <3>1, <3>2, <4>2 DEF ProcessInv, HostTypeOK, ManagerTypeOK
    <3>4. Range(toJoin) \cup done \cup detached \subseteq Range(toJoin') \cup done' \cup detached'
      BY <3>1, <3>2
    <3> QED BY <1>0, <1>6, <3>1, <3>3, <3>4 DEF ProcessInv, DrainInv, HostTypeOK
  <2>4. CASE \E t \in Threads : PeerExpires(t)
    <3>1. /\ \E t \in Threads : overdue' = overdue \cup {t}
          /\ UNCHANGED <<slots, closing, stopAsked, inLoop, done, drainPc, toJoin, detached, pending>>
      BY <2>4 DEF PeerExpires
    <3>2. ManagerTypeOK'
      <4>1. overdue' \subseteq Threads /\ overdue \subseteq overdue'
        BY <1>2, <3>1
      <4> QED BY <3>1, <4>1 DEF ProcessInv, HostTypeOK, ManagerTypeOK
    <3> QED BY <1>0, <1>6, <3>1, <3>2 DEF ProcessInv, DrainInv, HostTypeOK
  <2> QED BY <1>6, <2>1, <2>2, <2>3, <2>4 DEF MainDrains
<1>7. MainDrains => api' = api
  BY DEF MainDrains, hostVars
<1> QED BY <1>5, <1>6, <1>7

-----------------------------------------------------------------------------
(* The process as a whole                                                  *)

\* What a step does to the request channel is one of its operations.
LEMMA StepsOfRequests ==
  ASSUME Next, role \in Roles, HostTypeOK
  PROVE  [RequestStep]_brcVars
<1>1. /\ UsedConns \in SUBSET Conns /\ 1 \in Conns /\ "worker" \in Callers
      /\ \A x \in {"in", "out"} : ConnOf(x) \in Conns
  BY ConnsOfRole, HostAssumption
<1>2. /\ \A x \in {"in", "out"} : [kind |-> "reg", side |-> x] \in Bodies
                                  /\ [kind |-> "dereg", side |-> x] \in Bodies
      /\ [kind |-> "peer", side |-> "out"] \in Bodies /\ [kind |-> "query", side |-> ""] \in Bodies
      /\ [kind |-> "beat", side |-> ""] \in Bodies /\ [kind |-> "closing", side |-> ""] \in Bodies
  BY SMT DEF Bodies
<1>3. \A c \in Conns, b \in Bodies : DoRequest("worker", c, b) => RequestStep
  BY <1>1 DEF RequestStep
<1>4. StopAll(UsedConns) \/ ConnectAll(UsedConns) \/ DisconnectAll(UsedConns) => RequestStep
  BY <1>1 DEF RequestStep
<1>5. CASE Worker
  <2>1. CASE RegisterProducerChannel \/ RegisterConsumer
    BY <1>1, <1>2, <1>3, <2>1 DEF RegisterProducerChannel, RegisterConsumer, Registers
  <2>2. CASE AskPeerReady \/ RequestInCycle
    BY <1>1, <1>2, <1>3, <2>2 DEF AskPeerReady, RequestInCycle
  <2>3. CASE Deregister
    <3>1. todo # <<>> /\ todo \in Seq({"in", "out"})
      BY <2>3 DEF Deregister, HostTypeOK
    <3>2. Head(todo) \in {"in", "out"}
      BY <3>1, EndsOfSeq
    <3>3. \/ DoRequest("worker", ConnOf(Head(todo)), [kind |-> "dereg", side |-> Head(todo)])
          \/ keepBrc
      BY <2>3 DEF Deregister
    <3> QED BY <1>1, <1>2, <1>3, <3>2, <3>3 DEF keepBrc
  <2>4. CASE CallEnds
    BY <1>1, <2>4 DEF CallEnds, RequestStep
  <2>5. CASE StartHandlerThreads \/ StopCtrl \/ StopHandlerThreads \/ QuiescenceExpires
             \/ DestroyHandler
    BY <1>4, <2>5 DEF StartHandlerThreads, StopCtrl, StopHandlerThreads, QuiescenceExpires,
                      DestroyHandler, keepBrc
  <2>6. CASE SetupSucceeds \/ SetupFails \/ StartHandlerFails \/ RegisterRefused \/ ApplyRegAck
             \/ ApplyFails \/ InstallHeartbeat \/ FinalizeFails \/ EnterDataLoop \/ RunDataLoop
             \/ LeaveDataLoop \/ AskAll \/ Snapshot \/ HandlersQuiet \/ InvalidateContext
             \/ WorkerReturns
    BY <2>6 DEF SetupSucceeds, SetupFails, StartHandlerFails, RegisterRefused, ApplyRegAck,
                ApplyFails, InstallHeartbeat, FinalizeFails, EnterDataLoop, RunDataLoop,
                LeaveDataLoop, AskAll, Snapshot, HandlersQuiet, InvalidateContext,
                WorkerReturns, keepBrc
  <2> QED BY <1>5, <2>1, <2>2, <2>3, <2>4, <2>5, <2>6 DEF Worker
<1>6. ASSUME NEW c \in Conns, Ctrl(c) PROVE [RequestStep]_brcVars
  BY <1>6 DEF Ctrl, CtrlEnters, CtrlServes, CtrlNotified, CtrlSeesDisconnect, CtrlHubDead,
              CtrlReturns, keepBrc, RequestStep
<1>7. ASSUME NEW c \in Conns, Hub(c) PROVE [RequestStep]_brcVars
  BY <1>2, <1>7 DEF Hub, HubReplies, HubClosesChannel, HubDies, RequestStep
<1>8. CASE CtrlBeats
  BY <1>1, <1>2, <1>8 DEF CtrlBeats, keepBrc, RequestStep
<1>9. CASE Main \/ Signal \/ DataArrives
  BY <1>9 DEF Main, MainStarted, MainLoopEnds, MainShutdown, MainDrains, MainResets, Signal,
              DataArrives, keepBrc
<1> QED BY <1>5, <1>6, <1>7, <1>8, <1>9 DEF Next

\* What a step does to the data loop.
LEMMA StepsOfLoop ==
  ASSUME Next, LoopInv, PhaseInv
  PROVE  LoopInv'
<1>1. CASE EnterDataLoop
  <2>1. /\ loopPc = "off" /\ loopPc' = "top"
        /\ UNCHANGED <<role, input, out, supply, taken, offered>>
    BY <1>1 DEF EnterDataLoop, PhaseInv, Starting
  <2> QED BY <2>1 DEF LoopInv, Reads, Writes, BlockModeOffersEveryInput
<1>2. CASE RunDataLoop \/ DataArrives
  BY <1>2, LoopMoves DEF RunDataLoop, DataArrives
<1>3. CASE CallEnds \/ RegisterProducerChannel \/ RegisterConsumer \/ ApplyRegAck
  <2>1. UNCHANGED loopSlots
    BY <1>3 DEF CallEnds, RegisterProducerChannel, RegisterConsumer, ApplyRegAck, SetPresence,
                keepLoop, loopVars, loopSlots
  <2> QED BY <2>1, LoopRests
<1>4. CASE SetupSucceeds \/ StopCtrl \/ Signal \/ MainShutdown
  <2>1. UNCHANGED loopSlots
    BY <1>4 DEF SetupSucceeds, StopCtrl, Signal, MainShutdown, SetFlags, loopSlots
  <2> QED BY <2>1, LoopRests
<1>5. CASE SetupFails \/ StartHandlerThreads \/ StartHandlerFails \/ RegisterRefused \/ ApplyFails
           \/ InstallHeartbeat \/ AskPeerReady \/ FinalizeFails \/ RequestInCycle \/ LeaveDataLoop
  <2>1. keepLoop
    BY <1>5 DEF SetupFails, StartHandlerThreads, StartHandlerFails, RegisterRefused, ApplyFails,
                InstallHeartbeat, AskPeerReady, FinalizeFails, RequestInCycle, LeaveDataLoop
  <2> QED BY <2>1, LoopRests DEF keepLoop, loopVars, loopSlots
<1>6. CASE Deregister \/ AskAll \/ Snapshot \/ StopHandlerThreads \/ HandlersQuiet
           \/ QuiescenceExpires \/ InvalidateContext \/ DestroyHandler \/ WorkerReturns
  <2>1. keepLoop
    BY <1>6 DEF Deregister, AskAll, Snapshot, StopHandlerThreads, HandlersQuiet,
                QuiescenceExpires, InvalidateContext, DestroyHandler, WorkerReturns
  <2> QED BY <2>1, LoopRests DEF keepLoop, loopVars, loopSlots
<1>7. ASSUME NEW c \in Conns, Ctrl(c) \/ Hub(c) PROVE LoopInv'
  <2>1. UNCHANGED loopSlots
    BY <1>7 DEF Ctrl, Hub, CtrlEnters, CtrlServes, CtrlNotified, CtrlSeesDisconnect, CtrlHubDead,
                CtrlReturns, HubReplies, HubClosesChannel, HubDies, keepLoop, loopVars, loopSlots
  <2> QED BY <2>1, LoopRests
<1>8. CASE CtrlBeats \/ MainStarted \/ MainLoopEnds \/ MainDrains \/ MainResets
  <2>1. UNCHANGED loopSlots
    BY <1>8 DEF CtrlBeats, MainStarted, MainLoopEnds, MainDrains, MainResets, keepLoop, loopVars,
                loopSlots
  <2> QED BY <2>1, LoopRests
<1> QED BY <1>1, <1>2, <1>3, <1>4, <1>5, <1>6, <1>7, <1>8 DEF Next, Worker, Main

\* Only a closing notification reaches a role without a correlation id.
LEMMA StepsOfNotices ==
  ASSUME Next, NotifyInv, RequestInv, role \in Roles
  PROVE  NotifyInv'
<1>0. fromHub \in [Conns -> Seq(Frame)] /\ toHub \in [Conns -> Seq(Command)]
  BY DEF RequestInv, RequestTypeOK
<1>1. CASE fromHub' = fromHub
  BY <1>1 DEF NotifyInv
<1>2. ASSUME NEW c \in Conns, fromHub[c] # <<>>, fromHub' = [fromHub EXCEPT ![c] = Tail(@)]
      PROVE  NotifyInv'
  <2>1. Range(Tail(fromHub[c])) \subseteq Range(fromHub[c])
    BY <1>0, <1>2, EndsOfSeq
  <2>2. \A d \in Conns : fromHub'[d] = fromHub[d] \/ (d = c /\ fromHub'[d] = Tail(fromHub[c]))
    BY <1>0, <1>2
  <2>3. \A d \in Conns : Range(fromHub'[d]) \subseteq Range(fromHub[d])
    BY <2>1, <2>2
  <2> QED BY <2>3 DEF NotifyInv
<1>3. ASSUME NEW c \in Conns, NEW m \in Frame, m.id = 0 => m.body.kind = "closing",
             fromHub' = [fromHub EXCEPT ![c] = Append(@, m)]
      PROVE  NotifyInv'
  <2>1. Range(Append(fromHub[c], m)) = Range(fromHub[c]) \cup {m}
    <3>1. fromHub[c] \in Seq(Frame)
      BY <1>0
    <3>2. \A q \in Seq(Frame) : Range(Append(q, m)) = Range(q) \cup {m}
      BY SMT, AppendIsLonger
    <3> QED BY <3>1, <3>2
  <2>2. \A d \in Conns : fromHub'[d] = fromHub[d] \/ (d = c /\ fromHub'[d] = Append(fromHub[c], m))
    BY <1>0, <1>3
  <2>3. \A d \in Conns : Range(fromHub'[d]) \subseteq Range(fromHub[d]) \cup {m}
    BY <2>1, <2>2
  <2> QED BY <1>3, <2>3 DEF NotifyInv
<1>4. CASE DestroyHandler
  <2>1. \A d \in Conns : fromHub'[d] = fromHub[d] \/ fromHub'[d] = <<>>
    BY <1>4 DEF DestroyHandler, DisconnectAll
  <2>2. Range(<<>>) = {}
    BY SMT DEF Range
  <2> QED BY <2>1, <2>2 DEF NotifyInv
<1>5. CASE Worker /\ ~DestroyHandler
  <2>1. CASE RegisterProducerChannel \/ RegisterConsumer \/ AskPeerReady \/ RequestInCycle
             \/ Deregister \/ CallEnds
    BY <1>1, <2>1 DEF RegisterProducerChannel, RegisterConsumer, AskPeerReady, RequestInCycle,
                      Deregister, CallEnds, Registers, DoRequest, GiveUp, TakeReply, keepBrc, brcVars
  <2>2. CASE StartHandlerThreads \/ StopCtrl \/ StopHandlerThreads \/ QuiescenceExpires
    BY <1>1, <2>2 DEF StartHandlerThreads, StopCtrl, StopHandlerThreads, QuiescenceExpires,
                      ConnectAll, StopAll, keepBrc, brcVars
  <2>3. CASE SetupSucceeds \/ SetupFails \/ StartHandlerFails \/ RegisterRefused \/ ApplyRegAck
             \/ ApplyFails \/ InstallHeartbeat \/ FinalizeFails \/ EnterDataLoop \/ RunDataLoop
             \/ LeaveDataLoop \/ AskAll \/ Snapshot \/ HandlersQuiet \/ InvalidateContext
             \/ WorkerReturns
    <3>1. keepBrc
      BY <2>3 DEF SetupSucceeds, SetupFails, StartHandlerFails, RegisterRefused, ApplyRegAck,
                  ApplyFails, InstallHeartbeat, FinalizeFails, EnterDataLoop, RunDataLoop,
                  LeaveDataLoop, AskAll, Snapshot, HandlersQuiet, InvalidateContext, WorkerReturns
    <3> QED BY <1>1, <3>1 DEF keepBrc, brcVars
  <2> QED BY <1>5, <2>1, <2>2, <2>3 DEF Worker
<1>6. ASSUME NEW c \in Conns, Ctrl(c) PROVE NotifyInv'
  <2>1. CASE CtrlServes(c) \/ CtrlNotified(c)
    BY <1>1, <1>2, <2>1 DEF CtrlServes, CtrlNotified, DrainCommands, ReceiveReply, Reap,
                            ReceiveNotify
  <2>2. CASE CtrlEnters(c) \/ CtrlSeesDisconnect(c) \/ CtrlHubDead(c) \/ CtrlReturns(c)
    BY <1>1, <2>2 DEF CtrlEnters, CtrlSeesDisconnect, CtrlHubDead, CtrlReturns, CheckMonitor,
                      keepBrc, brcVars
  <2> QED BY <1>6, <2>1, <2>2 DEF Ctrl
<1>7. ASSUME NEW c \in Conns, Hub(c) PROVE NotifyInv'
  <2>1. CASE HubReplies(c)
    <3>1. PICK ok \in Answers : HubAnswers(c, ok)
      BY <2>1 DEF HubReplies
    <3>2. toHub[c] # <<>> /\ toHub[c] \in Seq(Command)
      BY <1>0, <3>1 DEF HubAnswers
    <3>3. PICK t \in Command : t = Head(toHub[c])
      BY <3>2, EndsOfSeq
    <3>4. fromHub' = [fromHub EXCEPT ![c] =
                        IF t.id = 0 THEN @
                        ELSE Append(@, [id |-> t.id, body |-> t.body, ok |-> ok])]
      BY <3>1, <3>3 DEF HubAnswers
    <3>5. CASE t.id = 0
      BY <1>0, <1>1, <3>4, <3>5
    <3>6. CASE t.id # 0
      <4> DEFINE m == [id |-> t.id, body |-> t.body, ok |-> ok]
      <4>1. m \in Frame /\ m.id # 0
        BY SMT, <3>6 DEF Frame, Command
      <4>2. fromHub' = [fromHub EXCEPT ![c] = Append(@, m)]
        BY <3>4, <3>6
      <4> HIDE DEF m
      <4> QED BY <1>3, <4>1, <4>2
    <3> QED BY <3>5, <3>6
  <2>2. CASE HubClosesChannel(c)
    <3> DEFINE b == [kind |-> "closing", side |-> ""]
               m == [id |-> 0, body |-> b, ok |-> "ok"]
    <3>1. m \in Frame /\ m.body.kind = "closing"
      <4>1. b \in Bodies /\ b.kind = "closing"
        BY SMT DEF Bodies
      <4> HIDE DEF b
      <4>2. m \in Frame /\ m.body = b
        BY SMT, <4>1 DEF Frame, Answers
      <4> QED BY <4>1, <4>2
    <3>2. fromHub' = [fromHub EXCEPT ![c] = Append(@, m)]
      BY <2>2 DEF HubClosesChannel, HubNotifies
    <3> HIDE DEF m
    <3> QED BY <1>3, <3>1, <3>2
  <2>3. CASE HubDies(c)
    BY <1>1, <2>3 DEF HubDies, LinkDown
  <2> QED BY <1>7, <2>1, <2>2, <2>3 DEF Hub
<1>8. CASE CtrlBeats \/ Main \/ Signal \/ DataArrives
  BY <1>1, <1>8 DEF CtrlBeats, SendCommand, Main, MainStarted, MainLoopEnds, MainShutdown,
                    MainDrains, MainResets, Signal, DataArrives, keepBrc, brcVars
<1> QED BY <1>4, <1>5, <1>6, <1>7, <1>8 DEF Next

\* The process starts with its worker spawned and nothing else.
LEMMA HostInvInit == Init => HostInv
<1> SUFFICES ASSUME Init PROVE HostInv
  OBVIOUS
<1>1. RequestInv
  BY RequestInvInit DEF Init
<1>2. LoopInv
  <2>1. 0 \in Nat /\ 0 = 0 + 0
    BY SMT
  <2>2. /\ role \in Roles /\ loopPc = "off" /\ input = 0 /\ out = FALSE
        /\ supply = 0 /\ taken = 0 /\ offered = 0
    BY DEF Init, LoopInit
  <2>3. BlockModeOffersEveryInput
    BY <2>1, <2>2 DEF BlockModeOffersEveryInput
  <2> QED BY <2>1, <2>2, <2>3 DEF LoopInv
<1>3. PhaseInv
  <2>1. call["worker"] = NoCall /\ NoCall.st = "idle"
    <3>1. NoCall.st = "idle"
      BY SMT DEF NoCall
    <3> QED BY <3>1, HostAssumption DEF Init, RequestInit
  <2> QED BY <2>1 DEF Init, RequestInit, LoopInit, PhaseInv, Starting, Talking, Waits, Ending
<1>4. HostTypeOK
  <2>1. /\ <<"worker">> \in Seq({"worker", "ctrl1", "ctrl2"})
        /\ <<>> \in Seq({"worker", "ctrl1", "ctrl2"}) /\ <<>> \in Seq({"in", "out"})
        /\ <<>> \in Seq([kind : {"closing", "hubdead"}, master : BOOLEAN])
        /\ Len(<<>>) <= IncomingCap
    BY SMT, RolesAssumption
  <2>2. ManagerTypeOK
    BY <2>1, HostAssumption DEF Init, ManagerTypeOK
  <2> QED BY <2>1, <2>2 DEF Init, LoopInit, HostTypeOK
<1>5. DrainInv
  <2>1. Range(<<"worker">>) = {"worker"}
    BY SMT DEF Range
  <2>2. ctl[1] = "none" /\ {d \in Conns : ctl[d] # "none"} = {}
    BY HostAssumption DEF Init
  <2>3. Spawned \subseteq {"worker"}
    BY <2>2 DEF Spawned
  <2> QED BY <2>1, <2>2, <2>3 DEF Init, DrainInv
<1>6. NotifyInv
  <2>1. Range(<<>>) = {}
    BY SMT DEF Range
  <2> QED BY <2>1 DEF Init, RequestInit, NotifyInv
<1> QED BY <1>1, <1>2, <1>3, <1>4, <1>5, <1>6 DEF HostInv

\* Every step of the process keeps the invariant.
LEMMA HostInvStep == HostInv /\ [Next]_vars => HostInv'
<1> SUFFICES ASSUME HostInv, [Next]_vars PROVE HostInv'
  OBVIOUS
<1>1. ProcessInv /\ RequestInv /\ LoopInv /\ PhaseInv /\ HostTypeOK /\ NotifyInv /\ role \in Roles
  BY DEF HostInv, ProcessInv, LoopInv
<1>2. CASE Next
  <2>1. RequestInv'
    BY <1>1, <1>2, StepsOfRequests, RequestInvStep
  <2>2. LoopInv'
    BY <1>1, <1>2, StepsOfLoop
  <2>3. NotifyInv'
    BY <1>1, <1>2, StepsOfNotices
  <2>4. ProcessInv'
    BY <1>1, <1>2, WorkerStep, CtrlGoesOn, CtrlReturnsStep, OtherSteps, DrainSteps
       DEF Next, Ctrl, Main
  <2> QED BY <2>1, <2>2, <2>3, <2>4 DEF HostInv, ProcessInv
<1>3. CASE UNCHANGED vars
  <2>1. UNCHANGED <<brcVars, loopSlots, fromHub>>
    BY <1>3 DEF vars, loopVars, brcVars, loopSlots
  <2>2. RequestInv' /\ LoopInv' /\ NotifyInv'
    BY <1>1, <2>1, RequestInvStep, LoopRests DEF NotifyInv
  <2>3. /\ UNCHANGED <<wpc, todo, ctl, promise, api, presence, loopPc, tmVars, brcStop>>
        /\ UNCHANGED <<flags, incoming, call>>
    BY <1>3 DEF vars, loopVars, brcVars, hostVars
  <2>4. ProcessInv'
    BY <1>1, <2>3, ProcessRests DEF HostTypeOK
  <2> QED BY <2>2, <2>4 DEF HostInv, ProcessInv
<1> QED BY <1>2, <1>3

\* A role process of any shape, with queues of any depth: its types and bounds
\* hold, the data loop returns its slots and a Block-mode processor offers every
\* input, the master control thread serves the worker until the worker is gone or
\* given up, and shutdown_() destroys the api object after its last thread.
THEOREM RoleStaysSound == Spec => []RoleIsSound
<1>1. HostInv => RoleIsSound
  <2> SUFFICES ASSUME HostInv PROVE RoleIsSound
    OBVIOUS
  <2>1. RoleTypeOK
    BY DEF HostInv, RequestInv, RoleTypeOK
  <2>2. SlotsAreReturned /\ BlockModeOffersEveryInput
    BY DEF HostInv, LoopInv, SlotsAreReturned
  <2>3. MasterServesWorker
    <3>1. wpc \in Ending => call["worker"].st = "idle"
      BY DEF HostInv, PhaseInv, Ending, Waits
    <3> QED BY <3>1 DEF HostInv, DrainInv, MasterServesWorker
  <2>4. ApiOutlivesThreads
    BY DEF HostInv, DrainInv, Spawned, ApiOutlivesThreads
  <2> QED BY <2>1, <2>2, <2>3, <2>4 DEF RoleIsSound
<1> QED BY <1>1, HostInvInit, HostInvStep, PTL DEF Spec

\* Every reply a caller holds is the answer to its own request, and every pending
\* id belongs to a request somebody waits for or has abandoned.
THEOREM RequestsStayAccounted == Spec => []RequestsAreAccounted
<1>1. HostInv => RequestsAreAccounted
  BY RequestInvImplies DEF HostInv
<1> QED BY <1>1, HostInvInit, HostInvStep, PTL DEF Spec
=============================================================================
