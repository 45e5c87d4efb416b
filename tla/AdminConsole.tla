---------------------------- MODULE AdminConsole ----------------------------
(***************************************************************************)
(* The operator console of the hub (AdminService, AdminSession and         *)
(* ConsoleOutputBuffer).                                                   *)
(*                                                                         *)
(* A console says hello with the admin token and gets a session id sealed  *)
(* with its connection's facts.  Every command carries the session id, a   *)
(* wall-clock stamp and a nonce; the gate opens the seal, compares it with *)
(* the connection, checks the skew and records the nonce.  A read command  *)
(* answers from a snapshot; a control command is queued for the broker,    *)
(* whose completion is appended, as a line, to the one output buffer.      *)
(* Scripts append lines too.  The operator polls the buffer empty.         *)
(*                                                                         *)
(* Three threads touch the buffer under its mutex: the admin worker, the   *)
(* broker and the script worker.  A hello flushes and clears it in two     *)
(* separate critical sections.                                             *)
(***************************************************************************)
EXTENDS Naturals, Sequences, FiniteSets

CONSTANTS Consoles,     \* console clients
          Nonces,       \* one per command a console issues
          Skew, Window, \* kReplaySkewMs and kReplayWindowMs, in ticks
          MaxClock, MaxLines, MaxPrints, MaxHellos

VARIABLES clock,        \* the wall clock, in ticks
          console,      \* per console: connection, session, stamps of its commands
          wire,         \* frames on their way to the admin socket
          admin,        \* the admin worker's step
          seen,         \* ReplayGuard: nonce -> when it was recorded
          orders,       \* requests queued for the broker
          buffer,       \* ConsoleOutputBuffer::lines_
          dropped,      \* dropped_since_drain_
          lines,        \* history: number of lines appended
          fate,         \* history: where each line that left the buffer went
          runs,         \* history: commands queued, with multiplicity
          hellos        \* hellos sent, to bound them

consoleVars == <<clock, console, wire, admin, seen, orders, buffer, dropped,
                 lines, fate, runs, hellos>>

Unstamped == MaxClock + 1
NoSession == [of |-> "nobody", conn |-> 0]

ConsoleInit ==
    /\ clock = 0
    /\ console = [c \in Consoles |-> [conn |-> 1, session |-> NoSession,
                                       stamp |-> [n \in Nonces |-> Unstamped]]]
    /\ wire = <<>>
    /\ admin = "idle"
    /\ seen = [n \in Consoles \X Nonces |-> 0]     \* 0: not recorded
    /\ orders = <<>>
    /\ buffer = <<>>
    /\ dropped = 0
    /\ lines = 0
    /\ fate = [logged |-> {}, returned |-> {}, wiped |-> {}]
    /\ runs = <<>>
    /\ hellos = 0

-----------------------------------------------------------------------------
(* Consoles                                                                *)

SendHello(c) ==
    /\ hellos < MaxHellos
    /\ hellos' = hellos + 1
    /\ wire' = Append(wire, [kind |-> "hello", by |-> c, conn |-> console[c].conn])
    /\ UNCHANGED <<clock, console, admin, seen, orders, buffer, dropped, lines, fate, runs>>

(* A reconnect gives the console another routing id: its session id no     *)
(* longer matches the connection.                                          *)
Reconnect(c) ==
    /\ console[c].conn = 1
    /\ console' = [console EXCEPT ![c].conn = 2]
    /\ UNCHANGED <<clock, wire, admin, seen, orders, buffer, dropped, lines, fate, runs, hellos>>

Frame(c, kind, n) ==
    [kind |-> kind, by |-> c, conn |-> console[c].conn,
     session |-> console[c].session, nonce |-> n, ts |-> clock]

(* A command is stamped once; the console sends the same frame again when  *)
(* the answer does not come.  Its clock may be a tick off the hub's.       *)
SendCommand(c, n) ==
    /\ console[c].session # NoSession
    /\ \A i \in DOMAIN wire : wire[i].kind # "command"
    /\ \E ts \in {t \in 0..MaxClock : t <= clock + 1 /\ clock <= t + 1} \cup {console[c].stamp[n]} :
          /\ console[c].stamp[n] \in {Unstamped, ts}
          /\ ts # Unstamped
          /\ wire' = Append(wire, [Frame(c, "command", n) EXCEPT !.ts = ts])
          /\ console' = [console EXCEPT ![c].stamp[n] = ts]
    /\ UNCHANGED <<clock, admin, seen, orders, buffer, dropped, lines, fate, runs, hellos>>

SendPoll(c) ==
    /\ console[c].session # NoSession
    /\ \A i \in DOMAIN wire : wire[i].kind # "poll"
    /\ wire' = Append(wire, Frame(c, "poll", 0))
    /\ UNCHANGED <<clock, console, admin, seen, orders, buffer, dropped, lines, fate, runs, hellos>>

Tick ==
    /\ clock < MaxClock
    /\ clock' = clock + 1
    /\ UNCHANGED <<console, wire, admin, seen, orders, buffer, dropped, lines, fate, runs, hellos>>

-----------------------------------------------------------------------------
(* The output buffer                                                       *)

LineSet(s) == {s[i] : i \in DOMAIN s}

(* append, then enforce_caps_: the oldest lines are spilled to the log and *)
(* counted.                                                                *)
AppendLine(line) ==
    LET full == Append(buffer, line)
        over == IF Len(full) > MaxLines THEN Len(full) - MaxLines ELSE 0
    IN  /\ buffer' = SubSeq(full, over + 1, Len(full))
        /\ dropped' = dropped + over
        /\ fate' = [fate EXCEPT !.logged = @ \cup LineSet(SubSeq(full, 1, over))]


OnDisconnect ==
    /\ buffer' = <<>>
    /\ dropped' = 0
    /\ fate' = [fate EXCEPT !.logged = @ \cup LineSet(buffer)]

OnConnect ==
    /\ buffer' = <<>>
    /\ dropped' = 0
    /\ fate' = [fate EXCEPT !.wiped = @ \cup LineSet(buffer)]

Drain ==
    /\ buffer' = <<>>
    /\ dropped' = 0
    /\ fate' = [fate EXCEPT !.returned = @ \cup LineSet(buffer)]

-----------------------------------------------------------------------------
(* The admin worker: one frame at a time                                   *)

Opens(f) == f.session # NoSession
Matches(f) == f.session.of = f.by /\ f.session.conn = f.conn
InSkew(f) == (IF clock > f.ts THEN clock - f.ts ELSE f.ts - clock) <= Skew

(* nonce_seen: recorded entries count until they are older than the window.*)
Fresh(f) == seen[<<f.by, f.nonce>>] = 0 \/ clock + 1 > seen[<<f.by, f.nonce>>] + Window

Gate(f) == Opens(f) /\ Matches(f) /\ InSkew(f) /\ Fresh(f)

HelloDisconnects ==
    /\ admin = "idle"
    /\ wire # <<>>
    /\ Head(wire).kind = "hello"
    /\ OnDisconnect
    /\ admin' = "hello"
    /\ UNCHANGED <<clock, console, wire, seen, orders, lines, runs, hellos>>

(* The id is sealed and returned; a console that has moved on ignores it.  *)
HelloConnects ==
    /\ admin = "hello"
    /\ OnConnect
    /\ LET f == Head(wire)
       IN  console' = [console EXCEPT ![f.by].session = [of |-> f.by, conn |-> f.conn]]
    /\ wire' = Tail(wire)
    /\ admin' = "idle"
    /\ UNCHANGED <<clock, seen, orders, lines, runs, hellos>>

(* The gate, then the handler: a read command answers from a snapshot; a   *)
(* control command finds its channel and queues a request for the broker.  *)
HandleCommand ==
    /\ admin = "idle"
    /\ wire # <<>>
    /\ LET f == Head(wire)
       IN  /\ f.kind = "command"
           /\ \/ /\ Gate(f)
                 /\ seen' = [seen EXCEPT ![<<f.by, f.nonce>>] = clock + 1]
                 /\ \/ /\ orders' = Append(orders, <<f.by, f.nonce>>)
                       /\ runs' = Append(runs, <<f.by, f.nonce>>)
                    \/ UNCHANGED <<orders, runs>>       \* a read, or not_found
              \/ /\ ~Gate(f)
                 /\ UNCHANGED <<seen, orders, runs>>
    /\ wire' = Tail(wire)
    /\ UNCHANGED <<clock, console, admin, buffer, dropped, lines, fate, hellos>>

(* The read gate has no nonce: a poll is safe to repeat.                   *)
HandlePoll ==
    /\ admin = "idle"
    /\ wire # <<>>
    /\ LET f == Head(wire)
       IN  /\ f.kind = "poll"
           /\ IF Opens(f) /\ Matches(f) /\ InSkew(f)
              THEN Drain
              ELSE UNCHANGED <<buffer, dropped, fate>>
    /\ wire' = Tail(wire)
    /\ UNCHANGED <<clock, console, admin, seen, orders, lines, runs, hellos>>

(* stop(): the worker leaves its loop and flushes the buffer.              *)
StopAdmin ==
    /\ admin = "idle"
    /\ OnDisconnect
    /\ admin' = "stopped"
    /\ UNCHANGED <<clock, console, wire, seen, orders, lines, runs, hellos>>

-----------------------------------------------------------------------------
(* The other writers                                                       *)

(* The broker carries a request out and reports the completion.            *)
BrokerCompletes ==
    /\ orders # <<>>
    /\ orders' = Tail(orders)
    /\ AppendLine(lines + 1)
    /\ lines' = lines + 1
    /\ UNCHANGED <<clock, console, wire, admin, seen, runs, hellos>>

AdminConsolePrint ==
    /\ lines < MaxPrints
    /\ AppendLine(lines + 1)
    /\ lines' = lines + 1
    /\ UNCHANGED <<clock, console, wire, admin, seen, orders, runs, hellos>>

-----------------------------------------------------------------------------
ConsoleNext ==
    \/ \E c \in Consoles : SendHello(c) \/ Reconnect(c) \/ SendPoll(c)
    \/ \E c \in Consoles, n \in Nonces : SendCommand(c, n)
    \/ Tick
    \/ HelloDisconnects \/ HelloConnects \/ HandleCommand \/ HandlePoll \/ StopAdmin
    \/ BrokerCompletes \/ AdminConsolePrint

ConsoleSpec == ConsoleInit /\ [][ConsoleNext]_consoleVars

-----------------------------------------------------------------------------

(* "a dropped line is not lost - it lands here": no line disappears from   *)
(* both the operator and the log (console_output_buffer.hpp:193-194).      *)
NoLineIsLost == fate.wiped = {}
=============================================================================
