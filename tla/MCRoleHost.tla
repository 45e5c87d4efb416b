----------------------------- MODULE MCRoleHost -----------------------------
(***************************************************************************)
(* Small instances of the role process.  Each role comes with the          *)
(* disturbances its environment may cause and the number of blocking       *)
(* requests it may issue (role.calls), so that every pair that             *)
(* interacts is explored without multiplying all of them.                  *)
(***************************************************************************)
EXTENDS RoleHost

CONSTANTS MaxItems, \* data items
          MaxWire   \* frames in flight each way

R(shape, timed, dropMode, stopOnError, overrides, dual, env, calls) ==
    [shape |-> shape, timed |-> timed, dropMode |-> dropMode, stopOnError |-> stopOnError,
     overrides |-> overrides, dual |-> dual, env |-> env, calls |-> calls]

MCRoles == {R("producer", FALSE, FALSE, TRUE, FALSE, FALSE, {"signal"}, 3),
            R("consumer", TRUE, FALSE, FALSE, TRUE, FALSE, {"signal", "hubdead"}, 1),
            R("consumer", FALSE, FALSE, FALSE, FALSE, FALSE, {"hubdead", "lapse"}, 2),
            R("processor", TRUE, FALSE, FALSE, FALSE, FALSE, {"closing", "lapse"}, 3),
            R("processor", FALSE, TRUE, FALSE, FALSE, TRUE, {"signal"}, 4),
            R("producer", TRUE, FALSE, FALSE, FALSE, FALSE, {"beat"}, 2)}

May(e) == e \in role.env

\* Bounds of the instance.
Bounded ==
    /\ nextId <= role.calls + 1
    /\ taken + supply <= MaxItems
    /\ \A c \in Conns : Len(fromHub[c]) <= MaxWire /\ Len(toHub[c]) <= MaxWire
    /\ May("signal") \/ "exit" \notin flags
    /\ May("beat") \/ \A c \in Conns : \A i \in 1..Len(cmds[c]) : cmds[c][i].id # 0
    /\ May("hubdead") \/ \A c \in Conns : link[c] # "down"
    /\ \A c \in Conns : \A i \in 1..Len(fromHub[c]) :
          LET m == fromHub[c][i] IN
          /\ m.id = 0 => May("closing") /\ incoming = <<>>
          /\ (m.id # 0 /\ m.body.kind = "query") => m.ok = "ok"
          /\ (m.id # 0 /\ m.ok = "notready") => nextId <= role.calls
    /\ May("lapse") \/ (overdue = {} /\ detached = {})

\* Without "lapse" the quiescence waits do not run out.
Patient == wpc \in {"wait", "wait2"} /\ wpc' # wpc => May("lapse") \/ Quiescent

MCNext == Next /\ Bounded' /\ Patient
MCSpec == Init /\ [][MCNext]_vars

\* The fairness of the code's threads, under the bounds.
MCFairness ==
    /\ WF_vars(Worker /\ Bounded' /\ Patient) /\ WF_vars(Main /\ Bounded')
    /\ \A c \in Conns : WF_vars(Ctrl(c) /\ Bounded')

MCFairSpec == MCSpec /\ MCFairness
=============================================================================
