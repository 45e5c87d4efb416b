------------------------------ MODULE ItemQueue ------------------------------
(***************************************************************************)
(* What a queue promises to the roles on its two ends, whatever carries    *)
(* it: a reader gets items in the order their writer committed them, no    *)
(* item twice, none that was not committed.  Items may be lost; the items  *)
(* of different writers may interleave in any way.                         *)
(***************************************************************************)
EXTENDS Naturals, Sequences

CONSTANTS Writers, Readers

VARIABLES
    committed,  \* committed[w]: how many items w has committed; item n is its nth
    got         \* got[r]: the items <<w, n>> that r has been given, in order

vars == <<committed, got>>

Init ==
    /\ committed = [w \in Writers |-> 0]
    /\ got = [r \in Readers |-> <<>>]

Commit(w) ==
    /\ committed' = [committed EXCEPT ![w] = @ + 1]
    /\ UNCHANGED got

\* A reader gets an item of w newer than every item of w it has had.
Deliver(r, w, n) ==
    /\ n <= committed[w]
    /\ \A i \in 1..Len(got[r]) : got[r][i][1] = w => got[r][i][2] < n
    /\ got' = [got EXCEPT ![r] = Append(@, <<w, n>>)]
    /\ UNCHANGED committed

Next ==
    \/ \E w \in Writers : Commit(w)
    \/ \E r \in Readers, w \in Writers : \E n \in 1..committed[w] : Deliver(r, w, n)

Spec == Init /\ [][Next]_vars
=============================================================================
