----------------------- MODULE AdmissionLedgerProofs ------------------------
(***************************************************************************)
(* What the ledger's operations (AdmissionLedger) return, keep and bound:  *)
(* the facts the proofs about the hub's registry and about a channel's     *)
(* admission rest on.                                                      *)
(***************************************************************************)
EXTENDS AdmissionLedger, FiniteSetTheorems, TLAPS

\* The leaves are Zenon's unless they cite SMT: few of them need arithmetic.
USE Zenon

(* The ledger's operations                                                 *)

\* The versions of a ledger were issued by it.
Issued(l) == \A u \in Uids : /\ l.confirmed[u] <= l.current_version
                             /\ l.admission[u] <= l.current_version

\* What the hub's VersionsGrow says of one channel's ledger.
Grows(l, m) ==
    /\ m.current_version >= l.current_version
    /\ \A u \in Uids :
          /\ u \in Admitted(l) \cap Admitted(m) => m.admission[u] = l.admission[u]
          /\ u \in Admitted(m) \ Admitted(l) => m.admission[u] > l.current_version
    /\ Admitted(l) # Admitted(m) => m.current_version > l.current_version

\* The number of keys a revocation takes away is a number, and zero only if it
\* takes none.
LEMMA RevokedCount ==
  ASSUME NEW l, NEW S
  PROVE  /\ Cardinality(Admitted(l) \cap S) \in Nat
         /\ Cardinality(Admitted(l) \cap S) = 0 <=> Admitted(l) \cap S = {}
<1>1. IsFiniteSet(Admitted(l) \cap S)
  <2>1. Admitted(l) \cap S \subseteq Uids
    BY DEF Admitted
  <2>2. QED BY <2>1, UidsAssumption, FS_Subset
<1>2. QED BY <1>1, FS_CardinalityType, FS_EmptySet

\* admit keeps the ledger's form and the confirmations, and adds one key.
LEMMA AdmitFacts ==
  ASSUME NEW l \in Ledger, NEW u \in Uids
  PROVE  /\ Admit(l, u) \in Ledger
         /\ Admit(l, u).confirmed = l.confirmed
         /\ Admit(l, u).current_version >= l.current_version
         /\ Admitted(Admit(l, u)) = Admitted(l) \cup {u}
         /\ Issued(l) => Issued(Admit(l, u))
         /\ Grows(l, Admit(l, u))
<1> DEFINE m == Admit(l, u)
<1>1. CASE l.admission[u] # 0
  <2>1. m = l
    BY <1>1 DEF Admit
  <2>2. u \in Admitted(l)
    BY <1>1 DEF Admitted
  <2>3. QED BY SMT, <2>1, <2>2 DEF Ledger, Grows
<1>2. CASE l.admission[u] = 0
  <2>2. l.current_version \in Nat /\ l.confirmed \in [Uids -> Nat]
        /\ l.admission \in [Uids -> Nat]
    BY DEF Ledger
  <2> DEFINE a == [l.admission EXCEPT ![u] = l.current_version + 1]
  <2>7. m = [current_version |-> l.current_version + 1, admission |-> a,
             confirmed |-> l.confirmed]
    BY <1>2 DEF Admit, Ledger
  <2>8. a \in [Uids -> Nat]
    BY SMT, <2>2
  <2>9. \A v \in Uids : a[v] = IF v = u THEN l.current_version + 1 ELSE l.admission[v]
    BY <2>2
  <2> HIDE DEF a
  <2>1. /\ m \in Ledger
        /\ m.confirmed = l.confirmed
        /\ m.current_version = l.current_version + 1
        /\ \A v \in Uids : m.admission[v] = IF v = u THEN l.current_version + 1
                                                     ELSE l.admission[v]
    BY SMT, <2>2, <2>7, <2>8, <2>9 DEF Ledger
  <2>3. Admitted(m) = Admitted(l) \cup {u}
    BY SMT, <2>1, <2>2 DEF Admitted
  <2>4. Issued(l) => Issued(m)
    BY SMT, <2>1, <2>2 DEF Issued
  <2>5. Grows(l, m)
    BY SMT, <2>1, <2>2, <2>3, <1>2 DEF Grows, Admitted
  <2>6. QED BY SMT, <2>1, <2>2, <2>3, <2>4, <2>5
<1>3. QED BY <1>1, <1>2

\* revoke keeps the ledger's form and the confirmations, and takes the keys of S.
LEMMA RevokeFacts ==
  ASSUME NEW l \in Ledger, NEW S \in SUBSET Uids
  PROVE  /\ Revoke(l, S) \in Ledger
         /\ Revoke(l, S).confirmed = l.confirmed
         /\ Revoke(l, S).current_version >= l.current_version
         /\ Admitted(Revoke(l, S)) = Admitted(l) \ S
         /\ Issued(l) => Issued(Revoke(l, S))
         /\ Grows(l, Revoke(l, S))
<1> DEFINE m == Revoke(l, S)
           c == Cardinality(Admitted(l) \cap S)
<1>1. c \in Nat /\ (c = 0 <=> Admitted(l) \cap S = {})
  BY RevokedCount
<1> HIDE DEF c
<1>2. l.current_version \in Nat /\ l.confirmed \in [Uids -> Nat]
      /\ l.admission \in [Uids -> Nat]
  BY DEF Ledger
<1> DEFINE a == [u \in Uids |-> IF u \in S THEN 0 ELSE l.admission[u]]
<1>9. a \in [Uids -> Nat] /\ \A v \in Uids : a[v] = IF v \in S THEN 0 ELSE l.admission[v]
  BY <1>2
<1>10. m = [l EXCEPT !.current_version = l.current_version + c, !.admission = a]
  BY DEF Revoke, c
<1> HIDE DEF a, m
<1>3. m = [current_version |-> l.current_version + c, admission |-> a,
           confirmed |-> l.confirmed]
  BY <1>10 DEF Ledger
<1>4. /\ m \in Ledger
      /\ m.confirmed = l.confirmed
      /\ m.current_version = l.current_version + c
      /\ \A v \in Uids : m.admission[v] = IF v \in S THEN 0 ELSE l.admission[v]
  BY SMT, <1>1, <1>2, <1>3, <1>9 DEF Ledger
<1>5. Admitted(m) = Admitted(l) \ S
  BY <1>4 DEF Admitted
<1>6. Issued(l) => Issued(m)
  BY SMT, <1>1, <1>2, <1>4 DEF Issued
<1>7. Grows(l, m)
  <2>1. m.current_version >= l.current_version
    BY SMT, <1>1, <1>2, <1>4
  <2>2. \A u \in Uids : u \in Admitted(m) => m.admission[u] = l.admission[u] /\ u \in Admitted(l)
    BY <1>4, <1>5
  <2>3. Admitted(l) # Admitted(m) => c # 0
    BY <1>1, <1>5
  <2>4. Admitted(l) # Admitted(m) => m.current_version > l.current_version
    BY SMT, <2>3, <1>1, <1>2, <1>4
  <2>5. QED BY <2>1, <2>2, <2>4 DEF Grows
<1>8. QED BY SMT, <1>1, <1>2, <1>4, <1>5, <1>6, <1>7 DEF m

\* reset_role_confirmation touches nothing but the confirmations of S.
LEMMA ResetFacts ==
  ASSUME NEW l \in Ledger, NEW S \in SUBSET Uids
  PROVE  LET m == ResetConfirmation(l, S) IN
         /\ m \in Ledger
         /\ m.current_version = l.current_version
         /\ m.admission = l.admission
         /\ \A v \in Uids : m.confirmed[v] = IF v \in S THEN 0 ELSE l.confirmed[v]
         /\ Admitted(m) = Admitted(l)
         /\ Issued(l) => Issued(m)
         /\ Grows(l, m)
<1> DEFINE m == ResetConfirmation(l, S)
<1>1. l.current_version \in Nat /\ l.confirmed \in [Uids -> Nat]
      /\ l.admission \in [Uids -> Nat]
  BY DEF Ledger
<1>2. m = [l EXCEPT !.confirmed = [u \in Uids |-> IF u \in S THEN 0 ELSE l.confirmed[u]]]
  BY DEF ResetConfirmation, Ledger
<1>3. /\ m \in Ledger
      /\ m.current_version = l.current_version
      /\ m.admission = l.admission
      /\ \A v \in Uids : m.confirmed[v] = IF v \in S THEN 0 ELSE l.confirmed[v]
  BY SMT, <1>1, <1>2 DEF Ledger
<1> HIDE DEF m
<1>4. Admitted(m) = Admitted(l)
  BY <1>3 DEF Admitted
<1>5. Issued(l) => Issued(m)
  BY SMT, <1>1, <1>3 DEF Issued
<1>6. Grows(l, m)
  BY SMT, <1>1, <1>3, <1>4 DEF Grows
<1>7. QED BY <1>3, <1>4, <1>5, <1>6 DEF m

\* confirm advances one role's confirmation, to an issued version.
LEMMA ConfirmFacts ==
  ASSUME NEW l \in Ledger, NEW u \in Uids, NEW v \in Nat
  PROVE  LET m == Confirm(l, u, v) IN
         /\ m \in Ledger
         /\ m.current_version = l.current_version
         /\ m.admission = l.admission
         /\ \A w \in Uids \ {u} : m.confirmed[w] = l.confirmed[w]
         /\ m.confirmed[u] >= l.confirmed[u]
         /\ m.confirmed[u] = l.confirmed[u] \/ m.confirmed[u] <= v
         /\ Admitted(m) = Admitted(l)
         /\ Issued(l) => Issued(m)
         /\ Grows(l, m)
<1> DEFINE m == Confirm(l, u, v)
           c == IF v > l.current_version THEN l.current_version ELSE v
           n == IF c > l.confirmed[u] THEN c ELSE l.confirmed[u]
<1>1. l.current_version \in Nat /\ l.confirmed \in [Uids -> Nat]
      /\ l.admission \in [Uids -> Nat]
  BY DEF Ledger
<1>2. m = [l EXCEPT !.confirmed = [l.confirmed EXCEPT ![u] = n]]
  BY <1>1 DEF Confirm, Ledger
<1>3. /\ n \in Nat /\ (l.confirmed[u] <= l.current_version => n <= l.current_version)
      /\ n >= l.confirmed[u] /\ (n = l.confirmed[u] \/ n <= v)
  BY SMT, <1>1
<1> HIDE DEF n, c
<1>4. /\ m \in Ledger
      /\ m.current_version = l.current_version
      /\ m.admission = l.admission
      /\ m.confirmed = [l.confirmed EXCEPT ![u] = n]
  BY SMT, <1>1, <1>2, <1>3 DEF Ledger
<1> HIDE DEF m
<1>5. \A w \in Uids : m.confirmed[w] = IF w = u THEN n ELSE l.confirmed[w]
  BY <1>1, <1>4
<1>6. Admitted(m) = Admitted(l)
  BY <1>4 DEF Admitted
<1>7. Issued(l) => Issued(m)
  BY <1>1, <1>3, <1>4, <1>5 DEF Issued
<1>8. Grows(l, m)
  BY SMT, <1>1, <1>4, <1>6 DEF Grows
<1>9. QED BY <1>3, <1>4, <1>5, <1>6, <1>7, <1>8 DEF m

\* A ledger may grow in two steps.
LEMMA GrowsTwice ==
  ASSUME NEW l \in Ledger, NEW m \in Ledger, NEW n \in Ledger,
         Admitted(l) = Admitted(m), l.admission = m.admission,
         l.current_version = m.current_version, Grows(m, n)
  PROVE  Grows(l, n)
BY DEF Grows

\* The empty ledger is one, and a reset or an empty revocation leaves it empty.
LEMMA EmptyFacts ==
  /\ EmptyLedger \in Ledger
  /\ Issued(EmptyLedger)
  /\ Admitted(EmptyLedger) = {}
  /\ \A S \in SUBSET Uids : ResetConfirmation(EmptyLedger, S) = EmptyLedger
<1>1. EmptyLedger \in Ledger
  BY DEF EmptyLedger, Ledger
<1>2. Issued(EmptyLedger) /\ Admitted(EmptyLedger) = {}
  BY SMT DEF EmptyLedger, Issued, Admitted
<1>3. ASSUME NEW S \in SUBSET Uids
      PROVE  ResetConfirmation(EmptyLedger, S) = EmptyLedger
  BY SMT DEF ResetConfirmation, EmptyLedger
<1>4. QED BY <1>1, <1>2, <1>3

\* Revoking nothing changes nothing.
LEMMA RevokeNothing ==
  ASSUME NEW l \in Ledger
  PROVE  Revoke(l, {}) = l
<1>1. Cardinality(Admitted(l) \cap {}) = 0
  BY SMT, RevokedCount
<1>2. l.current_version \in Nat /\ l.admission \in [Uids -> Nat]
  BY DEF Ledger
<1>3. [u \in Uids |-> IF u \in {} THEN 0 ELSE l.admission[u]] = l.admission
  BY <1>2
<1>4. Revoke(l, {}) = [l EXCEPT !.current_version = l.current_version + 0,
                               !.admission = l.admission]
  BY <1>1, <1>3 DEF Revoke
<1>7. [l EXCEPT !.current_version = l.current_version, !.admission = l.admission]
        = [current_version |-> l.current_version, admission |-> l.admission,
           confirmed |-> l.confirmed]
  BY DEF Ledger
<1>5. l = [current_version |-> l.current_version, admission |-> l.admission,
           confirmed |-> l.confirmed]
  BY DEF Ledger
<1>8. l.current_version + 0 = l.current_version
  BY SMT, <1>2
<1>6. QED BY <1>4, <1>5, <1>7, <1>8

\* Resetting nothing changes nothing.
LEMMA ResetNothing ==
  ASSUME NEW l \in Ledger
  PROVE  ResetConfirmation(l, {}) = l
<1>1. l.confirmed \in [Uids -> Nat]
  BY DEF Ledger
<1>2. [u \in Uids |-> IF u \in {} THEN 0 ELSE l.confirmed[u]] = l.confirmed
  BY <1>1
<1>3. QED BY <1>2 DEF ResetConfirmation, Ledger
=============================================================================
