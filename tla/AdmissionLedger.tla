-------------------------- MODULE AdmissionLedger ---------------------------
(***************************************************************************)
(* VersionedAdmissionLedger (src/include/utils/                            *)
(* versioned_admission_ledger.hpp): which public keys a channel admits, at *)
(* which version each was admitted, and up to which version each role has  *)
(* confirmed that its local allowlist is applied.  A role has one key, so  *)
(* keys and roles are both named by the role's uid.  Version 0 stands for  *)
(* "no entry": real admissions start at 1, and the code reads an absent    *)
(* confirmation as 0.                                                      *)
(***************************************************************************)
EXTENDS Integers, FiniteSets

CONSTANT Uids    \* role uids; uid u also names the public key of role u

ASSUME UidsAssumption == IsFiniteSet(Uids)

Ledger == [current_version : Nat, admission : [Uids -> Nat],
           confirmed : [Uids -> Nat]]

EmptyLedger == [current_version |-> 0, admission |-> [u \in Uids |-> 0],
                confirmed |-> [u \in Uids |-> 0]]

Admitted(l) == {u \in Uids : l.admission[u] # 0}

\* admit: idempotent; a new key is stamped with the version that admits it.
Admit(l, u) ==
    IF l.admission[u] # 0 THEN l
    ELSE [l EXCEPT !.current_version = @ + 1,
                   !.admission[u] = l.current_version + 1]

\* Variant: a revocation takes the version back instead of issuing a new one.
RevokeRollsBack(l, S) ==
    [l EXCEPT !.current_version = @ - Cardinality(Admitted(l) \cap S),
              !.admission = [u \in Uids |-> IF u \in S THEN 0 ELSE l.admission[u]]]

\* revoke of every key of S: the version grows once per key that was there.
Revoke(l, S) ==
    [l EXCEPT !.current_version = @ + Cardinality(Admitted(l) \cap S),
              !.admission = [u \in Uids |-> IF u \in S THEN 0 ELSE l.admission[u]]]

\* confirm: clamped to the current version, and never backwards.
Confirm(l, u, applied) ==
    LET clamped == IF applied > l.current_version THEN l.current_version
                                                  ELSE applied
    IN  [l EXCEPT !.confirmed[u] = IF clamped > @ THEN clamped ELSE @]

\* reset_role_confirmation of every role of S.
ResetConfirmation(l, S) ==
    [l EXCEPT !.confirmed = [u \in Uids |-> IF u \in S THEN 0 ELSE @[u]]]
=============================================================================
