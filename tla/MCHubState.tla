----------------------------- MODULE MCHubState -----------------------------
(***************************************************************************)
(* A small instance of HubState for TLC: a channel with two producers and  *)
(* a consumer that register, attach, confirm and leave.                    *)
(***************************************************************************)
EXTENDS HubState, TLC, FiniteSetsExt

CONSTANTS
    p1, p2, c1, s1,
    MaxVersion,         \* ledger version a channel may reach
    MaxInstance,        \* registrations of one producer
    MaxRegistrations    \* producer registrations in one behaviour

MCProducerOf == [k \in Channels |-> {p1, p2}]
MCConsumerOf == [k \in Channels |-> {c1}]
MCCites == [u \in Uids |->
               IF u \in {p1, p2} THEN {NoCitation, [hash |-> s1, owner |-> u]}
                                 ELSE {}]
MCExpects == [u \in Uids |-> {NoCitation}]

RoleSymmetry == Permutations({p1, p2})

MCNext ==
    /\ HubNext
    /\ \A k \in Channels : access'[k].current_version <= MaxVersion
    /\ \A u \in Uids : producer_instance'[u] <= MaxInstance
    /\ MapThenSumSet(LAMBDA u : producer_instance'[u], Uids) <= MaxRegistrations

MCSpec == HubInit /\ [][MCNext]_hubVars
=============================================================================
