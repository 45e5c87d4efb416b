---------------------------- MODULE MCDataBlock -----------------------------
(***************************************************************************)
(* Small instances of DataBlock for TLC.                                   *)
(***************************************************************************)
EXTENDS DataBlock, TLC

CONSTANT MaxShortId   \* bound: slot_ids claimed under Latest_only and once a
                      \* consumer died

ProcessSymmetry == Permutations(Consumers) \cup Permutations(Writers)

\* A Latest_only block whose producer dies with one consumer attached or that
\* loses a consumer, with the heartbeat table filled from its start, and ordered
\* blocks whose producer lives.
Bounded ==
    /\ policy = "Latest_only" \/ DeadConsumers # {} => write_index <= MaxShortId + 1
    /\ policy = "Latest_only" =>
          /\ DeadProducers # {} => \A c \in Consumers : cpc[c] # "dead"
                                   /\ \E d \in Consumers : cpc[d] = "detached"
          /\ consumer_pid[0] = NoPid => consumer_pid[1] = NoPid
    /\ policy # "Latest_only" => DeadProducers = {}

BoundedStep == Bounded'
=============================================================================
