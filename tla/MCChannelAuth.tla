--------------------------- MODULE MCChannelAuth ----------------------------
(***************************************************************************)
(* Small instances of ChannelAuth for TLC.                                 *)
(***************************************************************************)
EXTENDS ChannelAuth

CONSTANTS
    MaxInstance,    \* registrations of the binding role
    MaxChanges,     \* registrations plus the version the ledger may reach
    MaxBells,       \* doorbells under way
    MaxApplied      \* applied requests under way

MCNext ==
    /\ Next
    /\ instance' <= MaxInstance
    /\ instance' + access'.current_version <= MaxChanges
    /\ bells' <= MaxBells /\ Cardinality(applied') <= MaxApplied

MCSpec == Init /\ [][MCNext]_vars /\ Fairness
=============================================================================
