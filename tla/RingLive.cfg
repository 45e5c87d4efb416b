SPECIFICATION FairSpec
CONSTANTS
    Cap = 2
    Slots = {0, 1}
    Ids = {0, 1, 2}
    MaxSlotId = 2
    MaxShortId = 0
    HbCount = 1
    Writers = {p1}
    Readers = {c1, c2}
    CWriters = {}
    NoPid = NoPid
    Policies = {"Latest_only", "Sequential"}
    ChecksumEnforced = FALSE
    LateJoin = TRUE
    MaxDeadProducers = 0
    MaxDeadConsumers = 0
PROPERTIES
    DrainTerminates
    EveryCommitConsumed
CHECK_DEADLOCK FALSE
