SPECIFICATION Spec
CONSTANTS
    Cap = 2
    Slots = {0, 1}
    Ids = {0, 1, 2, 3}
    MaxSlotId = 3
    MaxShortId = 2
    HbCount = 2
    Writers = {p1, p2}
    Readers = {c1, c2}
    CWriters = {}
    NoPid = NoPid
    Policies = {"Latest_only", "Sequential", "Sequential_sync"}
    ChecksumEnforced = TRUE
    LateJoin = FALSE
    MaxDeadProducers = 1
    MaxDeadConsumers = 1
INVARIANTS
    ReadsAreStable
    LatestReads
    OrderedReads
PROPERTIES
    AdvancesByOne
    SlotSpec
ACTION_CONSTRAINT BoundedStep
SYMMETRY ProcessSymmetry
CHECK_DEADLOCK FALSE
