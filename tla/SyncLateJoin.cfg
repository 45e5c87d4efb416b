SPECIFICATION Spec
CONSTANTS
    Cap = 2
    Slots = {0, 1}
    Ids = {0, 1, 2, 3}
    MaxSlotId = 3
    MaxShortId = 0
    HbCount = 2
    Writers = {p1}
    Readers = {c1, c2}
    CWriters = {}
    NoPid = NoPid
    Policies = {"Sequential_sync"}
    ChecksumEnforced = FALSE
    LateJoin = TRUE
    MaxDeadProducers = 0
    MaxDeadConsumers = 0
INVARIANTS
    WriterNeverReachesHeldSlot
SYMMETRY ProcessSymmetry
CHECK_DEADLOCK FALSE
