SPECIFICATION MCSpec
CONSTANTS
    Uids = {b,d1,d2}
    Binder = b
    MaxInstance = 2
    MaxChanges = 3
    MaxBells = 1
    MaxApplied = 1
INVARIANT ReadyMeansAllowed
CHECK_DEADLOCK FALSE
