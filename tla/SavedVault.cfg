SPECIFICATION VaultSpec
CONSTANTS
    Commands = {a}
    Uids = {u1, u2}
    Keys = {k1, k2}
    LegacyRoles = {}
    Capacity = 1
    Overlap = FALSE
    MaxRuns = 3
INVARIANT SavedVaultOpens
CHECK_DEADLOCK FALSE
