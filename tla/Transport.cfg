SPECIFICATION TransportSpec
CONSTANTS
    d1 = d1 d2 = d2 w1 = w1 w2 = w2 r1 = r1 r2 = r2
    Uids = {b, d1, d2}
    Binder = b
    MaxInstance = 2
    MaxChanges = 3
    MaxBells = 1
    MaxApplied = 1
    Writers = {w1, w2}
    Readers = {r1, r2}
    SendDepth = 2
    RecvDepth = 2
    Hwm = 1
    MaxItems = 4
    MaxSharedItems = 2
    MaxStops = 1
    MaxFaults = 1
INVARIANTS
    AuthInStep
    QueueAccounts
PROPERTIES
    QueueContract
    TransportMoves
CHECK_DEADLOCK FALSE
