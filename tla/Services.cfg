SPECIFICATION ServicesSpec
CONSTANTS
    Callers = {"ctrl", "admin"}
    MaxCalls = 2
    MaxIncoming = 1
    MaxOrders = 1
    Users = {"u1", "u2"}
    MaxQueue = 1
    Binaries = {"role", "hub"}
    MaxSignals = 4
    MaxUnloads = 2
INVARIANTS
    
    LoggerKeeps
    LoadedKeepsDependencies
    ShutdownIsAsked
PROPERTIES
    WaitsEnd
CHECK_DEADLOCK FALSE
