SPECIFICATION MCSpec
CONSTANTS
    Processor = TRUE
    Scenarios = {"addresses"}
    TagOf <- MCTagOf
    KnownRoles <- MCUids
    Uids <- MCUids
    Channels <- MCChannels
    Bands <- MCBands
    Requests <- MCRequests
    Skews = {FALSE}
    Patient = {"proc1"}
    MaxSent = 4
    MaxOrders = 1
INVARIANT HeartbeatsCount
CHECK_DEADLOCK FALSE
