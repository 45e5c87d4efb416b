SPECIFICATION MCSpec
CONSTANTS
    Processor = FALSE
    Scenarios = {"bands", "addresses", "sweeps", "queries"}
    TagOf <- MCTagOf
    KnownRoles <- MCUids
    Uids <- MCUids
    Channels <- MCChannels
    Bands <- MCBands
    Requests <- MCRequests
    Skews = {FALSE, TRUE}
    Patient = {"prod1"}
    MaxSent = 4
    MaxOrders = 1
INVARIANTS  BandsAgree RegistrationsAgree EndpointsAgree
CHECK_DEADLOCK FALSE
