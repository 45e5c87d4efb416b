SPECIFICATION MCSpec
CONSTANTS
    p1 = p1
    p2 = p2
    c1 = c1
    s1 = s1
    Uids = {p1, p2, c1}
    Channels = {k1}
    ProducerOf <- MCProducerOf
    ConsumerOf <- MCConsumerOf
    Bands = {}
    BandUsers = {}
    Schemas = {s1}
    NoSchema = NoSchema
    HubSchemas = {}
    Anonymous = Anonymous
    Hub = Hub
    Cites <- MCCites
    Expects <- MCExpects
    Versions = {1, 3}
    MaxPending = 2
    MaxVersion = 3
    MaxInstance = 2
    MaxRegistrations = 2
INVARIANTS
    HubIsConsistent
    AllowlistIsRoster
    ConfirmationsAreCurrent
PROPERTY
    VersionsGrow
SYMMETRY RoleSymmetry
