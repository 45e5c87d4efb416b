SPECIFICATION Spec
CONSTANTS
    Slots = {s1}
    Writers = {w1, w2}
    Readers = {r1, r2}
    NoPid = NoPid
    Ids = {1, 2}
    CWriters = {w2}
    Concurrent = FALSE
    MaxGeneration = 2
    MaxDead = 1
INVARIANTS
    SlotProtocol
    AttachedAgree
    InboxKeepsOrder
    
    
    AttachIsGranted
    AdmissionOutlivesDecision
    
    VaultKeepsEdits
    
    SetupIsUndone
PROPERTIES
    GenerationGrowsUnderWriting
    PipeStaysInStep
CHECK_DEADLOCK FALSE
