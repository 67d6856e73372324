SPECIFICATION Spec
CONSTANTS
    Events = {e1, e2}
    Texts = {e2}
    Malformed = {}
    ReScheduler = ReScheduler
    None = None
    N = 2
    Services <- ServicesAll
    Levels = {0, 100}
    FreeCPU = {0, 40000}
    MaxTokens = 1
    MaxFaults = 1
    MaxRotations = 1
    MaxCrashes = 1
INVARIANTS IInv AcceptedIsHeld OnePlaceOnly
PROPERTY DelegationFindsReplica
