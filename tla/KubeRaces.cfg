SPECIFICATION Spec
CONSTANTS
    Names = {s1}
    v1 = v1
    Volumes = {v1}
    Reqs = {r1, r2, r3}
    None = None
    Defs <- DefsRaces
    MaxFaults = 1
    MaxCrashes = 1
    MaxInFlight = 3
INVARIANTS IInv LiveServiceIsReadable RollbackIsOwn NoHalfService
PROPERTY ImplementsRegistry
SYMMETRY Symmetry
