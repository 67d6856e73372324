SPECIFICATION Spec
CONSTANTS
    Names = {s1, s2}
    v1 = v1
    Volumes = {v1}
    Reqs = {r1, r2, r3}
    None = None
    Defs <- DefsKnative
    MaxFaults = 1
    MaxCrashes = 1
    MaxInFlight = 1
INVARIANTS  DefinitionsAgree NoHalfService
PROPERTY ForeignVolumesKept
SYMMETRY Symmetry
