SPECIFICATION Spec
CONSTANTS
    Names = {s1, s2}
    v1 = v1
    Volumes = {v1}
    Reqs = {r1, r2, r3, r4}
    None = None
    Defs <- DefsSequential
    MaxFaults = 0
    MaxCrashes = 0
    MaxInFlight = 1
INVARIANTS NothingLeftBehind DefinitionsAgree
PROPERTY AcceptedCreateIsThere
SYMMETRY Symmetry
