SPECIFICATION FairSpec
CONSTANTS
    Names = {s1}
    v1 = v1
    Volumes = {v1}
    Reqs = {r1, r2}
    None = None
    Defs <- DefsAll
    MaxFaults = 2
    MaxCrashes = 1
    MaxInFlight = 2
PROPERTY EveryRequestAnswered
