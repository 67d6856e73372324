SPECIFICATION Spec
CONSTANTS
    Names = {s1}
    v1 = v1
    Volumes = {v1}
    Reqs = {r1, r2}
    None = None
    Defs <- DefsAll
    MaxFaults = 0
    MaxCrashes = 0
    MaxInFlight = 1
PROPERTY ApiVolumesKept
