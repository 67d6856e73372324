SPECIFICATION Spec
CONSTANTS
    Names = {n1, n2}
    Volumes = {n1}
    n1 = n1
    n2 = n2
    Sizes = {2}
    Bodies <- SomeBodies
    Asks <- SomeAsks
    Starts <- SomeStarts
    Defaults <- SomeDefaults
    DefaultCPU = 2
    DefaultMemory = 2
    BaseSize = 1
    None = None
    Bad = Bad
    MaxReqs = 3
    MaxFaults = 1
    MaxRestarts = 1
    MaxEvents = 3

PROPERTY CredentialsWork
