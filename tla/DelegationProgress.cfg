SPECIFICATION FairSpec
CONSTANTS
    Events = {e1, e2}
    Texts = {}
    Malformed = {e2}
    ReScheduler = ReScheduler
    None = None
    N = 2
    Services <- ServicesProgress
    Levels = {0, 100}
    FreeCPU = {16000}
    MaxTokens = 1
    MaxFaults = 1
    MaxRotations = 1
    MaxCrashes = 0
PROPERTIES EveryInvocationAnswered LateIsDelegated
