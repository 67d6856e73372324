SPECIFICATION Spec
CONSTANTS
    Reqs = {r1, r2, r3}
    Defs <- SomeDefs
    Configs <- SomeConfigs
    None = None
    MaxFaults = 1
    MaxRestarts = 1
    MaxTrouble = 2
INVARIANTS TypeOK RunsOnlyIfAdmitted
PROPERTIES RemovedIsGone AcceptedIsServed UndoRestores
SYMMETRY Symmetry
