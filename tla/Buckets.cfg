SPECIFICATION Spec
CONSTANTS
    u1 = u1
    u2 = u2
    b1 = b1
    b2 = b2
    p1 = p1
    nobody = nobody
    Users = {u1, u2}
    Strangers = {nobody}
    Names = {b1, b2, p1}
    BucketOf <- FirstPart
    Services = {s1}
    None = None
    AllUsers = AllUsers
    CfgName = CfgName
    DefaultOwner = DefaultOwner
    Nobody = Nobody
    MaxReqs = 3
    BucketAsks <- SomeAsks
    ServiceDefs <- SomeServices
    MaxFaults = 1
    MaxEvents = 3
INVARIANTS TypeOK
PROPERTIES OthersUntouched AccessAsAsked DeleteForgets 
    AcceptedServiceReady DeletedServiceGone
