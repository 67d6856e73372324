SPECIFICATION Spec
CONSTANTS
    u1 = u1
    u2 = u2
    b1 = b1
    b2 = b2
    p1 = p1
    nobody = nobody
    Users = {u1, u2}
    Strangers = {}
    Names = {b1, b2}
    BucketOf <- Same12
    Services = {s1}
    None = None
    AllUsers = AllUsers
    CfgName = CfgName
    DefaultOwner = DefaultOwner
    Nobody = Nobody
    MaxReqs = 3
    BucketAsks <- PrivateAsk
    ServiceDefs <- IsolatedService
    MaxFaults = 0
    MaxEvents = 3
PROPERTY ServiceDeleteKeepsOthers
