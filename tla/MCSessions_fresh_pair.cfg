CONSTANTS
    Users = {1}
    Roles = {"user"}
    r1 = r1
    Reqs = {r1}
    NoToken = NoToken
    AccessTTL = 1
    RefreshTTL = 2
    Ops <- MCOps
    Calm = 0
    MaxIssued = 7
    MaxTime = 1
SPECIFICATION Spec
PROPERTY
    FreshPairUsable
