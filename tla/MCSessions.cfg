CONSTANTS
    Users = {1}
    Roles = {"user"}
    r1 = r1
    Reqs = {r1, r2}
    NoToken = NoToken
    AccessTTL = 1
    RefreshTTL = 2
    Ops <- MCOps
    Calm = 1
    MaxIssued = 3
    MaxTime = 2
SPECIFICATION Spec
INVARIANTS
    IInv
    NoLateGrant
    KeyOutlivesToken
    ForeverOnlyIfExpired
    SuccessRevokes
    OutageDenies
PROPERTIES
    NewTokenNotListed
    ImplementsGate
