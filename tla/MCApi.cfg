CONSTANTS
    Users = {1}
    Roles = {"user", "admin"}
    Admin = "admin"
    NoRow = NoRow
    Reqs = {r1}
    NoToken = NoToken
    AccessTTL = 1
    RefreshTTL = 2
    Ops <- MCOps
    Calm = 3
    MaxIssued = 3
    MaxTime = 2
SPECIFICATION ApiSpec
INVARIANTS
    ApiInv
    AdminsOnly
PROPERTY
    NewTokenReflectsRow
