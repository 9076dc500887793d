CONSTANTS
    Reqs = {r1, r2}
    Emails = {e1}
    Passwords = {p1}
    Names = {n1}
    Roles = {"user", "admin"}
    ResetTokens = {t1}
    NoRow = NoRow
    None = None
    MaxRows = 2
    Events = {"register", "profile", "password", "role", "forgot", "reset", "expire", "delete"}
SPECIFICATION Spec
SYMMETRY Symmetry
INVARIANTS
    IInv
    EmailUnique
    AdminsWerePromoted
    ResetNeedsKey
    ResetSpendsToken
PROPERTIES
    ImplementsDirectory
    LostUpdateNeedsOverlap
    ResetLinkIsStored
