CONSTANTS
    Reqs = {r1, r2}
    Emails = {e1}
    Passwords = {p1}
    Names = {n1, n2}
    Roles = {"user", "admin"}
    ResetTokens = {}
    NoRow = NoRow
    None = None
    MaxRows = 1
    Events = {"register", "profile", "role"}
SPECIFICATION Spec
SYMMETRY Symmetry
PROPERTY
    ProfileUpdatesNames
