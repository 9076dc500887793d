CONSTANTS
    Reqs = {r1}
    Emails = {e1}
    Passwords = {p1}
    Names = {n1}
    Roles = {"user", "admin"}
    ResetTokens = {t1}
    NoRow = NoRow
    None = None
    MaxRows = 1
    Events = {"register", "forgot"}
SPECIFICATION Spec
INVARIANT
    MailIsAddressed
