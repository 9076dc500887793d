CONSTANTS
    Reqs = {r1, r2}
    Clients = {c1}
    Servers = {s1}
    Redis = Redis
    Limit = 2
    Window = 2
    Attempts = 2
    Burst = 4
SPECIFICATION Spec
SYMMETRY Symmetry
INVARIANTS
    LimiterInv
    WindowBudget
PROPERTY
    RefusedForOwn
