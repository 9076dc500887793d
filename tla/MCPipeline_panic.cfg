CONSTANTS
    Reqs = {r1}
    Contexts = {c1}
SPECIFICATION Spec
PROPERTY
    PanicsAreCaught
