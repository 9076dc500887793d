CONSTANTS
    Reqs = {r1}
    Contexts = {c1}
SPECIFICATION FairSpec
PROPERTY
    TimeoutEndsRequests
