CONSTANTS
    Reqs = {r1, r2}
    Contexts = {c1, c2}
SPECIFICATION FairSpec
INVARIANTS
    IInv
    OneWholeAnswer
    OwnAnswer
PROPERTIES
    ImplementsAnswers
    EveryRequestEnds
