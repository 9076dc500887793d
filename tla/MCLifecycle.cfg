CONSTANTS
    Instances = {1, 2}
    Nobody = 0
    Reqs = {r1}
    Mails = {m1}
    Configs <- MCConfigs
    Latest = 1
    Attempts = 2
    Grace = 1
    Longest = 1
    MaxFaults = 2
SPECIFICATION FairSpec
INVARIANTS
    LifeInv
    ServesReady
    DirtyNeedsAccident
    CutWasLong
    MailTruth
PROPERTIES
    EventuallyServes
    ShutdownEnds
