SPECIFICATION MCSpec
CONSTANTS
    Servers = {s1, s2}
    Nobody = Nobody
    MaxSn = 3
    MaxMishaps = 1
    Uses <- AllUses
    MaxUses = 3
    LinkMishaps = 1
    QMax = 3
    MaxProcs = 3
    MaxCalls = 2
    ProcMishaps = 1
INVARIANTS NeverStuckSubscribing ActiveMeansReceiving Agree OwnProcess
PROPERTIES JoinedEnds
CHECK_DEADLOCK FALSE
