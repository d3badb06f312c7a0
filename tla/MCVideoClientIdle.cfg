SPECIFICATION MCSpec
CONSTANTS
    Servers = {s1}
    Nobody = Nobody
    MaxSn = 1
    MaxMishaps = 0
    Uses <- AllUses
    MaxUses = 1
    LinkMishaps = 0
    QMax = 1
    MaxProcs = 1
    MaxCalls = 0
    ProcMishaps = 0
INVARIANTS IdleGrants
CHECK_DEADLOCK FALSE
