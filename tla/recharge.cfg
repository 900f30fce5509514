SPECIFICATION FairSpec
CONSTANTS
    r1 = r1
    r2 = r2
    Recharges = {r1, r2}
    Epusdt = {r1, r2}
    Workers = {w1, w2}
    Trades = {t1}
    NoRecharge = none
    Quota = 2
    Window = 2
    Lease = 1
    CallbackDelay = 1
    EpusdtDelay = 0
    FastInterval = 1
    SlowInterval = 1
    FastLimit = 1
    MaxPending = 1
    ClockLag = 1
    MaxTime = 3
    MaxCrashes = 1
INVARIANTS LeaseKept EndedForCause 
PROPERTIES AnswerCounts ImplementsContract RechargeEnds
CHECK_DEADLOCK FALSE
