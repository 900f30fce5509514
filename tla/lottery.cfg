SPECIFICATION FairSpec
CONSTANTS
    l1 = l1
    l2 = l2
    Users = {u1, u2}
    Lotteries = {l1, l2}
    Workers = {w1, w2}
    NoLottery = none
    NoUser = nobody
    RulesOf <- Overlapping
    NormalWeights = {3, 8}
    MaxEntries = 2
    PaidPoints = 20000
    MaxCredits = 1
    ClockLag = 1
    MaxTime = 2
    MaxCrashes = 1
INVARIANTS PoolPaid WithinBounds TriggerTrue
PROPERTIES  DrawEnds
CHECK_DEADLOCK FALSE
