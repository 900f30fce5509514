SPECIFICATION FairSpec
CONSTANTS
    o1 = o1
    o2 = o2
    c1 = c1
    c2 = c2
    w1 = w1
    NoOrder = NoOrder
    Orders = {o1}
    Callers = {c1}
    Workers = {w1}
    AdminKeys = {"admin"}
    Scopes = {"supplied"}
    Mode <- AllPurchases
    InitialBalance = 2
    Price = 2
    Cut = 1
    CodeWindow = 1
    ActivationWindow = 1
    Warranty = 3
    ReadWindow = 1
    StaleAfter = 1
    MaxTime = 5
    MaxFaults = 0
    Ops = {"ticket", "break", "terminate", "retry_cleanup"}
INVARIANTS
    ServedHasMailbox
    DisputeHoldsMoney
    ServedToTheEnd
    MatchNeverRefused
PROPERTIES
    PurchaseEnds
    SupplierSettled
CHECK_DEADLOCK FALSE
