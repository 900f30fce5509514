SPECIFICATION Spec
CONSTANTS
    o1 = o1
    o2 = o2
    c1 = c1
    c2 = c2
    w1 = w1
    NoOrder = NoOrder
    Orders = {o1, o2}
    Callers = {c1}
    Workers = {w1}
    AdminKeys = {"admin"}
    Scopes = {"supplied", "owned"}
    Mode <- CodeThenPurchase
    InitialBalance = 3
    Price = 2
    Cut = 1
    CodeWindow = 1
    ActivationWindow = 1
    Warranty = 0
    ReadWindow = 1
    StaleAfter = 0
    MaxTime = 2
    MaxFaults = 0
    Ops = {"withdraw", "retry_cleanup"}
INVARIANTS
    TypeOK
    BuyerBalanced
    SupplierBalanced
    LedgerMatchesOrder
    SettlementInStep
PROPERTIES
    ImplementsOrderMoney
CHECK_DEADLOCK FALSE
