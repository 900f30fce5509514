SPECIFICATION Spec
CONSTANTS
    o1 = o1
    o2 = o2
    o3 = o3
    d1 = d1
    d2 = d2
    u1 = u1
    u2 = u2
    Orders = {o1, o2, o3}
    Workers = {w1, w2}
    Domains = {d1, d2}
    Locals = {a}
    Users = {u1, u2}
    Project <- Projects
    Buyer <- Buyers
    ScopesOf <- Policies
    FirstOwner <- Owners
    FirstPurpose <- AtFirst
    DailyLimit <- Limits
    Managed = {d1}
    MaxDays = 1
    MaxEvents = 3
INVARIANTS  ServedAddressKept
PROPERTIES ImplementsContract
SYMMETRY Interchangeable
CHECK_DEADLOCK FALSE
