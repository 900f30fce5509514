SPECIFICATION Spec
CONSTANTS
  Servers = {s1, s2}
  Requests = {r1, r2}
  Editors = {e1, e2}
  None = None
  Never = Never
  Created <- Fresh
  Changes <- OwnersChanges
  GroupLimit = 1
  MetaTTL = 1
  LeaseTTL = 1
  Lag = 1
  MaxTime = 2
  MaxCrashes = 1
INVARIANTS SlotsKept QuotaTrue
PROPERTIES  SpendsWhileOpen
SYMMETRY Interchangeable
CHECK_DEADLOCK FALSE
