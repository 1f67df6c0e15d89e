SPECIFICATION Spec
CONSTANTS
  Install = {i1, i2}
  Settled = {i2}
  Request = {r1, r2}
  Cron = {c1}
  BatchLimit = 2
  MaxId = 3
SYMMETRY AnyRequest
INVARIANTS
  TokenOfRegion
  AccountIsReachable
  DeletionIsComplete
CHECK_DEADLOCK FALSE
