SPECIFICATION FairSpec
CONSTANTS
  Install = {i1, i2}
  Settled = {i2}
  Request = {r1}
  Cron = {c1}
  BatchLimit = 1
  MaxId = 2
PROPERTIES
  StaleIsServiced
CHECK_DEADLOCK FALSE
