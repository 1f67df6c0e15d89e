SPECIFICATION FairSpec
CONSTANTS
  Hour = 12
  Heartbeat = 6
  MaxPushes = 3
  MaxDelay = 1
  Body = {b1, b2, large}
  TooLarge = {large}
PROPERTIES
  KeepsBudget
  ViewIsShown
  HeartbeatIsSent
  BridgeEnds
CHECK_DEADLOCK FALSE
