SPECIFICATION FairSpec
CONSTANTS
  InboundIdleChecks = 3
  MaxReports = 2
  MaxBuffered = 2
PROPERTIES
  SubscribedIsKept
  ImplementsSubscription
  HandshakeEnds
  SilenceEnds
  StopEnds
CHECK_DEADLOCK FALSE
