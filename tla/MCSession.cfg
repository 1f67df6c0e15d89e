SPECIFICATION FairSpec
CONSTANTS
  MaxReports = 5
  MaxSessions = 3
INVARIANTS
  NewestIsRendered
PROPERTIES
  NoWriteBeginsHalted
  OnlyLeftBehindTurnsBack
  ObservedIsRendered
  HaltEndsSession
CHECK_DEADLOCK FALSE
