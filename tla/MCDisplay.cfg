SPECIFICATION Spec
CONSTANTS
  Printer = {1, 2, 3}
  Reporting = {1, 3}
  Field <- Fields
  Reports <- Partial
  Binds <- Bound
  Prints <- Progress
  AuthorityWindow = 1
  StaleAfter = 1
  PollLimit = 1
  MaxTime = 2
  MAX_PRINTERS_SHOWN = 2
  EnvelopeBytes = 1
  PrinterBytes = 2
  DetailBytes = 1
  NullBytes = 1
  Ceilings = {2, 5, 6, 9}
INVARIANTS
  LastWordKept
  FreshnessIsTrue
  FinishedIsLive
  FirstThatFits
CHECK_DEADLOCK FALSE
