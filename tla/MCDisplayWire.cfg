SPECIFICATION Spec
CONSTANTS
  Printer = {1}
  Reporting = {1}
  Field <- Fields
  Reports <- Partial
  Binds <- Bound
  Prints <- Progress
  AuthorityWindow = 1
  StaleAfter = 2
  PollLimit = 1
  MaxTime = 3
  MAX_PRINTERS_SHOWN = 3
  EnvelopeBytes = 1
  PrinterBytes = 2
  DetailBytes = 2
  NullBytes = 1
  Ceilings = {7, 8}
INVARIANTS
  SentWithinCeiling
CHECK_DEADLOCK FALSE
