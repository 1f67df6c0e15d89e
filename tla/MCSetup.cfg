SPECIFICATION SetupSpec
CONSTANTS
  Process = {r1, r2}
  Setting = {s1, s2}
  NoFile = NoFile
  Torn = Torn
  MaxEdits = 1
SYMMETRY Alike
INVARIANTS
  SettingsSurvive
  NeverOutOfStep
PROPERTIES
  RunsAreShort
CHECK_DEADLOCK FALSE
