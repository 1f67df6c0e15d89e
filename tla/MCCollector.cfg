SPECIFICATION RestrictedSpec
CONSTANTS
  Account = {1, 2, 3}
  MaxAccounts = 2
  Concurrency = 1
  MaxConfig <- SecondChanges
INVARIANTS
  OneTaskPerAccount
  CapacityRespected
  GateAccounts
  OnlyCurrentConfigurations
  ReturnedIsQuiet
PROPERTIES
  CollectableIsCollected
  StaleIsStopped
  StopReturns
CHECK_DEADLOCK FALSE
