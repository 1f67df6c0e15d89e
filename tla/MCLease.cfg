SPECIFICATION MCSpec
CONSTANTS
  p1 = p1
  p2 = p2
  p3 = p3
  b1 = b1
  b2 = b2
  b3 = b3
  probe = probe
  NoBackend = NoBackend
  Process <- ThreeProcesses
  Backend <- Backends
  Route <- DirectRoute
  ProbeRoute <- MixedProbe
  SessionsMayDrop = TRUE
INVARIANTS
  LockCoversCollection
  MultiplexedNeverCollects
  CleanExitWasAsked
PROPERTIES
  ImplementsCollectionLease
  LossStopsCollection
  StandbyTakesOver
  StopEnds
CHECK_DEADLOCK FALSE
