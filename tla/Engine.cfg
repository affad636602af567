\* Three sockets, two faults.
SPECIFICATION FairSpec
CONSTANTS
  Eps = {e1, e2, e3}
  Axiom = e1
  MaxFaults = 2
INVARIANTS
  NothingOutlivesMain
  NoFalseAlarm
PROPERTIES
  EngineStops
  FailureEndsDaemon
CHECK_DEADLOCK FALSE
