\* Two operations, two faults; the limits are one more than the whole time.
SPECIFICATION FairSpec
CONSTANTS
  StartTime = 1
  ScriptTime = 1
  StopTime = 1
  ReadyTime = 1
  StatusLimit = 7
  PageLimit = 7
  PollTime = 1
  PostTime = 1
  MaxOps = 2
  MaxFaults = 2
INVARIANTS
  NoFalseFailure
  ConfirmedIsAwaited
PROPERTIES
  PageBecomesUsable
CHECK_DEADLOCK FALSE
