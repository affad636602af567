\* One operation under fairness, three daemon processes, two faults; no symmetry.
SPECIFICATION FairSpec
CONSTANTS
  Requests = {r1}
  NoRequest = NoRequest
  Pids = {p1, p2, p3}
  NoPid = NoPid
  Revs = {"both"}
  Wants <- MCWants
  NoSettings = NoSettings
  StablePolls = 2
  MaxFaults = 2
PROPERTIES
  LockIsReleased
  ServiceRecovers
  FailureIsTold
CHECK_DEADLOCK FALSE
