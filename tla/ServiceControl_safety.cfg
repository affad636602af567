\* Two overlapping operations, three daemon processes, one fault.
SPECIFICATION Spec
CONSTANTS
  Requests = {r1, r2}
  NoRequest = NoRequest
  Pids = {p1, p2, p3}
  NoPid = NoPid
  Revs = {"both", "none"}
  Wants <- MCWants
  NoSettings = NoSettings
  StablePolls = 3
  MaxFaults = 1
SYMMETRY Symmetry
INVARIANTS
  OneOperation
  AppliesWhatItSaved
  ReportIsCurrent
  OneDaemon
  RuntimeIsCurrent
  StoppedIsFinal
PROPERTIES
  DoneIsServed
  ImplementsSingleOperation
CHECK_DEADLOCK FALSE
