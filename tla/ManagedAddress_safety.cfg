\* Two addresses, two saves that meet the daemon anywhere, two changes by the owner.
SPECIFICATION FairSpec
CONSTANTS
  Addrs = {a1, a2}
  NoAddr = NoAddr
  MaxSaves = 2
  MaxOwnerSteps = 2
  MaxFaults = 2
INVARIANTS
  RecordMatchesKernel
PROPERTIES
  ConfiguredAddressKept
  GivenUpAddressKept
  CleanExitRemovesAddress
  ManagedDaemonRuns
CHECK_DEADLOCK FALSE
