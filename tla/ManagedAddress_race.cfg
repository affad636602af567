\* A save that meets a daemon in its start or its cleanup; nothing fails.
SPECIFICATION Spec
CONSTANTS
  Addrs = {a1, a2}
  NoAddr = NoAddr
  MaxSaves = 2
  MaxOwnerSteps = 0
  MaxFaults = 0
PROPERTY RelinquishedAddressKept
CHECK_DEADLOCK FALSE
