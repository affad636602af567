\* Two services on one host, too few places for their names and for themselves.
SPECIFICATION Spec
CONSTANTS
  m1 = m1
  m2 = m2
  printer = printer
  h = h
  ph = ph
  a1 = a1
  a2 = a2
  MFDs <- MFDsVal
  Printer = printer
  HostOf <- HostOfVal
  IPs = {a1}
  Nothing = Nothing
  Lists <- ListsVal
  TTLs = {0, 3}
  MaxTTL = 2
  MaxNames = 2
  MaxObs = 1
  MaxHosts = 1
INVARIANTS
  NothingLeaks
  DetectionIsAnnounced
  AnnouncementIsDetected
  AnnouncedHostIsKnown
