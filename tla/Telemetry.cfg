\* Twice as many probes as slots; the two of the modem can take all slots.
SPECIFICATION Spec
CONSTANTS
  m1 = m1
  m2 = m2
  swan = swan
  api = api
  Modem = {m1, m2}
  Plain = {swan, api}
  Swan = swan
  Api = api
  Slots = 2
  RoundTime = 2
  CommandTime = 2
  ViewTime = 1
  PauseTime = 1
INVARIANTS
  SnapshotIsRecent
  ConnectedWasUp
