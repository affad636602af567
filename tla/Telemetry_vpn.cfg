\* As in Telemetry.cfg, for what the page says of a tunnel that is up.
SPECIFICATION Spec
CONSTANTS
  m1 = m1
  m2 = m2
  swan = swan
  api = api
  Modem = {m1, m2}
  Plain = {swan, api}
  Swan = swan
  Api = api
  Slots = 2
  RoundTime = 2
  CommandTime = 2
  ViewTime = 1
  PauseTime = 1
INVARIANTS
  DisconnectedWasDown
