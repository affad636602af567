\* One field besides the on/off state; two posts, two edits, two faults.
SPECIFICATION FairSpec
CONSTANTS
  Fields = {"enabled", "name"}
  Settings <- MCSettings
  Garbled = Garbled
  NoFile = NoFile
  MaxPosts = 2
  MaxEdits = 2
  MaxFaults = 2
INVARIANTS
  ConfirmedStays
PROPERTIES
  DraftIsTheUsers
  ImplementsSettingsFile
  PageShowsTheRouter
CHECK_DEADLOCK FALSE
