CONSTANTS
  Provider = "desec"
  Syncers = {s1,s2}
  Ids = {1,2,3,4,5}
  MaxEdits = 1
  MaxFaults = 1
  Settings <- MCSettings
SPECIFICATION Spec
PROPERTIES SyncSparesOthers
CHECK_DEADLOCK FALSE
