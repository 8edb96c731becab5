SPECIFICATION Spec
CONSTANTS
  hub = hub
  app1 = app1
  app2 = app2
  f1 = f1
  f2 = f2
  lk = lk
  dir = dir
  absent = absent
  Hub = hub
  Replicas = {app1, app2}
  Rank <- HubMiddle
  Files = {f1, f2}
  Links = {}
  Dir = dir
  Absent = absent
  Writable = {f1, f2, dir, absent}
  DELETE_WINDOW = 0
  MaxEdits <- Edits121
  Racing = TRUE
INVARIANTS TypeOK OosFlagMatchesRow
PROPERTIES IsolatedUntouched HubBytesAccounted FanOutKeepsBytes DeletePastWindowHeld
CHECK_DEADLOCK FALSE
