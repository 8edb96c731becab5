SPECIFICATION FairSpec
CONSTANTS
  hub = hub
  app1 = app1
  app2 = app2
  f1 = f1
  f2 = f2
  lk = lk
  dir = dir
  absent = absent
  Hub = hub
  Replicas = {app1, app2}
  Rank <- HubMiddle
  Files = {f1, f2}
  Links = {lk}
  Dir = dir
  Absent = absent
  Writable = {f1, f2, lk, dir, absent}
  DELETE_WINDOW = 1
  MaxEdits <- Edits221
  Racing = FALSE
INVARIANTS NoSilentDivergence InSyncRowsAgree IsolationNeedsTwoWriters
PROPERTIES TickEnds Converges FanOutKeepsBytes
