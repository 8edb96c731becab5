SPECIFICATION Spec
CONSTANTS
  Files = {f}
  Global = Global
  Shells = {s1, s2}
  Calls = {"reload"}
  Pids = {p1, p2, p3}
  None = None
  FirstList = {}
  Overlapped = FALSE
  ListEdits = FALSE
  MaxEdits = 1
  MaxLost = 0
  MaxFaults = 1
  MaxForeign = 1
INVARIANTS TypeOK OneDaemonPerSet OneDaemonPerFile Served
PROPERTIES StartTellsTheTruth StoppedMeansStopped
SYMMETRY Interchangeable
CHECK_DEADLOCK FALSE
