SPECIFICATION Spec
CONSTANTS
  hub = hub
  a = a
  b = b
  Hub = hub
  Targets <- TwoTargets
  Order <- HubFirst
  Kinds <- LastFile
  Spellings <- NameOnly
  Namesakes <- Never
  MaxWrites = 1
  MaxEdits = 1
  MaxShells = 1
  MaxFaults = 0
PROPERTY NewSubpathIsInstalled
CHECK_DEADLOCK FALSE
