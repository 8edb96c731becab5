SPECIFICATION Spec
CONSTANTS
  hub = hub
  a = a
  b = b
  Hub = hub
  Targets <- TwoTargets
  Order <- HubFirst
  Kinds <- Shared
  Spellings <- AllPaths
  Namesakes <- Maybe
  MaxWrites = 1
  MaxEdits = 1
  MaxShells = 2
  MaxFaults = 1
INVARIANT TypeOK
INVARIANT ExcludesFollowMapping
INVARIANT RowsFollowMapping
INVARIANT CopiesFollowMapping
PROPERTY CopiesKept
CONSTRAINT NothingUndone
CHECK_DEADLOCK FALSE
