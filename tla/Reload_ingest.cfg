SPECIFICATION Spec
CONSTANTS
  p = p
  q = q
  a = a
  k = k
  b = b
  s = s
  t = t
  w = w
  None = None
  Units = {p, q}
  Items = {a, k, b}
  Owner <- OwnerOf
  DirItems = {a}
  TargetsOf <- Reach
  Order <- Paths
  Mappings <- Yamls
  FirstMapping <- Wide
  MaxWrites = 1
  MaxEdits = 2
  MaxFaults = 1
INVARIANTS TypeOK UnitsWatchSnapshot FileRowsReadBack NoFrozenMismatch
PROPERTIES DeletesWereSeen
CHECK_DEADLOCK FALSE
