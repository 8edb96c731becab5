SPECIFICATION Spec
CONSTANTS
  p = p
  q = q
  a = a
  k = k
  b = b
  s = s
  t = t
  w = w
  None = None
  Units = {p, q}
  Items = {a, k, b}
  Owner <- OwnerOf
  DirItems = {a}
  TargetsOf <- Reach
  Order <- Paths
  Mappings <- Yamls
  FirstMapping <- Wide
  MaxWrites = 2
  MaxEdits = 0
  MaxFaults = 1
PROPERTIES DeletesEnd
CHECK_DEADLOCK FALSE
