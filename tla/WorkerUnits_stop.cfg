SPECIFICATION FairSpec
CONSTANTS
  a = a
  b = b
  st = st
  wt = wt
  opA = opA
  opB = opB
  chk = chk
  rld = rld
  rsv = rsv
  NoOne = NoOne
  Units = {a, b}
  Requests = {rld, opA, rsv}
  Op <- OpOf
  UnitOf <- RouteOf
  Rank <- Names
  Mapped = {a, b}
  Reloads <- Nonempty
  MayStop = TRUE
  MaxRaised = 1
  MayDie = TRUE
PROPERTIES StopEnds
CHECK_DEADLOCK FALSE
