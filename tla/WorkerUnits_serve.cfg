SPECIFICATION FairSpec
CONSTANTS
  a = a
  b = b
  st = st
  wt = wt
  opA = opA
  opB = opB
  chk = chk
  rld = rld
  rsv = rsv
  NoOne = NoOne
  Units = {a, b}
  Requests = {wt, opA, chk, rld}
  Op <- OpOf
  UnitOf <- RouteOf
  Rank <- Names
  Mapped = {a}
  Reloads <- Mappings
  MayStop = FALSE
  MaxRaised = 1
  MayDie = FALSE
INVARIANTS TypeOK NothingBeforeReady AnswerIsFinal MappedAreObserved
PROPERTIES CheckIsComplete EveryRequestAnswered
