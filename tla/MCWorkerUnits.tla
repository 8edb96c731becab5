--------------------------- MODULE MCWorkerUnits ---------------------------
(***************************************************************************)
(* Small instances of WorkerUnits: two managed projects and a handful of   *)
(* requests, one of each kind.                                             *)
(***************************************************************************)
EXTENDS WorkerUnits, TLC

CONSTANTS a, b, st, wt, opA, opB, chk, rld, rsv

OpOf ==
  [r \in Requests |->
     CASE r = st         -> "status"
       [] r = wt         -> "wait"
       [] r \in {opA, opB} -> "unit"
       [] r = chk        -> "check"
       [] r = rld        -> "reload"
       [] r = rsv        -> "resolve"]

RouteOf == [r \in Requests |-> IF r = opB THEN b ELSE a]

Names == [u \in Units |-> IF u = a THEN 1 ELSE 2]

\* What a reload may find mapped: nothing, the other project, or both.
Mappings  == {{}, {b}, {a, b}}
Nonempty  == {{b}, {a, b}}
=============================================================================
