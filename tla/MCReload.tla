------------------------------ MODULE MCReload ------------------------------
(***************************************************************************)
(* Small instances of Reload: project p maps the items a and k onto two    *)
(* targets, project q its item b onto one.  The yaml file may also narrow  *)
(* a and leave q out, or map nothing.                                      *)
(***************************************************************************)
EXTENDS Reload

CONSTANTS p, q, a, k, b, s, t, w

OwnerOf == [i \in Items |-> IF i = b THEN q ELSE p]
Reach   == [u \in Units |-> IF u = p THEN {s, t} ELSE {w}]
Paths   == <<p, q, s, t, w>>

Map(sa, sk, sb) == [i \in Items |-> CASE i = a -> sa [] i = k -> sk [] i = b -> sb]

Wide    == Map({s, t}, {s}, {w})
Yamls   == {Wide, Map({t}, {s}, {}), Map({}, {}, {})}
=============================================================================
