---------------------------- MODULE MCLiveSync ----------------------------
(***************************************************************************)
(* Small instances of LiveSync: one managed project with two targets.      *)
(***************************************************************************)
EXTENDS LiveSync, TLC

CONSTANTS hub, app1, app2, f1, f2, lk, dir, absent

PerRoot(h, x, y) ==
  [r \in Roots |-> CASE r = hub -> h [] r = app1 -> x [] r = app2 -> y]

\* Where the managed project's path sorts among the targets' paths.
HubMiddle == PerRoot(1, 0, 2)

Edits121 == PerRoot(1, 2, 1)
Edits221 == PerRoot(2, 2, 1)
=============================================================================
