---------------------------- MODULE Contribution ----------------------------
(***************************************************************************)
(* Which managed project contributes what to which target                  *)
(* (contribution.py, discovery.py, project_processor.py).  A path is the   *)
(* sequence of its components; a mapping is a record of its targets, in    *)
(* the order they are written, whether it maps everything (no `subpath`    *)
(* key), and else the paths it lists.  `projects` is a function from       *)
(* projects to sequences of mappings, `hub` one from projects to the       *)
(* top-level names found in them.                                          *)
(***************************************************************************)
EXTENDS Naturals, Sequences, FiniteSets

CONSTANT Held    \* the name of the directory of held copies

\* A path belongs to an item when the item's components begin it.
Covers(item, path) ==
  /\ Len(item) <= Len(path)
  /\ \A k \in 1 .. Len(item) : item[k] = path[k]

PathsOverlap(left, right) == Covers(left, right) \/ Covers(right, left)

TargetsOf(mapping)     == {mapping.targets[k] : k \in DOMAIN mapping.targets}
Lists(mapping, path)   == ~mapping.all /\ \E k \in DOMAIN mapping.subpaths : mapping.subpaths[k] = path
Targeting(projects, t) == {p \in DOMAIN projects :
                             \E i \in DOMAIN projects[p] : t \in TargetsOf(projects[p][i])}

\* The items of a mapping, each with its place: what it lists, or what is in
\* the managed project now.  The directory of held copies is no item.
ItemNames(mapping, names) ==
  IF mapping.all
  THEN {[place |-> 0, path |-> <<n>>] : n \in names \ {Held}}
  ELSE {[place |-> k, path |-> mapping.subpaths[k]] :
          k \in {j \in DOMAIN mapping.subpaths :
                   mapping.subpaths[j] # <<>> /\ mapping.subpaths[j][1] # Held}}

\* Everything mapped to one target.
Items(projects, hub, t) ==
  UNION {LET ms == projects[p] IN
           UNION {{[project |-> p, mapping |-> i, item |-> n] : n \in ItemNames(ms[i], hub[p])} :
                    i \in {j \in DOMAIN ms : t \in TargetsOf(ms[j])}} :
           p \in DOMAIN projects}

\* A start or a reload refuses mappings where two items of a target overlap.
NoOverlaps(projects, hub, t) ==
  LET items == Items(projects, hub, t) IN
    \A x, y \in items : x # y => ~PathsOverlap(x.item.path, y.item.path)

\* The projects with an item that covers a path at a target.
Owners(projects, hub, t, path) ==
  {x.project : x \in {y \in Items(projects, hub, t) : Covers(y.item.path, path)}}

\* The project a shell at `cwd` is about: the only one there, else the one it
\* names, else the only owner of the path.
Resolved(projects, hub, cwd, named, path) ==
  LET there == Targeting(projects, cwd) IN
    IF Cardinality(there) = 1 THEN there
    ELSE IF named # {} THEN there \cap named
    ELSE LET owners == Owners(projects, hub, cwd, path) IN
           IF Cardinality(owners) = 1 THEN owners ELSE {}
=============================================================================
