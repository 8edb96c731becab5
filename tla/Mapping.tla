------------------------------- MODULE Mapping -------------------------------
(***************************************************************************)
(* What `revlink create`, `revlink restore` and `remove` promise about the *)
(* mappings: an item is declared in every selective mapping of its project *)
(* at once and withdrawn from every one at once, nothing else of any       *)
(* mapping changes, and a withdrawal that fails changes nothing.           *)
(* MappingFile does this to the lines of yaml files.                       *)
(***************************************************************************)
EXTENDS Contribution

CONSTANTS
  Projects,  \* the managed projects
  Targets,   \* the directories they map to
  Names      \* components of paths

Paths    == UNION {[1 .. n -> Names] : n \in 1 .. 2}
Mappings == [targets : Seq(Targets), all : BOOLEAN, subpaths : Seq(Paths)]
Answers  == {"none", "created", "dropped", "failed"}

VARIABLES
  projects,  \* the mappings of each project
  hub,       \* the top-level names found in each project
  answer     \* what became of the last shell

vars == <<projects, hub, answer>>

TypeOK ==
  /\ projects \in [Projects -> Seq(Mappings)]
  /\ hub \in [Projects -> SUBSET Names]
  /\ answer \in Answers

\* A mapping with the item declared, and with it withdrawn.
Declared(mapping, path) ==
  IF mapping.all \/ Lists(mapping, path) THEN mapping
  ELSE [mapping EXCEPT !.subpaths = Append(@, path)]
Withdrawn(mapping, path) ==
  IF ~Lists(mapping, path) THEN mapping
  ELSE LET k == CHOOSE j \in DOMAIN mapping.subpaths : mapping.subpaths[j] = path
       IN [mapping EXCEPT !.subpaths = SubSeq(@, 1, k - 1) \o SubSeq(@, k + 1, Len(@))]

AllDeclared(ms, path)  == [i \in DOMAIN ms |-> Declared(ms[i], path)]
AllWithdrawn(ms, path) == [i \in DOMAIN ms |-> Withdrawn(ms[i], path)]

\* Some mappings of a project become others, everything else is left alone.
Change(p, which, after) ==
  LET ms == projects[p] IN
    projects' = [projects EXCEPT ![p] = [i \in DOMAIN ms |-> IF i \in which THEN after[i] ELSE ms[i]]]

Adopted(p, path)  == hub' = [hub EXCEPT ![p] = @ \cup {path[1]}]
Released(p, path) == hub' = [hub EXCEPT ![p] = IF Len(path) = 1 THEN @ \ {path[1]} ELSE @]

Create(p, path) ==
  /\ answer' = "created"
  /\ Adopted(p, path)
  /\ Change(p, DOMAIN projects[p], AllDeclared(projects[p], path))

\* A create that is cut short leaves the item declared in some mappings.
CreateFails(p, path) ==
  /\ answer' = "failed"
  /\ UNCHANGED hub
  /\ \E done \in SUBSET DOMAIN projects[p] : Change(p, done, AllDeclared(projects[p], path))

Drop(p, path) ==
  /\ answer' = "dropped"
  /\ Released(p, path)
  /\ Change(p, DOMAIN projects[p], AllWithdrawn(projects[p], path))

\* One that cannot replace the file leaves the mappings as they were.
DropFails(p, path) ==
  /\ answer' = "failed"
  /\ Released(p, path)
  /\ UNCHANGED projects

Init == TypeOK /\ answer = "none"

Next == \E p \in Projects, path \in Paths :
          \/ Create(p, path)
          \/ CreateFails(p, path)
          \/ Drop(p, path)
          \/ DropFails(p, path)

Spec == Init /\ [][Next]_vars
------------------------------------------------------------------------------
\* What a mapping is besides its list.
Shape(mapping) == <<mapping.targets, mapping.all>>

\* No shell turns a mapping that lists its items into one that maps everything,
\* nor the other way round, nor gives or takes a mapping or a target.
SelectiveStaysSelective ==
  [][\A p \in Projects :
       /\ DOMAIN projects'[p] = DOMAIN projects[p]
       /\ \A i \in DOMAIN projects[p] : Shape(projects'[p][i]) = Shape(projects[p][i])]_vars
==============================================================================
