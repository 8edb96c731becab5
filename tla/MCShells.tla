------------------------------ MODULE MCShells ------------------------------
\* TLC instances of Shells: one project with two targets.
EXTENDS Shells

CONSTANTS hub, a, b

TwoTargets == {a, b}
HubFirst == <<hub, a, b>>
Shared   == {"file", "directory"}
LastFile == {"last_file"}
AllPaths == {"name", "dotted", "absolute"}
NameOnly == {"name"}
Maybe    == BOOLEAN
Never    == {FALSE}

\* Bound: what follows a restore or remove that left rows behind is not explored.  No
\* property but the types says anything of it, and `spoiled` only grows.
NothingUndone == "undone" \notin spoiled
=============================================================================
