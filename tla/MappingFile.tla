----------------------------- MODULE MappingFile -----------------------------
(***************************************************************************)
(* The mapping files as lines (config.py): how a project's part of a file  *)
(* is read, and how ConfigUpdater inserts and deletes lines of it without  *)
(* writing the rest anew.  It parses the file for line numbers, reads it   *)
(* again as text and splices, under the lock of the file.  The shells that *)
(* call it come from operations/revlink.py and operations/remove.py; what  *)
(* they do to copies, rows and excludes is in Shells.                      *)
(*                                                                         *)
(* A line has a kind, a number of leading spaces, whether "- " opens a     *)
(* mapping on it, what it names, and whether it is open: the last line of  *)
(* a file without the newline after it.  The project's key line is left    *)
(* out, and each project is the only one of its file.                      *)
(***************************************************************************)
EXTENDS Contribution, SequencesExt

CONSTANTS
  Projects,  \* the managed projects
  Targets,   \* the directories they map to
  Names,     \* components of paths
  Joined,    \* the one name that yaml reads where two entries share a line
  Layouts,   \* what the part of each project in a file may look like at first
  Asked      \* bound: the paths that shells are given

Paths == UNION {[1 .. n -> Names \cup {Joined}] : n \in 1 .. 3}

\* `target:`, a bare target, `subpath:`, `subpath: []`, `subpath: [..]`, `- path`
Kinds == {"target", "string", "key", "empty", "flow", "item", "comment", "blank"}

ASSUME LayoutsAssumption ==
  \A p \in Projects :
    /\ Layouts[p] \subseteq Seq([kind : Kinds, dash : BOOLEAN, indent : Nat,
                                of : Seq(Targets \cup Paths), open : BOOLEAN])
    /\ \A ls \in Layouts[p] : \A i \in DOMAIN ls : ls[i].open => i = Len(ls) /\ ls[i].kind # "flow"

ASSUME AskedAssumption == Joined \notin Names /\ Asked \subseteq UNION {[1 .. n -> Names] : n \in 1 .. 2}

VARIABLES
  file,      \* the lines of each project
  projects,  \* what is read from them: the mappings of each project
  hub,       \* the top-level names found in each project
  answer     \* what became of the last shell

vars == <<file, projects, hub, answer>>
------------------------------------------------------------------------------
\* Reading.

Text(ls)         == {i \in DOMAIN ls : ls[i].kind \notin {"comment", "blank"}}
Least(S)         == CHOOSE x \in S : \A y \in S : x <= y
Column(line)     == IF line.dash THEN line.indent + 2 ELSE line.indent
IsList(ls)       == \E i \in Text(ls) : ls[i].dash
OpeningLines(ls) == IF IsList(ls) THEN {i \in Text(ls) : ls[i].dash} ELSE {Least(Text(ls))}

\* Line numbers in the order of the file.
Ordered(S) == SelectSeq([i \in 1 .. Max(S \cup {0}) |-> i], LAMBDA i : i \in S)

\* The lines of the mapping that opens at line s, and those of one kind.
End(ls, s) == Least({o \in OpeningLines(ls) : o > s} \cup {Len(ls) + 1})
Of(ls, s, kinds)    == {i \in s .. End(ls, s) - 1 : ls[i].kind \in kinds}
SubpathLines(ls, s) == Of(ls, s, {"key", "empty", "flow"})

\* The yaml of a project is one: mappings in a column, their keys in a column,
\* the items of a list in a column and under the key they belong to.
WellFormed(ls, s) ==
  LET keys  == Of(ls, s, {"target", "string", "key", "empty", "flow"})
      items == Of(ls, s, {"item"})
  IN /\ \A k \in keys : Column(ls[k]) = Column(ls[s])
     /\ \/ ls[s].kind = "string" /\ keys = {s}
        \/ Cardinality(Of(ls, s, {"target"})) = 1 /\ Of(ls, s, {"string"}) = {}
     /\ Cardinality(SubpathLines(ls, s)) <= 1
     /\ \A i \in items :
          /\ \E k \in Of(ls, s, {"key"}) : k < i /\ \A j \in keys : j > k => j > i
          /\ ls[i].indent >= Column(ls[s])
          /\ \A j \in items : ls[j].indent = ls[i].indent
Reads(ls) ==
  /\ Text(ls) # {}
  /\ Least(Text(ls)) \in OpeningLines(ls)
  /\ \A s \in OpeningLines(ls) : ls[s].indent = ls[Least(Text(ls))].indent /\ WellFormed(ls, s)

\* The lines with the entries of a mapping's list, and the entries: all of a
\* list in brackets are on the line of its key.
EntryLines(ls, s) == Of(ls, s, {"flow", "item"})
Entries(ls, s) ==
  LET lines == Ordered(EntryLines(ls, s)) IN FlattenSeq([k \in DOMAIN lines |-> ls[lines[k]].of])
LineOf(ls, s, k) ==
  IF Of(ls, s, {"flow"}) # {} THEN Least(EntryLines(ls, s)) ELSE Ordered(EntryLines(ls, s))[k]

MappingAt(ls, s) ==
  [targets  |-> ls[Least(Of(ls, s, {"target", "string"}))].of,
   all      |-> \/ SubpathLines(ls, s) = {}
                \/ Of(ls, s, {"key"}) # {} /\ EntryLines(ls, s) = {},
   subpaths |-> Entries(ls, s)]
MappingsOf(ls) ==
  LET Read(ms, s) == Append(ms, MappingAt(ls, s)) IN
    IF Reads(ls) THEN FoldLeft(Read, <<>>, Ordered(OpeningLines(ls))) ELSE <<>>
------------------------------------------------------------------------------
\* Splicing.

Line(kind, indent, of) ==
  [kind |-> kind, dash |-> FALSE, indent |-> indent, of |-> of, open |-> FALSE]
Cut(ls, from, to)      == SubSeq(ls, 1, from - 1) \o SubSeq(ls, to, Len(ls))
HasSubpathKey(ls, s)   == SubpathLines(ls, s) # {}

\* The mapping a target selects: the only one, whatever it targets, or the
\* first of the list that is more than a bare target and has it.
Selected(ls, t) ==
  IF ~IsList(ls) THEN OpeningLines(ls)
  ELSE LET those == {s \in OpeningLines(ls) : \E i \in Of(ls, s, {"target"}) : Contains(ls[i].of, t)}
       IN IF those = {} THEN {} ELSE {Least(those)}

\* Blank lines go when nothing but blank lines follows.
TrimEnd(ls, from) ==
  IF \A i \in from .. Len(ls) : ls[i].kind = "blank" THEN SubSeq(ls, 1, from - 1) ELSE ls

OpenList(ls, key, path) ==
  LET indent == ls[key].indent IN
    InsertAt([ls EXCEPT ![key] = Line("key", indent, <<>>)], key + 1, Line("item", indent + 2, <<path>>))

\* Mutant: one line too far down.
InsertFurther(ls, last, path) == InsertAt(ls, last + 2, Line("item", ls[last].indent, <<path>>))

\* Two entries on one line: the name that ends one and the name that begins the
\* other are read as one name.
Merged(left, right) == SubSeq(left, 1, Len(left) - 1) \o <<Joined>> \o Tail(right)

\* An entry after the last one of a list.  The text of an entry begins with no
\* newline, so it lengthens a last line that is open.
InsertItem(ls, last, path) ==
  LET Entry(of) == Line("item", ls[last].indent, <<of>>) IN
    IF ls[last].open THEN [ls EXCEPT ![last] = Entry(Merged(ls[last].of[1], path))]
    ELSE TrimEnd(InsertAt(ls, last + 1, Entry(path)), last + 2)

AddEntry(ls, s, path) ==
  LET entries == Entries(ls, s) IN
    CASE ~HasSubpathKey(ls, s)   -> ls
      [] entries = <<>>          -> OpenList(ls, Least(SubpathLines(ls, s)), path)
      [] Contains(entries, path) -> ls
      [] OTHER                   -> InsertItem(ls, LineOf(ls, s, Len(entries)), path)
AddTo(ls, t, path) == IF Selected(ls, t) = {} THEN ls ELSE AddEntry(ls, Least(Selected(ls, t)), path)

\* Mutant: lines in the column of the entry belong to it.
PastSiblings(ls, from) ==
  Least({i \in from + 1 .. Len(ls) : ls[i].kind = "blank" \/ ls[i].indent < ls[from].indent}
        \cup {Len(ls) + 1})

\* Where the last entry of a list ends: before a blank line or one that is
\* indented no deeper.
EndOfLast(ls, from) ==
  Least({i \in from + 1 .. Len(ls) : ls[i].kind = "blank" \/ ls[i].indent <= ls[from].indent}
        \cup {Len(ls) + 1})

\* The lines an entry takes up, to the next entry or its end; the first entry
\* of that path counts.
Removals(ls, s, path) ==
  LET entries == Entries(ls, s)
      k       == Least({j \in DOMAIN entries : entries[j] = path})
      from    == LineOf(ls, s, k)
  IN IF Contains(entries, path)
     THEN {[key     |-> Least(SubpathLines(ls, s)),
            from    |-> from,
            to      |-> IF k < Len(entries) THEN LineOf(ls, s, k + 1) ELSE EndOfLast(ls, from),
            emptied |-> Len(entries) = 1]}
     ELSE {}

\* Mutant: the key of an emptied list is left with nothing.
KeyLeftBare(ls, removal) == Cut(ls, removal.from, removal.to)

\* A list that loses its only entry is kept, empty.
RemoveLines(ls, removal) ==
  IF removal.emptied
  THEN InsertAt(Cut(ls, removal.key, removal.to), removal.key,
                Line("empty", ls[removal.key].indent, <<>>))
  ELSE Cut(ls, removal.from, removal.to)

RemoveFrom(ls, targets, path) ==
  LET Meets(s)  == ls[s].kind # "string"
                   /\ \E i \in Of(ls, s, {"target"}) : ToSet(ls[i].of) \cap targets # {}
      removals  == UNION {Removals(ls, s, path) : s \in {o \in OpeningLines(ls) : Meets(o)}}
      LastFirst(x, y) == x.from > y.from
  IN FoldLeft(RemoveLines, ls, SetToSortSeq(removals, LastFirst))
------------------------------------------------------------------------------
\* The shells.

\* The mapping of a project that a shell in a target is about.
Matched(p, cwd) ==
  LET ms == projects[p] IN ms[Least({i \in DOMAIN ms : cwd \in TargetsOf(ms[i])})]

\* Nested paths join selective mappings only, and none that overlaps an entry.
MayCreate(p, cwd, path) ==
  LET m == Matched(p, cwd) IN
    IF m.all THEN Len(path) = 1
    ELSE \A k \in DOMAIN m.subpaths : ~PathsOverlap(m.subpaths[k], path)

\* One call of the updater for each target of each selective mapping.
AddCalls(p) ==
  LET Calls(m) == IF m.all THEN <<>> ELSE m.targets IN
    FlattenSeq([i \in DOMAIN projects[p] |-> Calls(projects[p][i])])
AddAll(p, calls, path) ==
  LET Add(ls, t) == AddTo(ls, t, path) IN FoldLeft(Add, file[p], calls)

\* The targets of the selective mappings that list the item.
DropTargets(p, path) ==
  LET ms == projects[p] IN
    UNION {TargetsOf(ms[i]) : i \in {j \in DOMAIN ms : Lists(ms[j], path)}}

Write(p, lines) ==
  /\ file' = [file EXCEPT ![p] = lines]
  /\ projects' = [projects EXCEPT ![p] = MappingsOf(file'[p])]

Adopted(p, path)  == hub' = [hub EXCEPT ![p] = @ \cup {path[1]}]
Released(p, path) == hub' = [hub EXCEPT ![p] = IF Len(path) = 1 THEN @ \ {path[1]} ELSE @]

\* `revlink create`: the entry is spliced in, then the item is copied.
Create(p, path) ==
  /\ Write(p, AddAll(p, AddCalls(p), path))
  /\ Adopted(p, path)
  /\ answer' = "created"

\* A write of the file fails or the process ends: some of the calls are done.
CreateFails(p, path) ==
  /\ \E done \in 0 .. Len(AddCalls(p)) :
       Write(p, AddAll(p, SubSeq(AddCalls(p), 1, done), path))
  /\ answer' = "failed"
  /\ UNCHANGED hub

\* `revlink restore` and `remove`: the managed copy is deleted, then the entry
\* taken out of every list at once.
Drop(p, path) ==
  /\ Write(p, RemoveFrom(file[p], DropTargets(p, path), path))
  /\ Released(p, path)
  /\ answer' = "dropped"

\* The one replacement of the file fails.
DropFails(p, path) ==
  /\ Released(p, path)
  /\ answer' = "failed"
  /\ UNCHANGED <<file, projects>>

InHub(p, path) == path[1] \in hub[p]

\* What a shell asked for in a target reaches: create takes the project the
\* user names, restore and remove the owner of the path; remove wants the
\* item itself to be mapped.
CreateShell(cwd, named, path) ==
  \E p \in Resolved(projects, hub, cwd, named, <<>>) :
    /\ MayCreate(p, cwd, path)
    /\ Create(p, path) \/ CreateFails(p, path)
RestoreShell(cwd, path) ==
  \E p \in Resolved(projects, hub, cwd, {}, path) :
    /\ InHub(p, path)
    /\ Drop(p, path) \/ DropFails(p, path)
RemoveShell(cwd, path) ==
  \E p \in Resolved(projects, hub, cwd, {}, path) :
    /\ Matched(p, cwd).all \/ Lists(Matched(p, cwd), path)
    /\ Drop(p, path) \/ DropFails(p, path)

\* The daemon runs, so the mappings were accepted.
Init ==
  /\ file \in [Projects -> UNION {Layouts[p] : p \in Projects}]
  /\ \A p \in Projects : file[p] \in Layouts[p]
  /\ projects = [p \in Projects |-> MappingsOf(file[p])]
  /\ hub \in [Projects -> SUBSET Names]
  /\ \A t \in Targets : NoOverlaps(projects, hub, t)
  /\ answer = "none"

Next ==
  \E cwd \in Targets, path \in Asked :
    \/ \E p \in Projects : CreateShell(cwd, {p}, path)
    \/ RestoreShell(cwd, path)
    \/ RemoveShell(cwd, path)

Spec == Init /\ [][Next]_vars
------------------------------------------------------------------------------
\* Every splice leaves lines that read as mappings: no item lands outside its
\* list, in another column or under another mapping, no key is doubled or lost.
Readable == \A p \in Projects : Reads(file[p])

Promise == INSTANCE Mapping WITH projects <- projects, hub <- hub, answer <- answer

\* The splices do to the lines exactly what the shells promise of the mappings:
\* a create adds the item to every selective mapping of its project, a restore
\* or a remove takes it out of every one, and nothing else is read differently.
KeepsPromise == Promise!Spec

\* Bare targets, target lines and the comments in the column of the mappings.
Foreign(ls) ==
  LET Kept(line) == \/ line.kind \in {"target", "string"}
                    \/ line.kind = "comment" /\ line.indent = ls[Least(Text(ls))].indent
  IN SelectSeq(ls, Kept)

\* A splice deletes or moves no line that belongs to something else: targets
\* and the comments between mappings stay, in their order.
RestKept == [][\A p \in Projects : Foreign(file'[p]) = Foreign(file[p])]_vars

\* See Mapping: a selective mapping stays one, empty when its last item goes.
SelectiveStaysSelective == Promise!SelectiveStaysSelective
==============================================================================
