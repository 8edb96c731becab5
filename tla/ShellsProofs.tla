---------------------------- MODULE ShellsProofs ----------------------------
(***************************************************************************)
(* What the shells guarantee for every set of targets, every bound and     *)
(* every number of shells, users and faults.                               *)
(*                                                                         *)
(* Types is inductive.  On it rest Remembered and Unraced, what the unit   *)
(* and the mapping hold at each step of a job; on these Backed and HubRows *)
(* together: while no user deleted a copy, every row is of a copy on disk, *)
(* at each step of a create, a restore and a remove, and a directory has a *)
(* row only with the managed copy's.  A tick or a start that works on such *)
(* rows takes nothing for a delete (TickGrows and CatchUpGrows of          *)
(* ItemSyncProofs), and that is CopiesKept.  Quiet is the table of what    *)
(* the mapping, the snapshot, the watched targets, the excludes and the    *)
(* documents are at each step when nothing goes wrong.  Level says the     *)
(* same of the copies: the unit has them everywhere or nowhere, or a later *)
(* tick has something to do (TickAccounts and CatchUpEvens).               *)
(*                                                                         *)
(* All but the types and the copies need an item that is not the last file *)
(* of its project: of that one the document of files is not written again. *)
(***************************************************************************)
EXTENDS Shells, ItemSyncProofs, TLAPS

-----------------------------------------------------------------------------
\* The steps of the shells

Undoing == job.op \in {"restore", "remove"}

\* A job is a record; between jobs it is NoJob.
JobOK ==
  job \in [op : {"none", "create", "restore", "remove"}, cwd : Roots, at : Nat,
           done : SUBSET Targets, listed : SUBSET Targets, warned : BOOLEAN]

\* Where each step is.
LEMMA Steps ==
  ASSUME TypeOK
  PROVE  /\ Busy => job.op \in {"create", "restore", "remove"}
         /\ job.op = "create" => job.at \in 1 .. 9
         /\ Undoing => job.at \in 1 .. 10
<1>1. DOMAIN Program = {"create", "restore", "remove"}
  BY DEF Program
<1>2. /\ DOMAIN Program["create"] = 1 .. 9
      /\ DOMAIN Program["restore"] = 1 .. 10
      /\ DOMAIN Program["remove"] = 1 .. 10
  BY DEF Program, CreateSteps, RestoreSteps, RemoveSteps
<1>3. job.op # "none" => job.op \in DOMAIN Program /\ job.at \in DOMAIN Program[job.op]
  BY DEF TypeOK, NoJob
<1> HIDE DEF Program
<1> QED  BY <1>1, <1>2, <1>3 DEF Busy, Undoing

\* The op and the position of the job at a step, from its name.
LEMMA StepOf ==
  ASSUME TypeOK, NEW s, At(s)
  PROVE  /\ Busy
         /\ s = "splice" => job.op = "create" /\ job.at = 1
         /\ s = "watch" => \/ job.op = "create" /\ job.at = 2
                           \/ Undoing /\ job.at \in {1, 7}
         /\ s = "hub" => \/ job.op = "create" /\ job.at = 3
                         \/ Undoing /\ job.at \in {2, 3}
         /\ s = "others" => \/ job.op = "create" /\ job.at = 4
                            \/ Undoing /\ job.at \in {2, 3}
         /\ s = "exclude" => \/ job.op = "create" /\ job.at = 5
                             \/ Undoing /\ job.at = 4
         /\ s = "record" => \/ job.op = "create" /\ job.at = 6
                            \/ Undoing /\ job.at = 5
         /\ s = "drop" => Undoing /\ job.at = 6
         /\ s = "snapshot" => \/ job.op = "create" /\ job.at = 7
                              \/ Undoing /\ job.at = 8
         /\ s = "docs" => \/ job.op = "create" /\ job.at = 8
                          \/ Undoing /\ job.at = 9
         /\ s = "answer" => \/ job.op = "create" /\ job.at = 9
                            \/ Undoing /\ job.at = 10
<1>0. Program[job.op][job.at] = s /\ job.op \in {"create", "restore", "remove"} /\ Busy
  BY Steps DEF At
<1>1. CASE job.op = "create"
  <2>1. CreateSteps[job.at] = s /\ job.at \in 1 .. 9
    BY <1>0, <1>1, Steps DEF Program
  <2>2. /\ CreateSteps[1] = "splice" /\ CreateSteps[2] = "watch" /\ CreateSteps[3] = "hub"
        /\ CreateSteps[4] = "others" /\ CreateSteps[5] = "exclude" /\ CreateSteps[6] = "record"
        /\ CreateSteps[7] = "snapshot" /\ CreateSteps[8] = "docs" /\ CreateSteps[9] = "answer"
    BY DEF CreateSteps
  <2>3. job.at \in {1, 2, 3, 4, 5, 6, 7, 8, 9}
    BY <2>1
  <2> HIDE DEF CreateSteps
  <2> QED  BY <1>0, <1>1, <2>1, <2>2, <2>3
<1>2. CASE job.op = "restore"
  <2>1. RestoreSteps[job.at] = s /\ job.at \in 1 .. 10
    BY <1>0, <1>2, Steps DEF Program, Undoing
  <2>2. /\ RestoreSteps[1] = "watch" /\ RestoreSteps[2] = "hub" /\ RestoreSteps[3] = "others"
        /\ RestoreSteps[4] = "exclude" /\ RestoreSteps[5] = "record" /\ RestoreSteps[6] = "drop"
        /\ RestoreSteps[7] = "watch" /\ RestoreSteps[8] = "snapshot" /\ RestoreSteps[9] = "docs"
        /\ RestoreSteps[10] = "answer"
    BY DEF RestoreSteps
  <2>3. job.at \in {1, 2, 3, 4, 5, 6, 7, 8, 9, 10}
    BY <2>1
  <2> HIDE DEF RestoreSteps
  <2> QED  BY <1>0, <1>2, <2>1, <2>2, <2>3 DEF Undoing
<1>3. CASE job.op = "remove"
  <2>1. RemoveSteps[job.at] = s /\ job.at \in 1 .. 10
    BY <1>0, <1>3, Steps DEF Program, Undoing
  <2>2. /\ RemoveSteps[1] = "watch" /\ RemoveSteps[2] = "others" /\ RemoveSteps[3] = "hub"
        /\ RemoveSteps[4] = "exclude" /\ RemoveSteps[5] = "record" /\ RemoveSteps[6] = "drop"
        /\ RemoveSteps[7] = "watch" /\ RemoveSteps[8] = "snapshot" /\ RemoveSteps[9] = "docs"
        /\ RemoveSteps[10] = "answer"
    BY DEF RemoveSteps
  <2>3. job.at \in {1, 2, 3, 4, 5, 6, 7, 8, 9, 10}
    BY <2>1
  <2> HIDE DEF RemoveSteps
  <2> QED  BY <1>0, <1>3, <2>1, <2>2, <2>3 DEF Undoing
<1> QED  BY <1>0, <1>1, <1>2, <1>3

\* What the job is after a step.
LEMMA Advanced ==
  ASSUME JobOK, Advance
  PROVE  /\ job'.op = job.op /\ job'.cwd = job.cwd /\ job'.at = job.at + 1 /\ job'.done = {}
         /\ job'.listed = job.listed /\ job'.warned = job.warned /\ JobOK'
<1> DEFINE j == [job EXCEPT !.at = job.at + 1]
<1>1. job' = [j EXCEPT !.done = {}]
  BY DEF Advance
<1>2. /\ j.op = job.op /\ j.cwd = job.cwd /\ j.at = job.at + 1 /\ j.listed = job.listed
      /\ j.warned = job.warned
      /\ j \in [op : {"none", "create", "restore", "remove"}, cwd : Roots, at : Nat,
                done : SUBSET Targets, listed : SUBSET Targets, warned : BOOLEAN]
  BY DEF JobOK
<1> HIDE DEF j
<1> QED  BY <1>1, <1>2 DEF JobOK

\* What the job is after one target of a step.
LEMMA Dids ==
  ASSUME JobOK, NEW r \in Targets, Did(r)
  PROVE  /\ job'.op = job.op /\ job'.cwd = job.cwd /\ job'.at = job.at
         /\ job'.done = job.done \cup {r}
         /\ job'.listed = job.listed /\ job'.warned = job.warned /\ JobOK'
BY DEF JobOK, Did

\* And after its answer.
LEMMA NoJobs ==
  ASSUME TypeOK, job' = NoJob
  PROVE  job'.op = "none" /\ job'.at = 0 /\ job'.done = {} /\ ~Busy' /\ ~Undoing' /\ JobOK'
BY DEF NoJob, Busy, Undoing, JobOK, Roots

-----------------------------------------------------------------------------
\* What the steps record

\* The fields of the item that the unit works on.
LEMMA ItemOfFields ==
  ASSUME NEW d, NEW lv
  PROVE  /\ Fields(ItemOf(d, lv))
         /\ ItemOf(d, lv).disk = d /\ ItemOf(d, lv).row = lv.row /\ ItemOf(d, lv).seen = lv.seen
         /\ ItemOf(d, lv).oos = lv.oos /\ ItemOf(d, lv).box = {}
BY DEF ItemOf, Fields

\* One field of an item is replaced.
LEMMA PutRow ==
  ASSUME NEW x, Fields(x), NEW v
  PROVE  [x EXCEPT !.row = v] =
           [disk |-> x.disk, row |-> v, seen |-> x.seen, oos |-> x.oos, box |-> x.box, gone |-> x.gone]
BY DEF Fields

\* The live state that a prune of the item leaves.
LEMMA PrunedLive ==
  ASSUME NEW d, NEW lv, NEW W
  PROVE  LiveOf(Prune(ItemOf(d, lv), W)) =
           [row |-> lv.row \cap W, seen |-> lv.seen \cap W, oos |-> lv.oos \cap W]
<1> DEFINE x == ItemOf(d, lv)
           y == [x EXCEPT !.row = x.row \cap W]
           z == [y EXCEPT !.seen = x.seen \cap W]
           p == [z EXCEPT !.oos = x.oos \cap W]
<1>1. Prune(x, W) = p
  BY DEF Prune
<1>2. /\ Fields(x) /\ x.row = lv.row /\ x.seen = lv.seen /\ x.oos = lv.oos
  BY ItemOfFields
<1> HIDE DEF x
<1>3. y = [disk |-> x.disk, row |-> x.row \cap W, seen |-> x.seen, oos |-> x.oos, box |-> x.box,
           gone |-> x.gone]
  BY <1>2, PutRow
<1> HIDE DEF y
<1>4. Fields(y)
  BY <1>3 DEF Fields
<1>5. z = [disk |-> y.disk, row |-> y.row, seen |-> x.seen \cap W, oos |-> y.oos, box |-> y.box,
           gone |-> y.gone]
  BY <1>4, PutSeen
<1> HIDE DEF z
<1>6. Fields(z)
  BY <1>5 DEF Fields
<1>7. p = [disk |-> z.disk, row |-> z.row, seen |-> z.seen, oos |-> x.oos \cap W, box |-> z.box,
           gone |-> z.gone]
  BY <1>6, PutOos
<1> HIDE DEF p
<1>8. p.row = lv.row \cap W /\ p.seen = lv.seen \cap W /\ p.oos = lv.oos \cap W
  BY <1>2, <1>3, <1>5, <1>7
<1> QED  BY <1>1, <1>8 DEF LiveOf, x

\* The live state that the record of a create leaves.
LEMMA InstalledLive ==
  ASSUME NEW d, NEW lv
  PROVE  LET S == {Hub, job.cwd} \cup watch
         IN  LiveOf(Installed(ItemOf(d, lv))) =
               [row |-> (lv.row \ S) \cup (S \cap d), seen |-> (lv.seen \ S) \cup (S \cap d),
                oos |-> lv.oos]
<1> DEFINE x == ItemOf(d, lv)
           S == {Hub, job.cwd} \cup watch
<1>1. /\ Fields(x) /\ x.disk = d /\ x.row = lv.row /\ x.seen = lv.seen /\ x.oos = lv.oos
  BY ItemOfFields
<1> HIDE DEF S, x
<1>2. RecordDisk(x, S) =
        [disk |-> x.disk, row  |-> (x.row \ S) \cup (S \cap x.disk),
                          seen |-> (x.seen \ S) \cup (S \cap x.disk),
         oos  |-> x.oos, box |-> x.box, gone |-> x.gone]
  BY <1>1, RecordDiskIs
<1>3. Installed(x) = RecordDisk(x, S)
  BY DEF Installed, S
<1>4. LiveOf(Installed(x)) = [row |-> (lv.row \ S) \cup (S \cap d),
                              seen |-> (lv.seen \ S) \cup (S \cap d), oos |-> lv.oos]
  BY <1>1, <1>2, <1>3 DEF LiveOf
<1> QED  BY <1>4 DEF S, x

\* The live state that the record of a restore or a remove leaves.
LEMMA ForgetLive ==
  ASSUME NEW d, NEW lv, NEW S
  PROVE  LiveOf(Forget(ItemOf(d, lv), S)) =
           [row |-> lv.row \ S, seen |-> lv.seen \ S, oos |-> lv.oos \ S]
<1> DEFINE x == ItemOf(d, lv)
           y == Record(x, S, FALSE)
           z == [y EXCEPT !.oos = y.oos \ S]
<1>1. /\ Fields(x) /\ x.row = lv.row /\ x.seen = lv.seen /\ x.oos = lv.oos
  BY ItemOfFields
<1> HIDE DEF x
<1>2. y = [disk |-> x.disk, row |-> Put(x.row, S, FALSE), seen |-> Put(x.seen, S, FALSE),
           oos |-> x.oos, box |-> x.box, gone |-> x.gone]
  BY <1>1, RecordIs
<1>3. Forget(x, S) = z
  BY DEF Forget
<1> HIDE DEF y
<1>4. Fields(y)
  BY <1>2 DEF Fields
<1>5. z = [disk |-> y.disk, row |-> y.row, seen |-> y.seen, oos |-> y.oos \ S, box |-> y.box,
           gone |-> y.gone]
  BY <1>4, PutOos
<1>6. y.row = lv.row \ S /\ y.seen = lv.seen \ S /\ y.oos = lv.oos
  BY <1>1, <1>2 DEF Put
<1>7. LiveOf(z) = [row |-> lv.row \ S, seen |-> lv.seen \ S, oos |-> lv.oos \ S]
  BY <1>5, <1>6 DEF LiveOf
<1> QED  BY <1>3, <1>7 DEF x

-----------------------------------------------------------------------------
\* Types

StateOK ==
  /\ kind \in Kinds
  /\ disk \subseteq Roots /\ yaml \subseteq Targets /\ snapshot \subseteq Targets
  /\ live \in [row : SUBSET Roots, seen : SUBSET Roots, oos : SUBSET Targets]
  /\ watch \subseteq Targets /\ exclude \subseteq Targets /\ on \in BOOLEAN
  /\ {writes, edits, shells, faults} \subseteq Nat
  /\ erased \in BOOLEAN
  /\ spoiled \subseteq {"undone", "failed", "committed", "raced"}

\* A document has isolated replicas of its rows only.
Doc == {k \in [row : SUBSET Roots, oos : SUBSET Targets] : k.oos \subseteq k.row}

\* Only a directory has documents of its own.
DocsOK ==
  /\ docs \in [own : Doc, files : Doc]
  /\ kind # "directory" => docs.own = NoRows

\* A job is NoJob, or at a step of its shell.
Placed(j) ==
  \/ j = NoJob
  \/ /\ j.cwd \in Targets
     /\ \/ j.op = "create" /\ j.at \in 1 .. 9
        \/ j.op \in {"restore", "remove"} /\ j.at \in 1 .. 10

OffOK == ~on => job = NoJob /\ live = NotLive

Types == StateOK /\ DocsOK /\ JobOK /\ Placed(job) /\ OffOK

\* The invariant has the types.
LEMMA TypesTypeOK ==
  ASSUME Types
  PROVE  TypeOK
<1>1. docs \in [own : Kept, files : Kept]
  <2>1. Doc \subseteq Kept
    BY DEF Doc, Kept, Roots
  <2> QED  BY <2>1 DEF Types, DocsOK
<1>2. \/ job = NoJob
      \/ /\ job.op \in DOMAIN Program /\ job.at \in DOMAIN Program[job.op]
         /\ job.cwd \in Targets /\ job.done \subseteq Targets /\ job.listed \subseteq Targets
         /\ job.warned \in BOOLEAN
  <2>1. DOMAIN Program = {"create", "restore", "remove"}
    BY DEF Program
  <2>2. /\ DOMAIN Program["create"] = 1 .. 9
        /\ DOMAIN Program["restore"] = 1 .. 10
        /\ DOMAIN Program["remove"] = 1 .. 10
    BY DEF Program, CreateSteps, RestoreSteps, RemoveSteps
  <2>3. job.done \subseteq Targets /\ job.listed \subseteq Targets /\ job.warned \in BOOLEAN
    BY DEF Types, JobOK
  <2>4. CASE job = NoJob
    BY <2>4
  <2>5. CASE job.cwd \in Targets /\ job.op = "create" /\ job.at \in 1 .. 9
    BY <2>1, <2>2, <2>3, <2>5
  <2>6. CASE job.cwd \in Targets /\ job.op \in {"restore", "remove"} /\ job.at \in 1 .. 10
    BY <2>1, <2>2, <2>3, <2>6
  <2> QED  BY <2>4, <2>5, <2>6 DEF Types, Placed
<1> QED  BY <1>1, <1>2 DEF Types, StateOK, TypeOK

\* The rows of the unit make a document.
LEMMA RowsDoc ==
  ASSUME NEW lv \in [row : SUBSET Roots, seen : SUBSET Roots, oos : SUBSET Targets]
  PROVE  Rows(lv) \in Doc
BY DEF Rows, Doc

\* So does none.
LEMMA NoRowsDoc == NoRows \in Doc
BY DEF NoRows, Doc

\* A save makes documents of a document.
LEMMA SaveTypes ==
  ASSUME NEW old \in [own : Doc, files : Doc], NEW kept \in Doc, NEW d, NEW m
  PROVE  SaveAll(old, d, kept, m) \in [own : Doc, files : Doc]
<1>1. FilesPart(d, kept, m) \in Doc
  BY NoRowsDoc DEF FilesPart
<1> QED  BY <1>1 DEF SaveAll

\* And gives a file no document of its own.
LEMMA SaveOwn ==
  ASSUME NEW old, NEW kept, NEW d, NEW m, kind # "directory", old.own = NoRows
  PROVE  SaveAll(old, d, kept, m).own = NoRows
BY DEF SaveAll, InFiles

\* The item that the unit works on.
LEMMA ItemTyped ==
  ASSUME NEW d \in SUBSET Roots,
         NEW lv \in [row : SUBSET Roots, seen : SUBSET Roots, oos : SUBSET Targets]
  PROVE  ItemOf(d, lv) \in Item(Roots, Roots, Hub)
<1>1. Targets \subseteq Roots \ {Hub}
  BY RootsAssumption DEF Roots
<1> QED  BY <1>1 DEF ItemOf, Item

\* What is kept of it.
LEMMA LiveTyped ==
  ASSUME NEW x \in Item(Roots, Roots, Hub)
  PROVE  /\ LiveOf(x) \in [row : SUBSET Roots, seen : SUBSET Roots, oos : SUBSET Targets]
         /\ LiveOf(x).row = x.row /\ LiveOf(x).seen = x.seen /\ LiveOf(x).oos = x.oos
BY DEF LiveOf, Item, Roots

\* Every watched root is in the order of the roots.
LEMMA WatchedRoots ==
  ASSUME NEW m \in SUBSET Targets
  PROVE  /\ Watched(m) \in SUBSET Roots /\ Watched(m) \ {Hub} = m
         /\ Watched(m) \subseteq {Order[n] : n \in 1 .. Len(Order)}
<1>1. Watched(m) \subseteq Roots /\ Watched(m) \ {Hub} = m
  BY RootsAssumption DEF Watched, Roots
<1> QED  BY <1>1, OrderAssumption

\* The live state after a prune.
LEMMA PrunedType ==
  ASSUME StateOK, NEW W
  PROVE  LET lv == LiveOf(Prune(ItemOf(disk, live), W))
         IN  /\ lv \in [row : SUBSET Roots, seen : SUBSET Roots, oos : SUBSET Targets]
             /\ lv.row = live.row \cap W /\ lv.seen = live.seen \cap W /\ lv.oos = live.oos \cap W
<1>1. LiveOf(Prune(ItemOf(disk, live), W)) =
           [row |-> live.row \cap W, seen |-> live.seen \cap W, oos |-> live.oos \cap W]
  BY PrunedLive
<1> QED  BY <1>1 DEF StateOK

\* A step of the job of the unit leaves it placed.
LEMMA AdvancedPlaced ==
  ASSUME JobOK, Placed(job), Advance, Busy,
         \/ job.op = "create" /\ job.at \in 1 .. 8
         \/ Undoing /\ job.at \in 1 .. 9
  PROVE  JobOK' /\ Placed(job')
<1>1. /\ job'.op = job.op /\ job'.cwd = job.cwd /\ job'.at = job.at + 1 /\ JobOK'
  BY Advanced
<1>2. job.cwd \in Targets
  BY DEF Placed, Busy, NoJob
<1>3. CASE job.op = "create" /\ job.at \in 1 .. 8
  BY <1>1, <1>2, <1>3 DEF Placed
<1>4. CASE Undoing /\ job.at \in 1 .. 9
  BY <1>1, <1>2, <1>4 DEF Placed, Undoing
<1> QED  BY <1>3, <1>4

\* So does one target of a step.
LEMMA DidPlaced ==
  ASSUME JobOK, Placed(job), Busy, NEW r \in Targets, Did(r)
  PROVE  JobOK' /\ Placed(job')
<1>1. /\ job'.op = job.op /\ job'.cwd = job.cwd /\ job'.at = job.at /\ JobOK'
  BY Dids
<1>2. job # NoJob
  BY DEF Busy, NoJob
<1> QED  BY <1>1, <1>2 DEF Placed

\* And persisting that failed.
LEMMA AtAnswer ==
  ASSUME JobOK, Placed(job), Busy, job.op \in {"create", "restore", "remove"},
         job' = [job EXCEPT !.at = Len(Program[job.op]), !.warned = TRUE]
  PROVE  /\ JobOK' /\ Placed(job)' /\ job'.op = job.op
         /\ Undoing => job'.at = 10
<1>1. \/ job.op = "create" /\ Len(Program[job.op]) = 9
      \/ job.op \in {"restore", "remove"} /\ Len(Program[job.op]) = 10
  BY DEF Program, CreateSteps, RestoreSteps, RemoveSteps
<1> DEFINE last == Len(Program[job.op])
           j == [job EXCEPT !.at = last]
<1>2. job' = [j EXCEPT !.warned = TRUE]
  OBVIOUS
<1> HIDE DEF last
<1>3. last \in Nat
  BY <1>1 DEF last
<1>4. j.op = job.op /\ j.cwd = job.cwd /\ j.at = last
      /\ j \in [op : {"none", "create", "restore", "remove"}, cwd : Roots, at : Nat,
                done : SUBSET Targets, listed : SUBSET Targets, warned : BOOLEAN]
  BY <1>3 DEF JobOK
<1> HIDE DEF j
<1>5. JobOK' /\ job'.op = job.op /\ job'.cwd = job.cwd /\ job'.at = last
  BY <1>2, <1>4 DEF JobOK
<1>6. job.cwd \in Targets
  BY DEF Placed, Busy, NoJob
<1>7. Placed(job)'
  BY <1>1, <1>5, <1>6 DEF Placed, last
<1>8. Undoing => job'.at = 10
  BY <1>1, <1>5 DEF Undoing, last
<1> QED  BY <1>5, <1>7, <1>8

\* And the answer.
LEMMA NoJobPlaced ==
  ASSUME job' = NoJob
  PROVE  JobOK' /\ Placed(job')
BY DEF NoJob, JobOK, Placed, Roots

-----------------------------------------------------------------------------
\* What persisting leaves

\* Each document has the unit's rows, or none, or what it had.
LEMMA DocsCommitted ==
  ASSUME Types, CommitDocs
  PROVE  /\ At("docs") /\ Advance
         /\ UNCHANGED <<kind, disk, yaml, snapshot, live, watch, exclude, on, bounds, erased>>
         /\ spoiled' \in {spoiled, spoiled \cup {"failed", "undone"}}
         /\ docs' \in [own : Doc, files : Doc]
         /\ kind # "directory" => docs'.own = NoRows
<1>1. PICK path \in Spellings, namesake \in Namesakes :
         docs' = SaveNamed(docs, disk, Rows(live), yaml, path, namesake)
  BY DEF CommitDocs
<1>2. Rows(live) \in Doc /\ FilesPart(disk, Rows(live), yaml) \in Doc
  BY RowsDoc, NoRowsDoc DEF Types, StateOK, FilesPart
<1>3. docs' \in [own : Doc, files : Doc]
  BY <1>1, <1>2, NoRowsDoc DEF SaveNamed, Types, DocsOK
<1>4. kind # "directory" => docs'.own = NoRows
  BY <1>1 DEF SaveNamed, InFiles, Types, DocsOK
<1> QED  BY <1>3, <1>4 DEF CommitDocs

\* When all went well the documents of its own are those of the unit's rows, or gone;
\* the document of files stays only beside those that were there.
LEMMA DocsWell ==
  ASSUME Types, CommitDocs, "undone" \notin spoiled', kind # "last_file"
  PROVE  /\ spoiled' = spoiled
         /\ docs'.own \in {Rows(live), NoRows}
         /\ docs'.own # NoRows => yaml # {} /\ ~InFiles(disk)
         /\ live.row = {} => docs'.own = NoRows
         /\ docs'.files \in {FilesPart(disk, Rows(live), yaml), docs.files}
         /\ docs.own.row = {} => docs'.files = FilesPart(disk, Rows(live), yaml)
<1>1. PICK path \in Spellings, namesake \in Namesakes :
         /\ docs' = SaveNamed(docs, disk, Rows(live), yaml, path, namesake)
         /\ spoiled' = IF \/ path = "name" /\ namesake /\ yaml = {}
                          \/ path = "absolute" /\ kind = "directory"
                       THEN spoiled \cup {"failed", "undone"} ELSE spoiled
  BY DEF CommitDocs
<1>2. /\ spoiled' = spoiled
      /\ ~(path = "name" /\ namesake /\ yaml = {})
      /\ path = "absolute" => docs.own = NoRows
  BY <1>1 DEF Types, DocsOK
<1>3. Rows(live).row = live.row /\ WritesFiles(disk, Rows(live), yaml)
  BY DEF Rows, WritesFiles
<1>4. /\ docs'.own \in {Rows(live), NoRows}
      /\ docs'.own # NoRows => yaml # {} /\ ~InFiles(disk)
      /\ live.row = {} => docs'.own = NoRows
  BY <1>1, <1>2, <1>3 DEF SaveNamed
<1>5. /\ docs'.files \in {FilesPart(disk, Rows(live), yaml), docs.files}
      /\ docs.own.row = {} => docs'.files = FilesPart(disk, Rows(live), yaml)
  BY <1>1, <1>2, <1>3 DEF SaveNamed
<1> QED  BY <1>2, <1>4, <1>5

\* The full path of a directory leaves a shell that went wrong, at its answer.
LEMMA Elsewhere ==
  ASSUME Types, CommitElsewhere
  PROVE  /\ At("docs") /\ Busy /\ "undone" \in spoiled' /\ spoiled \subseteq spoiled'
         /\ spoiled' = spoiled \cup {"failed", "undone"}
         /\ disk' \subseteq disk
         /\ UNCHANGED <<kind, yaml, snapshot, docs, live, watch, exclude, on, bounds, erased>>
         /\ JobOK' /\ Placed(job)'
         /\ job'.op = job.op
         /\ Undoing => job.at = 9 /\ job'.at = 10
<1>0. TypeOK /\ JobOK /\ Placed(job)
  BY TypesTypeOK DEF Types
<1>1. At("docs") /\ Busy
  BY DEF CommitElsewhere, At
<1>2. (job.op = "create" /\ job.at = 8) \/ (Undoing /\ job.at = 9)
  BY <1>0, <1>1, StepOf
<1>3. JobOK' /\ Placed(job)' /\ job'.op = job.op /\ (Undoing => job'.at = 10)
  <2>1. CASE Advance
    <3>1. JobOK' /\ Placed(job)'
      BY <1>0, <1>1, <1>2, <2>1, AdvancedPlaced
    <3>2. job'.op = job.op /\ job'.at = job.at + 1
      BY <1>0, <2>1, Advanced
    <3> QED  BY <1>2, <3>1, <3>2 DEF Undoing
  <2>2. CASE job' = [job EXCEPT !.at = Len(Program[job.op]), !.warned = TRUE]
    BY <1>0, <1>1, <1>2, <2>2, AtAnswer DEF Undoing
  <2> QED  BY <2>1, <2>2 DEF CommitElsewhere
<1>4. Undoing => job.at = 9
  BY <1>2 DEF Undoing
<1> QED  BY <1>1, <1>3, <1>4 DEF CommitElsewhere

-----------------------------------------------------------------------------
\* What a start and an idle tick work out

Dropped    == snapshot \ yaml
Left       == disk \ Dropped
PrunedDocs == [row |-> ReadDocs.row \ Dropped, oos |-> ReadDocs.oos \ Dropped]
Stored     == IF yaml = snapshot THEN docs ELSE SaveAll(docs, Left, PrunedDocs, snapshot)
Trees      == [row |-> Stored.own.row \cup Stored.files.row,
               oos |-> Stored.own.oos \cup Stored.files.oos]
StartItem  == ItemOf(Left, [row |-> Trees.row, seen |-> Trees.row, oos |-> Trees.oos])
Caught     == IF yaml = {} THEN [StartItem EXCEPT !.row = @ \cap Left]
              ELSE CatchUpUpdate(StartItem, Hub, yaml, {})
Seeded     == IF Hub \in Left THEN yaml \ Trees.row ELSE {}
CaughtRows == [row |-> Caught.row, oos |-> Caught.oos \cap Caught.row]

\* A start, in the terms above.
LEMMA StartIs ==
  ASSUME Start
  PROVE  /\ ~on /\ (yaml \ snapshot # {} => Hub \in disk)
         /\ disk' = Caught.disk
         /\ exclude' = (exclude \ Dropped) \cup Seeded
         /\ docs' = SaveAll(Stored, disk', CaughtRows, yaml)
         /\ live' = [row |-> Caught.row, seen |-> disk' \cap Watched(yaml),
                     oos |-> Caught.oos \cap Caught.row]
         /\ on' = TRUE /\ snapshot' = yaml /\ watch' = yaml
         /\ erased' = (erased /\ ~Forgotten(disk', live', docs'))
         /\ UNCHANGED <<kind, yaml, job, bounds, spoiled>>
BY DEF Start, Dropped, Left, PrunedDocs, Stored, Trees, StartItem, Caught, Seeded, CaughtRows

\* What a start reads is a document again.
LEMMA StoredType ==
  ASSUME Types
  PROVE  /\ PrunedDocs \in Doc /\ Stored \in [own : Doc, files : Doc] /\ Trees \in Doc
         /\ kind # "directory" => Stored.own = NoRows
<1>1. PrunedDocs \in Doc
  BY DEF PrunedDocs, ReadDocs, Types, DocsOK, Doc
<1>2. Stored \in [own : Doc, files : Doc]
  BY <1>1, SaveTypes DEF Stored, Types, DocsOK
<1>3. Trees \in Doc
  BY <1>2 DEF Trees, Doc
<1>4. kind # "directory" => Stored.own = NoRows
  BY SaveOwn DEF Stored, Types, DocsOK
<1> QED  BY <1>1, <1>2, <1>3, <1>4

\* And the item it catches up is one, with rows only where a row or a target was.
LEMMA StartItemType ==
  ASSUME Types, NEW R \in SUBSET Roots, Hub \in R, Trees.row \subseteq R
  PROVE  /\ StartItem \in Item(Roots, R, Hub)
         /\ StartItem.disk = Left /\ StartItem.row = Trees.row /\ StartItem.seen = Trees.row
         /\ yaml \subseteq R => Caught \in Item(Roots, R, Hub)
<1>1. Trees \in Doc
  BY StoredType
<1>2. /\ StartItem = [disk |-> Left, row |-> Trees.row, seen |-> Trees.row, oos |-> Trees.oos,
                      box |-> {}, gone |-> FALSE]
  BY DEF StartItem, ItemOf
<1>3. Left \in SUBSET Roots /\ Trees.oos \in SUBSET (R \ {Hub})
  BY <1>1, RootsAssumption DEF Left, Types, StateOK, Doc, Roots
<1>4. StartItem \in Item(Roots, R, Hub)
  BY <1>2, <1>3 DEF Item
<1>5. ASSUME yaml \subseteq R PROVE Caught \in Item(Roots, R, Hub)
  <2>1. CASE yaml = {}
    <3>1. Caught = [StartItem EXCEPT !.row = StartItem.row \cap Left]
      BY <2>1 DEF Caught
    <3> QED  BY <1>4, <3>1 DEF Item
  <2>2. CASE yaml # {}
    <3>1. CatchUpUpdate(StartItem, Hub, yaml, {}) \in Item(Roots, R, Hub)
      BY <1>4, <1>5, OrderAssumption, CatchUpType
    <3> QED  BY <2>2, <3>1 DEF Caught
  <2> QED  BY <2>1, <2>2
<1> QED  BY <1>2, <1>4, <1>5

Ticked == Tick(ItemOf(disk, live), Hub, Watched(watch))

\* An idle tick.
LEMMA IdleTickIs ==
  ASSUME IdleTick
  PROVE  /\ on /\ ~Busy
         /\ disk' = Ticked.disk /\ live' = LiveOf(Ticked)
         /\ docs' \in {docs, SaveAll(docs, disk', Rows(live'), watch)}
         /\ erased' = (erased /\ ~Forgotten(disk', live', docs'))
         /\ UNCHANGED <<kind, yaml, snapshot, watch, exclude, on, job, bounds, spoiled>>
BY DEF IdleTick, Ticked

\* It leaves an item.
LEMMA TickedType ==
  ASSUME Types
  PROVE  Ticked \in Item(Roots, Roots, Hub)
<1>1. ItemOf(disk, live) \in Item(Roots, Roots, Hub)
  BY ItemTyped DEF Types, StateOK
<1>2. Watched(watch) \in SUBSET Roots
  BY WatchedRoots DEF Types, StateOK
<1> QED  BY <1>1, <1>2, OrderAssumption, TickType DEF Ticked, Roots

-----------------------------------------------------------------------------
\* Type correctness

\* The daemon runs with an item that is nowhere mapped, or in sync.
LEMMA TypesInit ==
  ASSUME Init
  PROVE  Types
<1> USE DEF Init
<1>1. PICK m \in {{}, Targets} :
       /\ yaml = m /\ snapshot = m /\ watch = m /\ exclude = m
       /\ disk \in IF m = {} THEN {{r} : r \in Targets} ELSE {Roots}
       /\ docs = [own   |-> IF kind = "directory" THEN [row |-> Watched(m), oos |-> {}] ELSE NoRows,
                  files |-> IF kind = "directory" THEN NoRows ELSE [row |-> Watched(m), oos |-> {}]]
       /\ live = [row |-> Watched(m), seen |-> Watched(m), oos |-> {}]
  OBVIOUS
<1>2. Watched(m) \in SUBSET Roots
  BY WatchedRoots
<1>3. disk \in SUBSET Roots
  BY <1>1 DEF Roots
<1>4. StateOK
  <2>1. yaml \subseteq Targets /\ snapshot \subseteq Targets /\ watch \subseteq Targets
        /\ exclude \subseteq Targets
    BY <1>1
  <2>2. live \in [row : SUBSET Roots, seen : SUBSET Roots, oos : SUBSET Targets]
    BY <1>1, <1>2
  <2>3. kind \in Kinds /\ {writes, edits, shells, faults} \subseteq Nat
        /\ spoiled \subseteq {"undone", "failed", "committed", "raced"}
    OBVIOUS
  <2>4. on \in BOOLEAN
    BY Zenon
  <2>5. erased \in BOOLEAN
    BY Zenon
  <2> QED  BY <1>3, <2>1, <2>2, <2>3, <2>4, <2>5 DEF StateOK
<1>5. DocsOK
  <2>1. [row |-> Watched(m), oos |-> {}] \in Doc
    BY <1>2 DEF Doc
  <2> QED  BY <1>1, <2>1, NoRowsDoc DEF DocsOK
<1>6. JobOK /\ Placed(job)
  BY DEF NoJob, JobOK, Placed, Roots
<1>7. OffOK
  BY DEF OffOK
<1> QED  BY <1>4, <1>5, <1>6, <1>7 DEF Types

\* Every step keeps the types.
LEMMA TypesNext ==
  ASSUME Types, [Next]_vars
  PROVE  Types'
<1>0. TypeOK
  BY TypesTypeOK
<1> USE DEF Types
<1>a. Busy => on
  BY DEF Busy, OffOK, NoJob
<1>1. CASE WriteDisk
  <2>1. disk' \subseteq Roots
    BY <1>1 DEF WriteDisk, StateOK
  <2>2. StateOK'
    BY <1>1, <2>1 DEF WriteDisk, StateOK
  <2> QED  BY <1>1, <2>2 DEF WriteDisk, DocsOK, JobOK, OffOK
<1>2. CASE EditYaml
  <2>2. StateOK'
    BY <1>2 DEF EditYaml, StateOK
  <2> QED  BY <1>2, <2>2 DEF EditYaml, DocsOK, JobOK, OffOK
<1>3. CASE OtherProject
  <2>1. docs' = docs \/ docs' = [docs EXCEPT !.own = NoRows]
    BY <1>3 DEF OtherProject
  <2>2. StateOK'
    BY <1>3 DEF OtherProject, StateOK, bounds
  <2>3. DocsOK'
    BY <1>3, <2>1, NoRowsDoc DEF OtherProject, DocsOK
  <2> QED  BY <1>3, <2>2, <2>3 DEF OtherProject, JobOK, OffOK
<1>4. CASE OtherItem
  <2>1. live' \in [row : SUBSET Roots, seen : SUBSET Roots, oos : SUBSET Targets]
    BY <1>4, PrunedType DEF OtherItem
  <2>2. StateOK'
    BY <1>4, <2>1 DEF OtherItem, StateOK, bounds
  <2>3. FilesPart(disk, Rows(live'), yaml) \in Doc
    BY <2>1, RowsDoc, NoRowsDoc DEF FilesPart
  <2>4. DocsOK'
    <3>1. docs' = docs \/ docs' = [docs EXCEPT !.files = FilesPart(disk, Rows(live'), yaml)]
      BY <1>4 DEF OtherItem
    <3> QED  BY <1>4, <2>3, <3>1 DEF OtherItem, DocsOK
  <2>5. OffOK' /\ JobOK' /\ Placed(job)'
    BY <1>4 DEF OtherItem, OffOK, JobOK
  <2> QED  BY <2>2, <2>4, <2>5
<1>5. CASE \E op \in DOMAIN Program, cwd \in Targets : Accept(op, cwd)
  <2>1. PICK op \in DOMAIN Program, cwd \in Targets : Accept(op, cwd)
    BY <1>5
  <2>2. op \in {"create", "restore", "remove"}
    BY DEF Program
  <2>3. JobOK' /\ Placed(job)'
    BY <2>1, <2>2 DEF Accept, JobOK, Placed, Roots, StateOK
  <2>4. StateOK'
    BY <2>1 DEF Accept, StateOK
  <2> QED  BY <2>1, <2>3, <2>4 DEF Accept, DocsOK, OffOK
<1>6. CASE Splice
  <2>0. At("splice")
    BY <1>6 DEF Splice
  <2>1. Busy /\ job.op = "create" /\ job.at = 1
    BY <1>0, <2>0, StepOf
  <2>2. JobOK' /\ Placed(job)' /\ yaml' \subseteq Targets
    <3>1. CASE job.done = Targets
      BY <1>6, <2>1, <3>1, AdvancedPlaced DEF Splice, StateOK
    <3>2. CASE job.done # Targets
      <4>1. PICK r \in Targets : Did(r) /\ yaml' = yaml \cup {r}
        BY <1>6, <3>2 DEF Splice
      <4> QED  BY <2>1, <4>1, DidPlaced DEF StateOK
    <3> QED  BY <3>1, <3>2
  <2>3. StateOK'
    BY <1>6, <2>2 DEF Splice, StateOK, bounds
  <2> QED  BY <1>6, <1>a, <2>1, <2>2, <2>3 DEF Splice, DocsOK, OffOK
<1>7. CASE Rewatch
  <2>0. At("watch")
    BY <1>7 DEF Rewatch
  <2>1. Busy /\ ((job.op = "create" /\ job.at = 2) \/ (Undoing /\ job.at \in {1, 7}))
    BY <1>0, <2>0, StepOf
  <2>2. JobOK' /\ Placed(job)'
    BY <1>7, <2>1, AdvancedPlaced DEF Rewatch
  <2>3. live' \in [row : SUBSET Roots, seen : SUBSET Roots, oos : SUBSET Targets]
    BY <1>7, PrunedType DEF Rewatch
  <2>4. StateOK'
    BY <1>7, <2>3 DEF Rewatch, StateOK, bounds
  <2> QED  BY <1>7, <1>a, <2>1, <2>2, <2>4 DEF Rewatch, DocsOK, OffOK
<1>8. CASE ChangeHub
  <2>0. At("hub")
    BY <1>8 DEF ChangeHub
  <2>1. Busy /\ ((job.op = "create" /\ job.at = 3) \/ (Undoing /\ job.at \in {2, 3}))
    BY <1>0, <2>0, StepOf
  <2>2. JobOK' /\ Placed(job)'
    BY <1>8, <2>1, AdvancedPlaced, NoJobPlaced DEF ChangeHub, GiveUp
  <2>3. disk' \subseteq Roots
    BY <1>8 DEF ChangeHub, StateOK, Put, Roots
  <2>3a. spoiled' \subseteq {"undone", "failed", "committed", "raced"}
    BY <1>8 DEF ChangeHub, StateOK, GiveUp
  <2>4. StateOK'
    BY <1>8, <2>3, <2>3a DEF ChangeHub, StateOK, bounds
  <2> QED  BY <1>8, <1>a, <2>1, <2>2, <2>4 DEF ChangeHub, DocsOK, OffOK
<1>9. CASE ChangeOthers
  <2>0. At("others")
    BY <1>9 DEF ChangeOthers
  <2>1. Busy /\ ((job.op = "create" /\ job.at = 4) \/ (Undoing /\ job.at \in {2, 3}))
    BY <1>0, <2>0, StepOf
  <2>1a. Reached \subseteq Targets
    BY <2>1 DEF Reached, StateOK, Placed, NoJob, Busy
  <2>2. /\ JobOK' /\ Placed(job)' /\ disk' \subseteq Roots
        /\ spoiled' \subseteq {"undone", "failed", "committed", "raced"}
    <3>1. CASE Reached \subseteq job.done
      <4>1. Advance /\ disk' = disk /\ spoiled' = spoiled
        BY <1>9, <3>1 DEF ChangeOthers
      <4>2. JobOK' /\ Placed(job)'
        BY <2>1, <4>1, AdvancedPlaced
      <4> QED  BY <4>1, <4>2 DEF StateOK
    <3>2. CASE ~(Reached \subseteq job.done) /\ job.op = "create" /\ Hub \notin disk
      BY <1>9, <3>2, NoJobPlaced DEF ChangeOthers, GiveUp, StateOK
    <3>3. CASE ~(Reached \subseteq job.done) /\ ~(job.op = "create" /\ Hub \notin disk)
      <4>1. PICK r \in Reached \ job.done :
              disk' = Put(disk, {r}, job.op = "create") /\ Did(r) /\ UNCHANGED spoiled
        BY <1>9, <3>3 DEF ChangeOthers
      <4>2. r \in Targets
        BY <2>1a
      <4>3. JobOK' /\ Placed(job)'
        BY <2>1, <4>1, <4>2, DidPlaced
      <4>4. disk' \subseteq Roots
        BY <4>1, <4>2 DEF Put, Roots, StateOK
      <4> QED  BY <4>1, <4>3, <4>4 DEF StateOK
    <3> QED  BY <3>1, <3>2, <3>3
  <2>4. StateOK'
    BY <1>9, <2>2 DEF ChangeOthers, StateOK, bounds
  <2> QED  BY <1>9, <1>a, <2>1, <2>2, <2>4 DEF ChangeOthers, DocsOK, OffOK
<1>10. CASE ChangeExcludes
  <2>0. At("exclude")
    BY <1>10 DEF ChangeExcludes
  <2>1. Busy /\ ((job.op = "create" /\ job.at = 5) \/ (Undoing /\ job.at = 4))
    BY <1>0, <2>0, StepOf
  <2>1a. watch \cup {job.cwd} \subseteq Targets
    BY <2>1 DEF StateOK, Placed, NoJob, Busy
  <2>2. JobOK' /\ Placed(job)' /\ exclude' \subseteq Targets
    <3>1. CASE watch \cup {job.cwd} \subseteq job.done
      BY <1>10, <2>1, <3>1, AdvancedPlaced DEF ChangeExcludes, StateOK
    <3>2. CASE ~(watch \cup {job.cwd} \subseteq job.done)
      <4>1. PICK r \in (watch \cup {job.cwd}) \ job.done : ExcludeLine(r) /\ Did(r)
        BY <1>10, <3>2 DEF ChangeExcludes
      <4>2. r \in Targets
        BY <2>1a
      <4>3. JobOK' /\ Placed(job)'
        BY <2>1, <4>1, <4>2, DidPlaced
      <4> QED  BY <4>1, <4>2, <4>3 DEF ExcludeLine, Put, StateOK
    <3> QED  BY <3>1, <3>2
  <2>4. StateOK'
    BY <1>10, <2>2 DEF ChangeExcludes, StateOK, bounds
  <2> QED  BY <1>10, <1>a, <2>1, <2>2, <2>4 DEF ChangeExcludes, DocsOK, OffOK
<1>11. CASE RecordShell
  <2>0. At("record")
    BY <1>11 DEF RecordShell
  <2>1. Busy /\ ((job.op = "create" /\ job.at = 6) \/ (Undoing /\ job.at = 5))
    BY <1>0, <2>0, StepOf
  <2>2. JobOK' /\ Placed(job)'
    BY <1>11, <2>1, AdvancedPlaced DEF RecordShell
  <2>3. live' \in [row : SUBSET Roots, seen : SUBSET Roots, oos : SUBSET Targets]
    <3>1. {Hub, job.cwd} \cup watch \subseteq Roots
      BY DEF StateOK, JobOK, Roots
    <3>2. CASE job.op = "create"
      <4>1. live' = LiveOf(Installed(ItemOf(disk, live)))
        BY <1>11, <3>2 DEF RecordShell
      <4> QED  BY <3>1, <4>1, InstalledLive DEF StateOK
    <3>3. CASE job.op # "create"
      <4>1. live' = LiveOf(Forget(ItemOf(disk, live), {Hub} \cup Reached))
        BY <1>11, <3>3 DEF RecordShell
      <4> QED  BY <4>1, ForgetLive DEF StateOK
    <3> QED  BY <3>2, <3>3
  <2>4. StateOK'
    BY <1>11, <2>3 DEF RecordShell, StateOK, bounds
  <2> QED  BY <1>11, <1>a, <2>1, <2>2, <2>4 DEF RecordShell, DocsOK, OffOK
<1>12. CASE DropMapping
  <2>0. At("drop")
    BY <1>12 DEF DropMapping
  <2>1. Busy /\ Undoing /\ job.at = 6
    BY <1>0, <2>0, StepOf
  <2>2. JobOK' /\ Placed(job)'
    BY <1>12, <2>1, AdvancedPlaced, NoJobPlaced DEF DropMapping, GiveUp
  <2>3. yaml' \subseteq Targets /\ spoiled' \subseteq {"undone", "failed", "committed", "raced"}
    BY <1>12 DEF DropMapping, StateOK, GiveUp
  <2>4. StateOK'
    BY <1>12, <2>3 DEF DropMapping, StateOK, bounds
  <2> QED  BY <1>12, <1>a, <2>1, <2>2, <2>4 DEF DropMapping, DocsOK, OffOK
<1>13. CASE CommitSnapshot
  <2>0. At("snapshot")
    BY <1>13 DEF CommitSnapshot
  <2>1. Busy /\ ((job.op = "create" /\ job.at = 7) \/ (Undoing /\ job.at = 8))
    BY <1>0, <2>0, StepOf
  <2>2. JobOK' /\ Placed(job)'
    BY <1>13, <2>1, AdvancedPlaced DEF CommitSnapshot
  <2>4. StateOK'
    BY <1>13 DEF CommitSnapshot, StateOK, bounds
  <2> QED  BY <1>13, <1>a, <2>1, <2>2, <2>4 DEF CommitSnapshot, DocsOK, OffOK
<1>14. CASE CommitDocs
  <2>0. At("docs")
    BY <1>14 DEF CommitDocs
  <2>1. Busy /\ ((job.op = "create" /\ job.at = 8) \/ (Undoing /\ job.at = 9))
    BY <1>0, <2>0, StepOf
  <2>2. JobOK' /\ Placed(job)'
    BY <1>14, <2>1, AdvancedPlaced DEF CommitDocs
  <2>3. DocsOK'
    BY <1>14, DocsCommitted DEF DocsOK
  <2>4. StateOK'
    BY <1>14, DocsCommitted DEF StateOK, bounds
  <2> QED  BY <1>14, <1>a, <2>1, <2>2, <2>3, <2>4 DEF CommitDocs, OffOK
<1>15. CASE Answer
  <2>3. live' \in [row : SUBSET Roots, seen : SUBSET Roots, oos : SUBSET Targets]
    BY <1>15, PrunedType DEF Answer
  <2>4. StateOK'
    BY <1>15, <2>3 DEF Answer, StateOK, bounds
  <2>5. Busy
    BY <1>15 DEF Answer, At
  <2> QED  BY <1>15, <1>a, <2>4, <2>5, NoJobPlaced DEF Answer, DocsOK, OffOK
<1>16. CASE StepFails
  <2>1. JobOK' /\ Placed(job)' /\ spoiled' \subseteq {"undone", "failed", "committed", "raced"}
    <3>1. CASE At("snapshot") \/ At("docs")
      <4>1. /\ job' = [job EXCEPT !.at = Len(Program[job.op]), !.warned = TRUE]
            /\ spoiled' = spoiled \cup {"failed", "undone"}
            /\ Busy
        BY <1>16, <3>1 DEF StepFails
      <4>2. JobOK' /\ Placed(job)'
        BY <1>0, <4>1, Steps, AtAnswer
      <4> QED  BY <4>1, <4>2 DEF StateOK
    <3>2. CASE ~(At("snapshot") \/ At("docs"))
      BY <1>16, <3>2, NoJobPlaced DEF StepFails, GiveUp, StateOK
    <3> QED  BY <3>1, <3>2
  <2>2. StateOK'
    BY <1>16, <2>1 DEF StepFails, StateOK
  <2>3. on
    BY <1>16, <1>a DEF StepFails
  <2> QED  BY <1>16, <2>1, <2>2, <2>3 DEF StepFails, DocsOK, OffOK
<1>17. CASE IdleTick
  <2>1. /\ on /\ ~Busy
        /\ disk' = Ticked.disk /\ live' = LiveOf(Ticked)
        /\ docs' \in {docs, SaveAll(docs, disk', Rows(live'), watch)}
        /\ erased' = (erased /\ ~Forgotten(disk', live', docs'))
        /\ UNCHANGED <<kind, yaml, snapshot, watch, exclude, on, job, bounds, spoiled>>
    BY <1>17, IdleTickIs
  <2>2. Ticked \in Item(Roots, Roots, Hub)
    BY TickedType
  <2>3. live' \in [row : SUBSET Roots, seen : SUBSET Roots, oos : SUBSET Targets]
    BY <2>1, <2>2, LiveTyped
  <2>4. disk' \subseteq Roots
    BY <2>1, <2>2 DEF Item
  <2>5. StateOK'
    BY <2>1, <2>3, <2>4 DEF StateOK, bounds
  <2>6. DocsOK'
    <3>1. Rows(live') \in Doc
      BY <2>3, RowsDoc
    <3> QED  BY <2>1, <3>1, SaveTypes, SaveOwn DEF DocsOK
  <2> QED  BY <2>1, <2>5, <2>6 DEF OffOK, JobOK
<1>18. CASE Stop
  <2>1. JobOK' /\ Placed(job)' /\ spoiled' \subseteq {"undone", "failed", "committed", "raced"}
        /\ job' = NoJob
    BY <1>18, NoJobPlaced DEF Stop, GiveUp, StateOK, Busy, Placed
  <2>2. NotLive \in [row : SUBSET Roots, seen : SUBSET Roots, oos : SUBSET Targets]
    BY DEF NotLive
  <2>3. {writes', edits', shells', faults'} \subseteq Nat
    BY <1>18 DEF Stop, StateOK
  <2>4. StateOK'
    BY <1>18, <2>1, <2>2, <2>3 DEF Stop, StateOK
  <2> QED  BY <1>18, <2>1, <2>4 DEF Stop, DocsOK, OffOK
<1>19. CASE Start
  <2>1. /\ disk' = Caught.disk
        /\ exclude' = (exclude \ Dropped) \cup Seeded
        /\ docs' = SaveAll(Stored, disk', CaughtRows, yaml)
        /\ live' = [row |-> Caught.row, seen |-> disk' \cap Watched(yaml),
                    oos |-> Caught.oos \cap Caught.row]
        /\ on' = TRUE /\ snapshot' = yaml /\ watch' = yaml
        /\ erased' = (erased /\ ~Forgotten(disk', live', docs'))
        /\ UNCHANGED <<kind, yaml, job, bounds, spoiled>>
    BY <1>19, StartIs
  <2>2. Caught \in Item(Roots, Roots, Hub)
    <3>1. Trees.row \subseteq Roots
      BY StoredType DEF Doc
    <3> QED  BY <3>1, StartItemType DEF Roots, StateOK
  <2>3. disk' \subseteq Roots /\ CaughtRows \in Doc
        /\ live' \in [row : SUBSET Roots, seen : SUBSET Roots, oos : SUBSET Targets]
    BY <2>1, <2>2 DEF Item, CaughtRows, Doc, Roots
  <2>4. exclude' \subseteq Targets
    BY <2>1 DEF StateOK, Seeded
  <2>5. StateOK'
    BY <2>1, <2>3, <2>4 DEF StateOK, bounds
  <2>6. DocsOK'
    BY <2>1, <2>3, StoredType, SaveTypes, SaveOwn DEF DocsOK
  <2> QED  BY <2>1, <2>5, <2>6 DEF OffOK, JobOK
<1>20. CASE UNCHANGED vars
  BY <1>20 DEF vars, bounds, StateOK, DocsOK, JobOK, OffOK
<1>21. CASE CommitElsewhere
  <2>1. StateOK'
    BY <1>21, Elsewhere DEF StateOK, bounds
  <2> QED  BY <1>21, <1>a, <2>1, Elsewhere DEF DocsOK, OffOK
<1> QED
  BY <1>1, <1>2, <1>3, <1>4, <1>5, <1>6, <1>7, <1>8, <1>9, <1>10, <1>11, <1>12, <1>13, <1>14,
     <1>15, <1>16, <1>17, <1>18, <1>19, <1>20, <1>21 DEF Next, ShellSteps

\* Every variable has its type, whatever the kinds of item and the bounds.
THEOREM TypeCorrect == Spec => []TypeOK
<1>1. Init => Types
  BY TypesInit
<1>2. Types /\ [Next]_vars => Types'
  BY TypesNext
<1>3. Types => TypeOK
  BY TypesTypeOK
<1> QED  BY <1>1, <1>2, <1>3, PTL DEF Spec

-----------------------------------------------------------------------------
\* What the unit remembers

\* Between jobs, and before a create records, what is remembered of a root that is
\* not watched has a row.
Remembered ==
  ("undone" \notin spoiled /\ (~Busy \/ (job.op = "create" /\ job.at <= 6)))
    => (live.seen \cup live.oos) \ Watched(watch) \subseteq live.row

\* Every step keeps that: a prune forgets what is not watched, a tick adds rows to it.
LEMMA RememberedNext ==
  ASSUME Types, Remembered, [Next]_vars
  PROVE  Remembered'
<1>0. TypeOK
  BY TypesTypeOK
<1> SUFFICES ASSUME "undone" \notin spoiled', ~Busy' \/ (job'.op = "create" /\ job'.at <= 6)
             PROVE  ((live.seen \cup live.oos) \ Watched(watch) \subseteq live.row)'
  BY DEF Remembered
<1> DEFINE Now == ~Busy \/ (job.op = "create" /\ job.at <= 6)
           R == (live.seen \cup live.oos) \ Watched(watch) \subseteq live.row
<1>a. "undone" \notin spoiled /\ Now => R
  BY DEF Remembered
<1>b. ASSUME live' = live, watch' = watch, "undone" \notin spoiled, Now
      PROVE  R'
  BY <1>a, <1>b
<1>c. ASSUME NEW m, live' = LiveOf(Prune(ItemOf(disk, live), Watched(m))), watch' = m
      PROVE  R'
  <2>1. live'.seen = live.seen \cap Watched(m) /\ live'.oos = live.oos \cap Watched(m)
    BY <1>c, PrunedType DEF Types
  <2> QED  BY <1>c, <2>1
<1>d. JobOK
  BY DEF Types
<1>1. CASE WriteDisk
  <2>1. live' = live /\ watch' = watch /\ job' = job /\ "undone" \notin spoiled
    BY <1>1 DEF WriteDisk
  <2> QED  BY <1>b, <2>1 DEF Busy
<1>2. CASE EditYaml
  <2>1. live' = live /\ watch' = watch /\ job' = job /\ "undone" \notin spoiled
    BY <1>2 DEF EditYaml
  <2> QED  BY <1>b, <2>1 DEF Busy
<1>3. CASE OtherProject
  <2>1. live' = live /\ watch' = watch /\ job' = job /\ "undone" \notin spoiled
    BY <1>3 DEF OtherProject
  <2> QED  BY <1>b, <2>1 DEF Busy
<1>4. CASE OtherItem
  BY <1>4, <1>c DEF OtherItem
<1>5. CASE \E op \in DOMAIN Program, cwd \in Targets : Accept(op, cwd)
  <2>1. live' = live /\ watch' = watch /\ ~Busy /\ "undone" \notin spoiled
    BY <1>5 DEF Accept
  <2> QED  BY <1>b, <2>1
<1>6. CASE Splice
  <2>0. At("splice")
    BY <1>6 DEF Splice
  <2>1. job.op = "create" /\ job.at = 1
    BY <1>0, <2>0, StepOf
  <2>2. live' = live /\ watch' = watch /\ spoiled' = spoiled
    BY <1>6 DEF Splice
  <2> QED  BY <1>b, <2>1, <2>2
<1>7. CASE Rewatch
  BY <1>7, <1>c DEF Rewatch
<1>8. CASE ChangeHub
  <2>0. At("hub")
    BY <1>8 DEF ChangeHub
  <2>1. Busy /\ ((job.op = "create" /\ job.at = 3) \/ (Undoing /\ job.at \in {2, 3}))
    BY <1>0, <2>0, StepOf
  <2>2. live' = live /\ watch' = watch /\ spoiled \subseteq spoiled'
    BY <1>8 DEF ChangeHub, GiveUp
  <2>3. CASE job.op = "create" /\ job.at = 3
    BY <1>b, <2>2, <2>3
  <2>4. CASE Undoing
    <3>1. job'.op = job.op
      BY <1>8, <1>d, <2>4, Advanced DEF ChangeHub, Undoing
    <3> QED  BY <2>1, <2>4, <3>1 DEF Undoing, Busy
  <2> QED  BY <2>1, <2>3, <2>4
<1>9. CASE ChangeOthers
  <2>0. At("others")
    BY <1>9 DEF ChangeOthers
  <2>1. Busy /\ ((job.op = "create" /\ job.at = 4) \/ (Undoing /\ job.at \in {2, 3}))
    BY <1>0, <2>0, StepOf
  <2>2. live' = live /\ watch' = watch /\ spoiled \subseteq spoiled'
    BY <1>9 DEF ChangeOthers, GiveUp
  <2>3. CASE job.op = "create" /\ job.at = 4
    BY <1>b, <2>2, <2>3
  <2>4. CASE Undoing
    <3>1. Advance \/ \E r \in Reached \ job.done : Did(r)
      BY <1>9, <2>4 DEF ChangeOthers, Undoing
    <3>2. job'.op = job.op
      <4>1. Advance => job'.op = job.op
        BY <1>d, Advanced
      <4>2. ASSUME NEW r, Did(r) PROVE job'.op = job.op
        BY <1>d, <4>2 DEF Did, JobOK
      <4> QED  BY <3>1, <4>1, <4>2
    <3> QED  BY <2>1, <2>4, <3>2 DEF Undoing, Busy
  <2> QED  BY <2>1, <2>3, <2>4
<1>10. CASE ChangeExcludes
  <2>0. At("exclude")
    BY <1>10 DEF ChangeExcludes
  <2>1. Busy /\ ((job.op = "create" /\ job.at = 5) \/ (Undoing /\ job.at = 4))
    BY <1>0, <2>0, StepOf
  <2>2. live' = live /\ watch' = watch /\ spoiled' = spoiled
    BY <1>10 DEF ChangeExcludes
  <2>3. CASE job.op = "create" /\ job.at = 5
    BY <1>b, <2>2, <2>3
  <2>4. CASE Undoing
    <3>1. Advance \/ \E r \in (watch \cup {job.cwd}) \ job.done : Did(r)
      BY <1>10, <2>4 DEF ChangeExcludes
    <3>2. job'.op = job.op
      <4>1. Advance => job'.op = job.op
        BY <1>d, Advanced
      <4>2. ASSUME NEW r, Did(r) PROVE job'.op = job.op
        BY <1>d, <4>2 DEF Did, JobOK
      <4> QED  BY <3>1, <4>1, <4>2
    <3> QED  BY <2>1, <2>4, <3>2 DEF Undoing, Busy
  <2> QED  BY <2>1, <2>3, <2>4
<1>e. ASSUME Advance, Busy, (job.op = "create" /\ job.at >= 6) \/ Undoing
      PROVE  FALSE
  <2>1. job'.op = job.op /\ job'.at = job.at + 1 /\ job.at \in Nat
    BY <1>d, <1>e, Advanced DEF JobOK
  <2> QED  BY <1>e, <2>1 DEF Undoing, Busy
<1>11. CASE RecordShell
  <2>0. At("record") /\ Advance
    BY <1>11 DEF RecordShell
  <2>1. Busy /\ ((job.op = "create" /\ job.at = 6) \/ (Undoing /\ job.at = 5))
    BY <1>0, <2>0, StepOf
  <2> QED  BY <1>e, <2>0, <2>1
<1>12. CASE DropMapping
  <2>0. At("drop") /\ (Advance \/ GiveUp)
    BY <1>12 DEF DropMapping
  <2>1. Busy /\ Undoing
    BY <1>0, <2>0, StepOf
  <2>2. ~GiveUp
    BY <2>1 DEF GiveUp, Undoing
  <2> QED  BY <1>e, <2>0, <2>1, <2>2
<1>13. CASE CommitSnapshot
  <2>0. At("snapshot") /\ Advance
    BY <1>13 DEF CommitSnapshot
  <2>1. Busy /\ ((job.op = "create" /\ job.at = 7) \/ (Undoing /\ job.at = 8))
    BY <1>0, <2>0, StepOf
  <2> QED  BY <1>e, <2>0, <2>1
<1>14. CASE CommitDocs
  <2>0. At("docs") /\ Advance
    BY <1>14 DEF CommitDocs
  <2>1. Busy /\ ((job.op = "create" /\ job.at = 8) \/ (Undoing /\ job.at = 9))
    BY <1>0, <2>0, StepOf
  <2> QED  BY <1>e, <2>0, <2>1
<1>15. CASE Answer
  BY <1>15, <1>c DEF Answer
<1>16. CASE StepFails
  <2>1. Busy /\ live' = live /\ watch' = watch /\ ~At("record") /\ ~At("watch")
    BY <1>16 DEF StepFails, At
  <2>2. ~(At("snapshot") \/ At("docs")) /\ GiveUp /\ job.op = "create"
    BY <1>16 DEF StepFails, GiveUp
  <2>3. job.op = "create" /\ job.at \in 1 .. 9 /\ job.at \notin {7, 8, 9}
    <3>1. job.at \in 1 .. 9
      BY <1>0, <2>2, Steps
    <3>2. Program[job.op][job.at] \notin {"watch", "record", "answer", "snapshot", "docs"}
      BY <1>16, <2>2 DEF StepFails, At
    <3>3. CreateSteps[7] = "snapshot" /\ CreateSteps[8] = "docs" /\ CreateSteps[9] = "answer"
      BY DEF CreateSteps
    <3>4. Program[job.op] = CreateSteps
      BY <2>2 DEF Program
    <3> QED  BY <2>2, <3>1, <3>2, <3>3, <3>4
  <2>4. job.at <= 6
    BY <2>3
  <2>5. "undone" \notin spoiled
    BY <2>2 DEF GiveUp
  <2> QED  BY <1>b, <2>1, <2>3, <2>4, <2>5
<1>17. CASE IdleTick
  <2>1. on /\ ~Busy /\ live' = LiveOf(Ticked) /\ UNCHANGED <<watch, spoiled>>
    BY <1>17, IdleTickIs
  <2>2. ItemOf(disk, live) \in Item(Roots, Roots, Hub)
    BY ItemTyped DEF Types, StateOK
  <2>3. Watched(watch) \in SUBSET Roots
    BY WatchedRoots DEF Types, StateOK
  <2>4. R
    BY <1>a, <2>1
  <2>5. (ItemOf(disk, live).seen \cup ItemOf(disk, live).oos) \ Watched(watch)
          \subseteq ItemOf(disk, live).row
    BY <2>4, ItemOfFields
  <2>6. Within(Ticked, Watched(watch))
    BY <2>2, <2>3, <2>5, OrderAssumption, TickWithin DEF Ticked, Roots
  <2>7. live'.row = Ticked.row /\ live'.seen = Ticked.seen /\ live'.oos = Ticked.oos
    BY <2>1 DEF LiveOf
  <2> QED  BY <2>1, <2>6, <2>7 DEF Within
<1>18. CASE Stop
  BY <1>18 DEF Stop, NotLive
<1>19. CASE Start
  <2>1. live' = [row |-> Caught.row, seen |-> disk' \cap Watched(yaml), oos |-> Caught.oos \cap Caught.row]
        /\ watch' = yaml
    BY <1>19, StartIs
  <2> QED  BY <2>1
<1>20. CASE UNCHANGED vars
  <2>1. live' = live /\ watch' = watch /\ job' = job /\ spoiled' = spoiled
    BY <1>20 DEF vars
  <2> QED  BY <1>b, <2>1 DEF Busy
<1>21. CASE CommitElsewhere
  BY <1>21, Elsewhere
<1> QED
  BY <1>1, <1>2, <1>3, <1>4, <1>5, <1>6, <1>7, <1>8, <1>9, <1>10, <1>11, <1>12, <1>13, <1>14,
     <1>15, <1>16, <1>17, <1>18, <1>19, <1>20, <1>21 DEF Next, ShellSteps

\* A restore or a remove that nobody raced has the mapping it found, then none, and
\* at the end it remembers nothing.
Unraced ==
  ("raced" \notin spoiled /\ Undoing) =>
    /\ job.at <= 6 => yaml = job.listed
    /\ job.at >= 7 => yaml = {}
    /\ job.at >= 8 => live = NotLive

\* Every step keeps that: only a racing edit of the yaml file brings an entry back.
LEMMA UnracedNext ==
  ASSUME Types, Unraced, [Next]_vars
  PROVE  Unraced'
<1>0. TypeOK /\ JobOK
  BY TypesTypeOK DEF Types
<1> SUFFICES ASSUME "raced" \notin spoiled', Undoing'
             PROVE  /\ job'.at <= 6 => yaml' = job'.listed
                    /\ job'.at >= 7 => yaml' = {}
                    /\ job'.at >= 8 => live' = NotLive
  BY DEF Unraced
<1> DEFINE Goal == /\ job'.at <= 6 => yaml' = job'.listed
                   /\ job'.at >= 7 => yaml' = {}
                   /\ job'.at >= 8 => live' = NotLive
<1>a. Busy' /\ job'.op # "create" /\ job' # NoJob
  BY DEF Busy, Undoing, NoJob
<1>b. ("raced" \notin spoiled /\ Undoing) =>
        /\ job.at <= 6 => yaml = job.listed
        /\ job.at >= 7 => yaml = {}
        /\ job.at >= 8 => live = NotLive
  BY DEF Unraced
<1>c. ASSUME job' = job, yaml' = yaml, live' = live, "raced" \notin spoiled PROVE Goal
  BY <1>b, <1>c DEF Undoing
<1>c2. ASSUME job'.op = job.op, job'.at = job.at, job'.listed = job.listed, yaml' = yaml,
              live' = live, "raced" \notin spoiled
       PROVE  Goal
  BY <1>b, <1>c2 DEF Undoing
<1>d. ASSUME Advance, yaml' = yaml, live' = live, "raced" \notin spoiled, job.at \in {2, 3, 4, 5, 8, 9}
      PROVE  Goal
  <2>1. job'.op = job.op /\ job'.at = job.at + 1 /\ job'.listed = job.listed
    BY <1>0, <1>d, Advanced
  <2> QED  BY <1>b, <1>d, <2>1 DEF Undoing
<1>1. CASE WriteDisk
  BY <1>1, <1>c, <1>a DEF WriteDisk, Busy
<1>2. CASE EditYaml
  BY <1>2, <1>a DEF EditYaml, Busy
<1>3. CASE OtherProject
  BY <1>3, <1>c DEF OtherProject
<1>4. CASE OtherItem
  BY <1>4, <1>a DEF OtherItem, Busy
<1>5. CASE \E op \in DOMAIN Program, cwd \in Targets : Accept(op, cwd)
  BY <1>5 DEF Accept
<1>6. CASE Splice
  <2>0. At("splice")
    BY <1>6 DEF Splice
  <2>1. job.op = "create" /\ job.at = 1
    BY <1>0, <2>0, StepOf
  <2>2. job'.op = job.op
    BY <1>0, <1>6 DEF Splice, Advance, Did, JobOK
  <2> QED  BY <1>a, <2>1, <2>2
<1>7. CASE Rewatch
  <2>0. At("watch") /\ Advance /\ yaml' = yaml /\ spoiled' = spoiled
        /\ live' = LiveOf(Prune(ItemOf(disk, live), Watched(yaml)))
    BY <1>7 DEF Rewatch
  <2>1. (job.op = "create" /\ job.at = 2) \/ (Undoing /\ job.at \in {1, 7})
    BY <1>0, <2>0, StepOf
  <2>2. job'.op = job.op /\ job'.at = job.at + 1 /\ job'.listed = job.listed
    BY <1>0, <2>0, Advanced
  <2>3. yaml = {} => live' = NotLive
    <3>1. live' = [row |-> live.row \cap Watched(yaml), seen |-> live.seen \cap Watched(yaml),
                   oos |-> live.oos \cap Watched(yaml)]
      BY <2>0, PrunedLive
    <3>2. yaml = {} => Watched(yaml) = {}
      BY DEF Watched
    <3> QED  BY <3>1, <3>2 DEF NotLive
  <2> QED  BY <1>a, <1>b, <2>0, <2>1, <2>2, <2>3
<1>8. CASE ChangeHub
  <2>0. At("hub") /\ Advance /\ yaml' = yaml /\ live' = live /\ spoiled' = spoiled
    BY <1>8, <1>a DEF ChangeHub, GiveUp
  <2>1. (job.op = "create" /\ job.at = 3) \/ (Undoing /\ job.at \in {2, 3})
    BY <1>0, <2>0, StepOf
  <2> QED  BY <1>d, <2>0, <2>1
<1>9. CASE ChangeOthers
  <2>0. At("others") /\ yaml' = yaml /\ live' = live
    BY <1>9 DEF ChangeOthers
  <2>1. (job.op = "create" /\ job.at = 4) \/ (Undoing /\ job.at \in {2, 3})
    BY <1>0, <2>0, StepOf
  <2>2. spoiled' = spoiled /\ (Advance \/ \E r \in Reached \ job.done : Did(r))
    BY <1>9, <1>a DEF ChangeOthers, GiveUp
  <2>3. ASSUME NEW r, Did(r) PROVE Goal
    <3>1. job'.op = job.op /\ job'.at = job.at /\ job'.listed = job.listed
      BY <1>0, <2>3 DEF Did, JobOK
    <3> QED  BY <1>c2, <2>0, <2>2, <3>1
  <2> QED  BY <1>d, <2>0, <2>1, <2>2, <2>3
<1>10. CASE ChangeExcludes
  <2>0. At("exclude") /\ yaml' = yaml /\ live' = live /\ spoiled' = spoiled
        /\ (Advance \/ \E r \in (watch \cup {job.cwd}) \ job.done : Did(r))
    BY <1>10 DEF ChangeExcludes
  <2>1. (job.op = "create" /\ job.at = 5) \/ (Undoing /\ job.at = 4)
    BY <1>0, <2>0, StepOf
  <2>3. ASSUME NEW r, Did(r) PROVE Goal
    <3>1. job'.op = job.op /\ job'.at = job.at /\ job'.listed = job.listed
      BY <1>0, <2>3 DEF Did, JobOK
    <3> QED  BY <1>c2, <2>0, <3>1
  <2> QED  BY <1>d, <2>0, <2>1, <2>3
<1>11. CASE RecordShell
  <2>0. At("record") /\ Advance /\ yaml' = yaml /\ spoiled' = spoiled
    BY <1>11 DEF RecordShell
  <2>1. (job.op = "create" /\ job.at = 6) \/ (Undoing /\ job.at = 5)
    BY <1>0, <2>0, StepOf
  <2>2. job'.op = job.op /\ job'.at = job.at + 1 /\ job'.listed = job.listed
    BY <1>0, <2>0, Advanced
  <2> QED  BY <1>a, <1>b, <2>0, <2>1, <2>2
<1>12. CASE DropMapping
  <2>0. At("drop") /\ Advance /\ yaml' = yaml \ job.listed /\ spoiled' = spoiled /\ live' = live
    BY <1>12, <1>a DEF DropMapping, GiveUp
  <2>1. Undoing /\ job.at = 6
    BY <1>0, <2>0, StepOf
  <2>2. job'.op = job.op /\ job'.at = job.at + 1 /\ job'.listed = job.listed
    BY <1>0, <2>0, Advanced
  <2> QED  BY <1>b, <2>0, <2>1, <2>2
<1>13. CASE CommitSnapshot
  <2>0. At("snapshot") /\ Advance /\ yaml' = yaml /\ live' = live /\ spoiled' = spoiled
    BY <1>13 DEF CommitSnapshot
  <2>1. (job.op = "create" /\ job.at = 7) \/ (Undoing /\ job.at = 8)
    BY <1>0, <2>0, StepOf
  <2>2. job'.op = job.op
    BY <1>0, <2>0, Advanced
  <2> QED  BY <1>a, <1>d, <2>0, <2>1, <2>2
<1>14. CASE CommitDocs
  <2>0. At("docs") /\ Advance /\ yaml' = yaml /\ live' = live /\ spoiled \subseteq spoiled'
    BY <1>14, DocsCommitted
  <2>1. (job.op = "create" /\ job.at = 8) \/ (Undoing /\ job.at = 9)
    BY <1>0, <2>0, StepOf
  <2> QED  BY <1>d, <2>0, <2>1
<1>15. CASE Answer
  BY <1>15, <1>a DEF Answer
<1>16. CASE StepFails
  <2>1. /\ job' = [job EXCEPT !.at = Len(Program[job.op]), !.warned = TRUE]
        /\ At("snapshot") \/ At("docs")
        /\ yaml' = yaml /\ live' = live /\ spoiled \subseteq spoiled'
    BY <1>16, <1>a DEF StepFails, GiveUp
  <2>2. \/ job.op = "create"
        \/ Undoing /\ job.at \in {8, 9}
    BY <1>0, <2>1, StepOf
  <2> DEFINE last == Len(Program[job.op])
             j == [job EXCEPT !.at = last]
  <2>3. job' = [j EXCEPT !.warned = TRUE]
    BY <2>1
  <2>4. Undoing => last = 10
    BY DEF Undoing, Program, RestoreSteps, RemoveSteps
  <2> HIDE DEF last
  <2>5. j.op = job.op /\ j.at = last
        /\ DOMAIN j = {"op", "cwd", "at", "done", "listed", "warned"}
    BY <1>0 DEF JobOK
  <2> HIDE DEF j
  <2>6. job'.op = job.op /\ job'.at = last
    BY <2>3, <2>5
  <2> QED  BY <1>a, <1>b, <2>1, <2>2, <2>4, <2>6
<1>17. CASE IdleTick
  BY <1>17, <1>a DEF IdleTick, Busy
<1>18. CASE Stop
  BY <1>18, <1>a DEF Stop, GiveUp, Busy
<1>19. CASE Start
  <2>1. job = NoJob /\ job' = job
    BY <1>19 DEF Start, Types, OffOK
  <2> QED  BY <1>a, <2>1
<1>20. CASE UNCHANGED vars
  BY <1>20, <1>c DEF vars
<1>21. CASE CommitElsewhere
  <2>1. /\ yaml' = yaml /\ live' = live /\ "raced" \notin spoiled
        /\ Undoing /\ job.at = 9 /\ job'.at = 10
    BY <1>21, Elsewhere DEF Undoing
  <2> QED  BY <1>b, <2>1
<1> QED
  BY <1>1, <1>2, <1>3, <1>4, <1>5, <1>6, <1>7, <1>8, <1>9, <1>10, <1>11, <1>12, <1>13, <1>14,
     <1>15, <1>16, <1>17, <1>18, <1>19, <1>20, <1>21 DEF Next, ShellSteps

-----------------------------------------------------------------------------
\* While nothing was deleted, what is recorded is on disk

\* No user deleted a copy, no restore or remove failed, and no directory was raced.
Good == ~erased /\ "undone" \notin spoiled /\ (kind = "directory" => "raced" \notin spoiled)

DocRows == docs.own.row \cup docs.files.row

\* Rows and what was seen are on disk, also what a restore or a remove is deleting,
\* until the job has deleted it and not yet recorded that.
Backed ==
  Good =>
    /\ (~Undoing \/ job.at = 10) => DocRows \subseteq disk
    /\ (~Undoing \/ job.at \notin 2 .. 5) => live.row \cup live.seen \subseteq disk
    /\ (Undoing /\ job.at \in 2 .. 5) => live.row \cup live.seen \subseteq disk \cup {Hub} \cup Reached
    /\ (job.op = "create" /\ job.at >= 4) => Hub \in disk

HubIn(S) == S # {} => Hub \in S

\* A directory has rows of targets only with the managed copy's, in one document.
HubRows ==
  (Good /\ kind = "directory") =>
    /\ HubIn(docs.own.row) /\ HubIn(docs.files.row)
    /\ docs.own.row = {} \/ docs.files.row = {}
    /\ (~Undoing \/ job.at <= 5) => HubIn(live.row) /\ (Hub \in live.seen => Hub \in live.row)

\* A full save writes the document of files, but for a last file.
LEMMA SavedFiles ==
  ASSUME kind # "last_file", NEW old, NEW d, NEW kept, NEW m
  PROVE  SaveAll(old, d, kept, m).files = FilesPart(d, kept, m)
BY DEF SaveAll, WritesFiles

\* And replaces a document of its own by rows, or leaves it.
LEMMA SavedOwn ==
  ASSUME NEW old, NEW d, NEW kept, NEW m
  PROVE  /\ (m # {} /\ ~InFiles(d) /\ kept.row # {}) => SaveAll(old, d, kept, m).own = kept
         /\ ~(m # {} /\ ~InFiles(d) /\ kept.row # {}) => SaveAll(old, d, kept, m).own = old.own
BY DEF SaveAll

\* The document of files has rows of the item, of a mapped one that is not a managed directory.
LEMMA FilesRows ==
  ASSUME NEW d, NEW kept, NEW m
  PROVE  /\ FilesPart(d, kept, m).row \subseteq kept.row
         /\ FilesPart(d, kept, m).row # {} => m # {} /\ InFiles(d)
BY DEF FilesPart, NoRows

\* A full save of rows that are on disk, of which the hub's is one if there is any.
LEMMA SaveAllKeeps ==
  ASSUME kind # "last_file", NEW old, NEW d, NEW kept, NEW m,
         old.own.row \subseteq d, kept.row \subseteq d
  PROVE  LET new == SaveAll(old, d, kept, m)
         IN  /\ new.own.row \subseteq d /\ new.files.row \subseteq d
             /\ (HubIn(old.own.row) /\ HubIn(kept.row) /\ kind = "directory") =>
                   HubIn(new.own.row) /\ new.files.row = {}
<1> DEFINE new == SaveAll(old, d, kept, m)
<1>1. new.own \in {kept, old.own} /\ new.files = FilesPart(d, kept, m)
  BY SavedFiles, SavedOwn
<1>2. new.files.row \subseteq kept.row /\ (new.files.row # {} => InFiles(d))
  BY <1>1, FilesRows
<1> HIDE DEF new
<1>3. ASSUME HubIn(kept.row), kind = "directory" PROVE new.files.row = {}
  <2> SUFFICES ASSUME new.files.row # {} PROVE FALSE
    OBVIOUS
  <2>1. Hub \in kept.row
    BY <1>2, <1>3 DEF HubIn
  <2> QED  BY <1>2, <1>3, <2>1 DEF InFiles
<1>4. /\ new.own.row \subseteq d /\ new.files.row \subseteq d
      /\ (HubIn(old.own.row) /\ HubIn(kept.row) /\ kind = "directory") =>
             HubIn(new.own.row) /\ new.files.row = {}
  BY <1>1, <1>2, <1>3 DEF HubIn
<1> QED  BY <1>4 DEF new

\* What a start works with and makes, when nothing was deleted.
LEMMA StartKeeps ==
  ASSUME "last_file" \notin Kinds, Types, Backed, HubRows, Good, ~on
  PROVE  /\ Trees.row \subseteq Left /\ (kind = "directory" => HubIn(Trees.row))
         /\ Stored.own.row \cup Stored.files.row = Trees.row
         /\ kind = "directory" => HubIn(Stored.own.row)
         /\ Left \subseteq Caught.disk /\ Caught.row \subseteq Caught.disk
         /\ (yaml # {} /\ Hub \in Caught.disk) => Hub \in Caught.row
         /\ kind = "directory" => HubIn(Caught.row)
         /\ Hub \in Left => Watched(yaml) \subseteq Caught.disk
<1>0. /\ kind # "last_file" /\ ~Undoing /\ Hub \notin Dropped
      /\ docs.own.row \subseteq disk /\ docs.files.row \subseteq disk
  <2>1. job = NoJob
    BY DEF Types, OffOK
  <2>2. ~Undoing
    BY <2>1 DEF Undoing, NoJob
  <2>3. Hub \notin Dropped
    BY RootsAssumption DEF Dropped, Types, StateOK
  <2> QED  BY <2>2, <2>3 DEF Types, StateOK, Backed, DocRows
<1>1. PrunedDocs.row = (docs.own.row \cup docs.files.row) \ Dropped
  BY DEF PrunedDocs, ReadDocs
<1>2. PrunedDocs.row \subseteq Left
  BY <1>0, <1>1 DEF Left
<1>3. kind = "directory" => HubIn(docs.own.row) /\ HubIn(docs.files.row)
  BY DEF HubRows
<1>4. kind = "directory" => HubIn(PrunedDocs.row)
  BY <1>0, <1>1, <1>3 DEF HubIn
<1>5. Stored.own.row \subseteq Left /\ Stored.files.row \subseteq Left
      /\ (kind = "directory" => HubIn(Stored.own.row) /\ HubIn(Stored.files.row))
  <2>1. CASE yaml = snapshot
    BY <1>0, <1>3, <2>1 DEF Stored, Left, Dropped
  <2>2. CASE yaml # snapshot
    <3>1. Stored = SaveAll(docs, Left, PrunedDocs, snapshot)
      BY <2>2 DEF Stored
    <3>2. Stored.files.row \subseteq PrunedDocs.row
      BY <1>0, <3>1, SavedFiles, FilesRows
    <3>3. kind = "directory" => HubIn(Stored.files.row)
      <4>1. ASSUME kind = "directory", Stored.files.row # {} PROVE FALSE
        <5>1. InFiles(Left) /\ Hub \in PrunedDocs.row
          BY <1>0, <1>4, <3>1, <3>2, <4>1, SavedFiles, FilesRows DEF HubIn
        <5> QED  BY <1>2, <4>1, <5>1 DEF InFiles
      <4> QED  BY <4>1 DEF HubIn
    <3>4. CASE kind # "directory"
      <4>1. Stored.own = NoRows
        BY <3>4, StoredType
      <4> QED  BY <1>2, <3>2, <3>4, <4>1 DEF NoRows
    <3>5. CASE kind = "directory"
      <4>1. CASE docs.own.row = {}
        <5>1. Stored.own \in {PrunedDocs, docs.own}
          BY <3>1, SavedOwn
        <5> QED  BY <1>2, <1>4, <3>2, <3>3, <3>5, <4>1, <5>1 DEF HubIn
      <4>2. CASE docs.own.row # {} /\ snapshot = {}
        <5>1. Stored.own \in {PrunedDocs, docs.own}
          BY <3>1, SavedOwn
        <5>2. Left = disk
          BY <4>2 DEF Left, Dropped
        <5> QED  BY <1>0, <1>2, <1>3, <1>4, <3>2, <3>3, <3>5, <5>1, <5>2
      <4>3. CASE docs.own.row # {} /\ snapshot # {}
        <5>1. Hub \in PrunedDocs.row
          BY <1>0, <1>1, <1>3, <3>5, <4>3 DEF HubIn
        <5>2. ~InFiles(Left)
          BY <1>2, <3>5, <5>1 DEF InFiles
        <5>3. Stored.own = PrunedDocs
          BY <3>1, <4>3, <5>1, <5>2, SavedOwn
        <5> QED  BY <1>2, <1>4, <3>2, <3>3, <3>5, <5>3
      <4> QED  BY <4>1, <4>2, <4>3
    <3> QED  BY <3>4, <3>5
  <2> QED  BY <2>1, <2>2
<1>6. Trees.row = Stored.own.row \cup Stored.files.row
  BY DEF Trees
<1>7. Trees.row \subseteq Left /\ (kind = "directory" => HubIn(Trees.row))
  BY <1>5, <1>6 DEF HubIn
<1>8. /\ StartItem \in Item(Roots, Roots, Hub)
      /\ StartItem.disk = Left /\ StartItem.row = Trees.row /\ StartItem.seen = Trees.row
  <2>1. Trees.row \subseteq Roots
    BY StoredType DEF Doc
  <2> QED  BY <2>1, StartItemType DEF Roots
<1>9. CASE yaml = {}
  <2>1. Caught = [StartItem EXCEPT !.row = StartItem.row \cap Left]
    BY <1>9 DEF Caught
  <2>2. Caught.disk = Left /\ Caught.row = Trees.row
    BY <1>7, <1>8, <2>1 DEF Item
  <2> QED  BY <1>5, <1>6, <1>7, <1>9, <2>2 DEF Watched
<1>10. CASE yaml # {}
  <2>1. Shown(StartItem, Roots)
    BY <1>7, <1>8 DEF Shown
  <2>2. yaml \in SUBSET Roots /\ Hub \in Roots
    BY DEF Types, StateOK, Roots
  <2>2a. Order \in Seq(Roots)
    BY OrderAssumption
  <2>3. yaml \cup {Hub} \subseteq {Order[n] : n \in 1 .. Len(Order)}
    BY <2>2, OrderAssumption
  <2>4. /\ NothingLost(StartItem, Hub, CatchUpUpdate(StartItem, Hub, yaml, {}))
        /\ Hub \in StartItem.disk => yaml \subseteq CatchUpUpdate(StartItem, Hub, yaml, {}).disk
    BY <1>8, <2>1, <2>2, <2>2a, <2>3, CatchUpGrows
  <2>5. Caught = CatchUpUpdate(StartItem, Hub, yaml, {})
    BY <1>10 DEF Caught
  <2>6. NothingLost(StartItem, Hub, Caught) /\ (Hub \in Left => yaml \subseteq Caught.disk)
    BY <1>8, <2>4, <2>5
  <2>7. Hub \in Left => Watched(yaml) \subseteq Caught.disk
    BY <1>8, <2>6 DEF NothingLost, Watched
  <2> QED  BY <1>5, <1>6, <1>7, <1>8, <2>6, <2>7 DEF NothingLost, Shown, HubIn
<1> QED  BY <1>9, <1>10

\* And an idle tick.
LEMMA TickKeeps ==
  ASSUME "last_file" \notin Kinds, Types, Backed, HubRows, Good, ~Busy
  PROVE  /\ disk \subseteq Ticked.disk /\ Ticked.row \cup Ticked.seen \subseteq Ticked.disk
         /\ kind = "directory" => HubIn(Ticked.row) /\ (Hub \in Ticked.seen => Hub \in Ticked.row)
<1> DEFINE x == ItemOf(disk, live)
           W == Watched(watch)
<1>1. x \in Item(Roots, Roots, Hub)
  BY ItemTyped DEF Types, StateOK
<1>2. Fields(x) /\ x.disk = disk /\ x.row = live.row /\ x.seen = live.seen
  BY ItemOfFields
<1>3. W \in SUBSET Roots /\ W \subseteq {Order[n] : n \in 1 .. Len(Order)}
  BY WatchedRoots DEF Types, StateOK
<1>4. ~Undoing
  BY DEF Undoing, Busy
<1> HIDE DEF x, W
<1>5. Shown(x, Roots)
  BY <1>2, <1>4 DEF Shown, Backed
<1>6. Ticked = Tick(x, Hub, W)
  BY DEF Ticked, x, W
<1>7. Order \in Seq(Roots) /\ Hub \in Roots
  BY OrderAssumption DEF Roots
<1>8. TickAdds(x, Hub, W, Tick(x, Hub, W), Roots)
  BY <1>1, <1>3, <1>5, <1>7, TickGrows
<1>9. TickAdds(x, Hub, W, Ticked, Roots)
  BY <1>6, <1>8
<1>10. disk \subseteq Ticked.disk /\ Ticked.row \cup Ticked.seen \subseteq Ticked.disk
  <2>1. Ticked.row \subseteq Roots /\ Ticked.seen \subseteq Roots
    BY TickedType DEF Item
  <2> QED  BY <1>2, <1>9, <2>1 DEF TickAdds, Shown
<1>11. ASSUME kind = "directory"
       PROVE  HubIn(Ticked.row) /\ (Hub \in Ticked.seen => Hub \in Ticked.row)
  <2>1. HubIn(live.row) /\ (Hub \in live.seen => Hub \in live.row)
    BY <1>4, <1>11 DEF HubRows
  <2>2. CASE W = {}
    <3>1. Ticked = Tick(x, Hub, {})
      BY <1>6, <2>2
    <3>0. Roots \in SUBSET Roots
      OBVIOUS
    <3>2. Untouched(x, Tick(x, Hub, {}))
      BY <1>1, <1>7, <3>0, TickOfNone
    <3> QED  BY <1>2, <2>1, <3>1, <3>2 DEF Untouched
  <2>3. CASE W # {}
    <3>1. Hub \in W
      BY <2>3 DEF W, Watched
    <3>2. Hub \in Ticked.disk => Hub \in Ticked.row
      BY <1>2, <1>9, <2>1, <3>1 DEF TickAdds
    <3>3. Hub \in Ticked.disk \/ Ticked.row = live.row
      BY <1>2, <1>9 DEF TickAdds
    <3> QED  BY <1>10, <2>1, <3>2, <3>3 DEF HubIn
  <2> QED  BY <2>2, <2>3
<1> QED  BY <1>10, <1>11

\* The rows of the unit that are saved.
LEMMA RowsRow ==
  ASSUME NEW lv
  PROVE  Rows(lv).row = lv.row
BY DEF Rows

\* Every step keeps that: a create records after it wrote, an undo deletes before it forgets.
LEMMA BackedNext ==
  ASSUME "last_file" \notin Kinds, Types, Remembered, Unraced, Backed, HubRows, [Next]_vars
  PROVE  Backed'
<1>0. TypeOK /\ JobOK /\ kind # "last_file"
  BY TypesTypeOK DEF Types, StateOK
<1> SUFFICES ASSUME Good'
             PROVE  /\ (~Undoing' \/ job'.at = 10) => DocRows' \subseteq disk'
                    /\ (~Undoing' \/ job'.at \notin 2 .. 5) => live'.row \cup live'.seen \subseteq disk'
                    /\ (Undoing' /\ job'.at \in 2 .. 5) =>
                          live'.row \cup live'.seen \subseteq disk' \cup {Hub} \cup Reached'
                    /\ (job'.op = "create" /\ job'.at >= 4) => Hub \in disk'
  BY DEF Backed
<1> DEFINE D == (~Undoing \/ job.at = 10) => DocRows \subseteq disk
           L == (~Undoing \/ job.at \notin 2 .. 5) => live.row \cup live.seen \subseteq disk
           U == (Undoing /\ job.at \in 2 .. 5) =>
                   live.row \cup live.seen \subseteq disk \cup {Hub} \cup Reached
           H == (job.op = "create" /\ job.at >= 4) => Hub \in disk
<1>a. Good => D /\ L /\ U /\ H
  BY DEF Backed
<1>g. ASSUME erased' = erased, spoiled \subseteq spoiled', kind' = kind PROVE Good
  BY <1>g DEF Good
<1>b. ASSUME Good, docs' = docs, disk \subseteq disk', live' = live, job' = job, watch' = watch
      PROVE  D' /\ L' /\ U' /\ H'
  BY <1>a, <1>b DEF Undoing, DocRows, Reached
<1>c. ASSUME Good, ~Undoing, ~Undoing', job'.op # "create" \/ job'.at \in 1 .. 3,
             docs' = docs, disk \subseteq disk',
             live'.row \cup live'.seen \subseteq live.row \cup live.seen
      PROVE  D' /\ L' /\ U' /\ H'
  <2>1. DocRows' \subseteq disk'
    BY <1>a, <1>c DEF DocRows
  <2>2. live'.row \cup live'.seen \subseteq disk'
    BY <1>a, <1>c
  <2>3. job'.at \in 1 .. 3 => ~(job'.at >= 4)
    OBVIOUS
  <2> QED  BY <1>c, <2>1, <2>2, <2>3
<1>e. job' = NoJob => job'.op # "create" /\ ~Undoing'
  BY DEF NoJob, Undoing
<1>1. CASE WriteDisk
  <2>1. /\ docs' = docs /\ live' = live /\ job' = job /\ watch' = watch /\ kind' = kind
        /\ spoiled \subseteq spoiled'
    BY <1>1 DEF WriteDisk
  <2>2. ~erased'
    BY DEF Good
  <2>3. ~erased /\ disk \subseteq disk'
    BY <1>1, <2>2 DEF WriteDisk
  <2>4. Good
    BY <2>1, <2>3 DEF Good
  <2> QED  BY <1>b, <2>1, <2>3, <2>4
<1>2. CASE EditYaml
  BY <1>2, <1>b, <1>g DEF EditYaml
<1>3. CASE OtherProject
  <2>1. /\ Good /\ disk' = disk /\ live' = live /\ job' = job /\ watch' = watch
        /\ docs' = docs \/ docs' = [docs EXCEPT !.own = NoRows]
    BY <1>3, <1>g DEF OtherProject
  <2>2. DocRows' \subseteq DocRows
    BY <2>1 DEF DocRows, NoRows, Types, DocsOK
  <2> QED  BY <1>a, <2>1, <2>2 DEF Undoing, Reached
<1>4. CASE OtherItem
  <2>1. /\ Good /\ ~Busy /\ job' = job /\ disk' = disk
        /\ live' = LiveOf(Prune(ItemOf(disk, live), Watched(yaml)))
        /\ \/ docs' = docs
           \/ docs' = [docs EXCEPT !.files = FilesPart(disk, Rows(live'), yaml)]
    BY <1>4, <1>g DEF OtherItem
  <2>2. ~Undoing /\ ~Undoing' /\ job'.op # "create"
    BY <2>1 DEF Busy, Undoing
  <2>3. live'.row \subseteq live.row /\ live'.seen \subseteq live.seen
    BY <2>1, PrunedType DEF Types
  <2>4. DocRows' \subseteq disk'
    <3>1. FilesPart(disk, Rows(live'), yaml).row \subseteq disk
      BY <1>a, <2>1, <2>2, <2>3, FilesRows, RowsRow
    <3>2. docs'.own = docs.own /\ (docs'.files = docs.files \/
                                   docs'.files = FilesPart(disk, Rows(live'), yaml))
      BY <2>1 DEF Types, DocsOK
    <3> QED  BY <1>a, <2>1, <2>2, <3>1, <3>2 DEF DocRows
  <2> QED  BY <1>a, <2>1, <2>2, <2>3, <2>4
<1>5. CASE \E op \in DOMAIN Program, cwd \in Targets : Accept(op, cwd)
  <2>1. PICK op \in DOMAIN Program, cwd \in Targets : Accept(op, cwd)
    BY <1>5
  <2>2. /\ docs' = docs /\ live' = live /\ disk' = disk /\ job'.at = 1 /\ ~Busy /\ erased' = erased
        /\ spoiled \subseteq spoiled' /\ kind' = kind
    BY <2>1 DEF Accept
  <2>3. Good /\ ~Undoing
    BY <1>g, <2>2 DEF Busy, Undoing
  <2> QED  BY <1>a, <2>2, <2>3 DEF DocRows
<1>6. CASE Splice
  <2>0. At("splice") /\ docs' = docs /\ live' = live /\ disk' = disk /\ Good
    BY <1>6, <1>g DEF Splice
  <2>1. job.op = "create" /\ job.at = 1
    BY <1>0, <2>0, StepOf
  <2>2. job'.op = job.op /\ job'.at \in {1, 2}
    <3>1. Advance => job'.op = job.op /\ job'.at = job.at + 1
      BY <1>0, Advanced
    <3>2. ASSUME NEW r \in Targets, Did(r) PROVE job'.op = job.op /\ job'.at = job.at
      BY <1>0, <3>2, Dids
    <3>3. Advance \/ \E r \in Targets : Did(r)
      BY <1>6 DEF Splice
    <3> QED  BY <2>1, <3>1, <3>2, <3>3
  <2>3. ~Undoing /\ ~Undoing'
    BY <2>1, <2>2 DEF Undoing
  <2> QED  BY <1>c, <2>0, <2>1, <2>2, <2>3
<1>7. CASE Rewatch
  <2>0. /\ At("watch") /\ Advance /\ docs' = docs /\ disk' = disk /\ Good
        /\ live' = LiveOf(Prune(ItemOf(disk, live), Watched(yaml)))
    BY <1>7, <1>g DEF Rewatch
  <2>1. (job.op = "create" /\ job.at = 2) \/ (Undoing /\ job.at \in {1, 7})
    BY <1>0, <2>0, StepOf
  <2>2. job'.op = job.op /\ job'.at = job.at + 1
    BY <1>0, <2>0, Advanced
  <2>3. live'.row \subseteq live.row /\ live'.seen \subseteq live.seen
    BY <2>0, PrunedType DEF Types
  <2>4. CASE job.op = "create" /\ job.at = 2
    <3>1. ~Undoing /\ ~Undoing'
      BY <2>2, <2>4 DEF Undoing
    <3> QED  BY <1>c, <2>0, <2>2, <2>3, <2>4, <3>1
  <2>5. CASE Undoing /\ job.at \in {1, 7}
    <3>1. live.row \cup live.seen \subseteq disk
      BY <1>a, <2>0, <2>5
    <3>2. Undoing' /\ job'.at # 10 /\ job'.op # "create"
      BY <2>2, <2>5 DEF Undoing
    <3> QED  BY <2>0, <2>3, <3>1, <3>2
  <2> QED  BY <2>1, <2>4, <2>5
<1>8. CASE ChangeHub
  <2>0. At("hub") /\ docs' = docs /\ live' = live /\ watch' = watch /\ Good
    BY <1>8, <1>g DEF ChangeHub, GiveUp
  <2>1. (job.op = "create" /\ job.at = 3) \/ (Undoing /\ job.at \in {2, 3})
    BY <1>0, <2>0, StepOf
  <2>2. CASE job.op = "create" /\ job.at = 3 /\ job.cwd \notin disk
    <3>1. job' = NoJob /\ disk' = disk
      BY <1>8, <2>2 DEF ChangeHub, GiveUp
    <3>2. ~Undoing
      BY <2>2 DEF Undoing
    <3> QED  BY <1>c, <1>e, <2>0, <3>1, <3>2
  <2>3. CASE job.op = "create" /\ job.at = 3 /\ job.cwd \in disk
    <3>1. Advance /\ disk' = disk \cup {Hub}
      BY <1>8, <2>3 DEF ChangeHub, Put
    <3>2. job'.op = job.op
      BY <1>0, <3>1, Advanced
    <3>3. ~Undoing /\ ~Undoing'
      BY <2>3, <3>2 DEF Undoing
    <3> QED  BY <1>a, <2>0, <3>1, <3>3 DEF DocRows
  <2>4. CASE Undoing /\ job.at \in {2, 3}
    <3>1. Advance /\ disk' = disk \ {Hub}
      BY <1>8, <2>4 DEF ChangeHub, Put, Undoing
    <3>2. job'.op = job.op /\ job'.at = job.at + 1 /\ job'.cwd = job.cwd
      BY <1>0, <3>1, Advanced
    <3>3. Undoing' /\ job'.at \in 2 .. 5 /\ job'.at # 10 /\ job'.op # "create"
      BY <2>4, <3>2 DEF Undoing
    <3>4. Reached' = Reached
      BY <2>0, <3>2 DEF Reached
    <3>5. live.row \cup live.seen \subseteq disk \cup {Hub} \cup Reached
      BY <1>a, <2>0, <2>4
    <3> QED  BY <2>0, <3>1, <3>3, <3>4, <3>5
  <2> QED  BY <2>1, <2>2, <2>3, <2>4
<1>9. CASE ChangeOthers
  <2>0. At("others") /\ docs' = docs /\ live' = live /\ watch' = watch /\ Good
    BY <1>9, <1>g DEF ChangeOthers, GiveUp
  <2>1. (job.op = "create" /\ job.at = 4) \/ (Undoing /\ job.at \in {2, 3})
    BY <1>0, <2>0, StepOf
  <2>2. \/ Advance /\ disk' = disk
        \/ job.op = "create" /\ job' = NoJob /\ disk' = disk
        \/ \E r \in Reached : Did(r) /\ disk' = Put(disk, {r}, job.op = "create")
    BY <1>9 DEF ChangeOthers, GiveUp
  <2>3. CASE job.op = "create" /\ job.at = 4
    <3>1. disk \subseteq disk'
      BY <2>2, <2>3 DEF Put
    <3>2. ~Undoing /\ Hub \in disk
      BY <1>a, <2>0, <2>3 DEF Undoing
    <3>3. ~Undoing'
      <4>1. Advance => job'.op = job.op
        BY <1>0, Advanced
      <4>2. ASSUME NEW r, Did(r) PROVE job'.op = job.op
        BY <1>0, <4>2 DEF Did, JobOK
      <4>3. job'.op = job.op \/ job' = NoJob
        BY <2>2, <4>1, <4>2
      <4> QED  BY <1>e, <2>3, <4>3 DEF Undoing
    <3>4. live.row \cup live.seen \subseteq disk /\ DocRows \subseteq disk
      BY <1>a, <2>0, <3>2
    <3> QED  BY <2>0, <3>1, <3>2, <3>3, <3>4 DEF DocRows
  <2>4. CASE Undoing /\ job.at \in {2, 3}
    <3>0. job.op # "create"
      BY <2>4 DEF Undoing
    <3>1. disk \subseteq disk' \cup Reached
      BY <2>2, <3>0 DEF Put
    <3>2. job'.op = job.op /\ job'.at \in {job.at, job.at + 1} /\ job'.cwd = job.cwd
      <4>1. Advance => job'.op = job.op /\ job'.at = job.at + 1 /\ job'.cwd = job.cwd
        BY <1>0, Advanced
      <4>2. ASSUME NEW r, Did(r) PROVE job'.op = job.op /\ job'.at = job.at /\ job'.cwd = job.cwd
        BY <1>0, <4>2 DEF Did, JobOK
      <4> QED  BY <2>2, <3>0, <4>1, <4>2
    <3>3. Undoing' /\ job'.at \in 2 .. 5 /\ job'.at # 10 /\ job'.op # "create"
      BY <2>4, <3>2 DEF Undoing
    <3>4. Reached' = Reached
      BY <2>0, <3>2 DEF Reached
    <3>5. live.row \cup live.seen \subseteq disk \cup {Hub} \cup Reached
      BY <1>a, <2>0, <2>4
    <3> QED  BY <2>0, <3>1, <3>3, <3>4, <3>5
  <2> QED  BY <2>1, <2>3, <2>4
<1>10. CASE ChangeExcludes
  <2>0. /\ At("exclude") /\ docs' = docs /\ live' = live /\ watch' = watch /\ disk' = disk /\ Good
        /\ (Advance \/ \E r \in (watch \cup {job.cwd}) \ job.done : Did(r))
    BY <1>10, <1>g DEF ChangeExcludes
  <2>1. (job.op = "create" /\ job.at = 5) \/ (Undoing /\ job.at = 4)
    BY <1>0, <2>0, StepOf
  <2>2. job'.op = job.op /\ job'.at \in {job.at, job.at + 1} /\ job'.cwd = job.cwd
    <3>1. Advance => job'.op = job.op /\ job'.at = job.at + 1 /\ job'.cwd = job.cwd
      BY <1>0, Advanced
    <3>2. ASSUME NEW r, Did(r) PROVE job'.op = job.op /\ job'.at = job.at /\ job'.cwd = job.cwd
      BY <1>0, <3>2 DEF Did, JobOK
    <3> QED  BY <2>0, <3>1, <3>2
  <2>3. Reached' = Reached /\ (Undoing' <=> Undoing)
    BY <2>0, <2>2 DEF Reached, Undoing
  <2>4. job.op = "create" => ~Undoing
    BY DEF Undoing
  <2> QED  BY <1>a, <2>0, <2>1, <2>2, <2>3, <2>4 DEF DocRows
<1>11. CASE RecordShell
  <2>0. /\ At("record") /\ Advance /\ docs' = docs /\ watch' = watch /\ disk' = disk /\ Good
    BY <1>11, <1>g DEF RecordShell
  <2>1. (job.op = "create" /\ job.at = 6) \/ (Undoing /\ job.at = 5)
    BY <1>0, <2>0, StepOf
  <2>2. job'.op = job.op /\ job'.at = job.at + 1
    BY <1>0, <2>0, Advanced
  <2>3. CASE job.op = "create" /\ job.at = 6
    <3>1. live' = LiveOf(Installed(ItemOf(disk, live)))
      BY <1>11, <2>3 DEF RecordShell
    <3>2. ~Undoing /\ ~Undoing'
      BY <2>2, <2>3 DEF Undoing
    <3>3. live.row \cup live.seen \subseteq disk /\ DocRows \subseteq disk /\ Hub \in disk
      BY <1>a, <2>0, <2>3, <3>2
    <3>4. live'.row \cup live'.seen \subseteq disk
      BY <3>1, <3>3, InstalledLive
    <3> QED  BY <2>0, <3>2, <3>3, <3>4 DEF DocRows
  <2>4. CASE Undoing /\ job.at = 5
    <3>1. live' = LiveOf(Forget(ItemOf(disk, live), {Hub} \cup Reached))
      BY <1>11, <2>4 DEF RecordShell, Undoing
    <3>2. live.row \cup live.seen \subseteq disk \cup {Hub} \cup Reached
      BY <1>a, <2>0, <2>4
    <3>3. live'.row \cup live'.seen \subseteq disk
      BY <3>1, <3>2, ForgetLive
    <3>4. Undoing' /\ job'.at = 6 /\ job'.op # "create"
      BY <2>2, <2>4 DEF Undoing
    <3> QED  BY <2>0, <3>3, <3>4
  <2> QED  BY <2>1, <2>3, <2>4
<1>12. CASE DropMapping
  <2>0. At("drop") /\ docs' = docs /\ live' = live /\ disk' = disk
    BY <1>12 DEF DropMapping
  <2>1. Undoing /\ job.at = 6
    BY <1>0, <2>0, StepOf
  <2>2. ~GiveUp
    BY <2>1 DEF GiveUp, Undoing, Good
  <2>3. Advance /\ Good
    BY <1>12, <1>g, <2>2 DEF DropMapping
  <2>4. job'.op = job.op /\ job'.at = job.at + 1
    BY <1>0, <2>3, Advanced
  <2>5. Undoing' /\ job'.at = 7 /\ job'.op # "create"
    BY <2>1, <2>4 DEF Undoing
  <2> QED  BY <1>a, <2>0, <2>1, <2>3, <2>5
<1>13. CASE CommitSnapshot
  <2>0. At("snapshot") /\ Advance /\ docs' = docs /\ live' = live /\ disk' = disk /\ Good
    BY <1>13, <1>g DEF CommitSnapshot
  <2>1. (job.op = "create" /\ job.at = 7) \/ (Undoing /\ job.at = 8)
    BY <1>0, <2>0, StepOf
  <2>2. job'.op = job.op /\ job'.at = job.at + 1
    BY <1>0, <2>0, Advanced
  <2>3. (Undoing' <=> Undoing) /\ (job.op = "create" => ~Undoing)
    BY <2>2 DEF Undoing
  <2> QED  BY <1>a, <2>0, <2>1, <2>2, <2>3 DEF DocRows
<1>14. CASE CommitDocs
  <2>0. At("docs") /\ Advance /\ live' = live /\ disk' = disk /\ Good
    BY <1>14, <1>g, DocsCommitted
  <2>0a. "undone" \notin spoiled'
    BY DEF Good
  <2>1. (job.op = "create" /\ job.at = 8) \/ (Undoing /\ job.at = 9)
    BY <1>0, <2>0, StepOf
  <2>2. job'.op = job.op /\ job'.at = job.at + 1
    BY <1>0, <2>0, Advanced
  <2>3. (Undoing' <=> Undoing) /\ (job.op = "create" => ~Undoing)
    BY <2>2 DEF Undoing
  <2>4. live.row \cup live.seen \subseteq disk /\ Rows(live).row = live.row
    BY <1>a, <2>0, <2>1, <2>3, RowsRow
  <2>5. docs'.own.row \subseteq disk
    BY <1>0, <1>14, <2>0a, <2>4, DocsWell DEF NoRows
  <2>6. docs'.files = FilesPart(disk, Rows(live), yaml) \/ (docs'.files = docs.files /\ docs.own.row # {})
    BY <1>0, <1>14, <2>0a, DocsWell
  <2>7. docs'.files.row \subseteq disk
    <3>1. FilesPart(disk, Rows(live), yaml).row \subseteq disk
      BY <2>4, FilesRows
    <3>2. docs.own.row # {} => docs.files.row = {}
      <4>1. docs.own.row # {} => kind = "directory"
        BY DEF Types, DocsOK, NoRows
      <4> QED  BY <2>0, <4>1 DEF HubRows
    <3> QED  BY <2>6, <3>1, <3>2
  <2> QED  BY <1>a, <2>0, <2>1, <2>2, <2>3, <2>4, <2>5, <2>7 DEF DocRows
<1>15. CASE Answer
  <2>0. /\ At("answer") /\ docs' = docs /\ disk' = disk /\ Good /\ job' = NoJob
        /\ live' = LiveOf(Prune(ItemOf(disk, live), Watched(snapshot)))
    BY <1>15, <1>g DEF Answer
  <2>1. (job.op = "create" /\ job.at = 9) \/ (Undoing /\ job.at = 10)
    BY <1>0, <2>0, StepOf
  <2>2. live'.row \subseteq live.row /\ live'.seen \subseteq live.seen
    BY <2>0, PrunedType DEF Types
  <2>3. job.op = "create" => ~Undoing
    BY DEF Undoing
  <2>4. live.row \cup live.seen \subseteq disk /\ DocRows \subseteq disk
    BY <1>a, <2>0, <2>1, <2>3
  <2> QED  BY <1>e, <2>0, <2>2, <2>4 DEF DocRows
<1>16. CASE StepFails
  <2>0. docs' = docs /\ live' = live /\ disk' = disk /\ Good
    BY <1>16, <1>g DEF StepFails, GiveUp
  <2>1. GiveUp
    BY <1>16 DEF StepFails, Good
  <2>2. job.op = "create" /\ job' = NoJob
    BY <2>1 DEF GiveUp, Good
  <2>3. ~Undoing
    BY <2>2 DEF Undoing
  <2> QED  BY <1>c, <1>e, <2>0, <2>2, <2>3
<1>17. CASE IdleTick
  <2>1. /\ on /\ ~Busy
        /\ disk' = Ticked.disk /\ live' = LiveOf(Ticked)
        /\ docs' \in {docs, SaveAll(docs, disk', Rows(live'), watch)}
        /\ erased' = (erased /\ ~Forgotten(disk', live', docs'))
        /\ UNCHANGED <<kind, yaml, snapshot, watch, exclude, on, job, bounds, spoiled>>
    BY <1>17, IdleTickIs
  <2>2. live'.row = Ticked.row /\ live'.seen = Ticked.seen
    BY <2>1 DEF LiveOf
  <2>3. ~Undoing /\ ~Undoing' /\ job'.op # "create"
    BY <2>1 DEF Busy, Undoing
  <2>4. CASE Good
    <3>1. disk \subseteq Ticked.disk /\ Ticked.row \cup Ticked.seen \subseteq Ticked.disk
      BY <2>1, <2>4, TickKeeps
    <3>2. docs.own.row \subseteq disk' /\ docs.files.row \subseteq disk'
      BY <1>a, <2>1, <2>3, <2>4, <3>1 DEF DocRows
    <3>3. DocRows' \subseteq disk'
      <4>1. Rows(live').row \subseteq disk'
        BY <2>1, <2>2, <3>1, RowsRow
      <4>2. LET new == SaveAll(docs, disk', Rows(live'), watch)
            IN  new.own.row \subseteq disk' /\ new.files.row \subseteq disk'
        BY <1>0, <3>2, <4>1, SaveAllKeeps
      <4> QED  BY <2>1, <3>2, <4>2 DEF DocRows
    <3> QED  BY <2>1, <2>2, <2>3, <3>1, <3>3
  <2>5. CASE ~Good
    <3>1. Forgotten(disk', live', docs') /\ "undone" \notin spoiled
      BY <2>1, <2>5 DEF Good
    <3>2. disk' = {} /\ live'.row = {} /\ DocRows' = {}
      BY <3>1 DEF Forgotten, DocRows
    <3>3. (live'.seen \cup live'.oos) \ Watched(watch') \subseteq live'.row
      <4>1. Remembered'
        BY RememberedNext
      <4> QED  BY <2>1, <3>1, <4>1 DEF Remembered, Busy
    <3>4. live'.seen \cap Watched(watch) \subseteq disk'
      <4>1. ItemOf(disk, live) \in Item(Roots, Roots, Hub)
        BY ItemTyped DEF Types, StateOK
      <4>2. Watched(watch) \in SUBSET Roots
        BY WatchedRoots DEF Types, StateOK
      <4>3. (ItemOf(disk, live).seen \cup ItemOf(disk, live).oos) \ Watched(watch)
              \subseteq ItemOf(disk, live).row
        BY <2>1, <3>1, ItemOfFields DEF Remembered
      <4>4. Within(Ticked, Watched(watch))
        BY <4>1, <4>2, <4>3, OrderAssumption, TickWithin DEF Ticked, Roots
      <4> QED  BY <2>1, <2>2, <4>4 DEF Within
    <3>5. live'.seen = {}
      BY <2>1, <3>2, <3>3, <3>4
    <3> QED  BY <2>3, <3>2, <3>5
  <2> QED  BY <2>4, <2>5
<1>18. CASE Stop
  <2>0. docs' = docs /\ disk' = disk /\ live' = NotLive /\ Good
    BY <1>18, <1>g DEF Stop, GiveUp
  <2>1. ~Undoing /\ job' = NoJob
    BY <1>18 DEF Stop, GiveUp, Good, Types, Placed, Undoing, Busy, NoJob
  <2> QED  BY <1>a, <1>e, <2>0, <2>1 DEF DocRows, NotLive
<1>19. CASE Start
  <2>1. /\ ~on
        /\ disk' = Caught.disk
        /\ docs' = SaveAll(Stored, disk', CaughtRows, yaml)
        /\ live' = [row |-> Caught.row, seen |-> disk' \cap Watched(yaml),
                    oos |-> Caught.oos \cap Caught.row]
        /\ erased' = (erased /\ ~Forgotten(disk', live', docs'))
        /\ UNCHANGED <<kind, yaml, job, bounds, spoiled>>
    BY <1>19, StartIs
  <2>2. job' = NoJob
    BY <2>1 DEF Types, OffOK
  <2>3. live'.seen \subseteq disk' /\ live'.row = Caught.row
    BY <2>1
  <2>4. CASE Good
    <3>1. /\ Trees.row \subseteq Left /\ Stored.own.row \cup Stored.files.row = Trees.row
          /\ Left \subseteq Caught.disk /\ Caught.row \subseteq Caught.disk
      BY <2>1, <2>4, StartKeeps
    <3>2. Stored.own.row \subseteq disk' /\ CaughtRows.row \subseteq disk'
      BY <2>1, <3>1 DEF CaughtRows
    <3>3. LET new == SaveAll(Stored, disk', CaughtRows, yaml)
          IN  new.own.row \subseteq disk' /\ new.files.row \subseteq disk'
      BY <1>0, <3>2, SaveAllKeeps
    <3>4. DocRows' \subseteq disk'
      BY <2>1, <3>3 DEF DocRows
    <3> QED  BY <1>e, <2>1, <2>2, <2>3, <3>1, <3>4
  <2>5. CASE ~Good
    <3>1. Forgotten(disk', live', docs')
      BY <2>1, <2>5 DEF Good
    <3>2. disk' = {} /\ live'.row = {} /\ DocRows' = {}
      BY <3>1 DEF Forgotten, DocRows
    <3> QED  BY <1>e, <2>2, <2>3, <3>2
  <2> QED  BY <2>4, <2>5
<1>20. CASE UNCHANGED vars
  BY <1>20, <1>b, <1>g DEF vars
<1>21. CASE CommitElsewhere
  BY <1>21, Elsewhere DEF Good
<1> QED
  BY <1>1, <1>2, <1>3, <1>4, <1>5, <1>6, <1>7, <1>8, <1>9, <1>10, <1>11, <1>12, <1>13, <1>14,
     <1>15, <1>16, <1>17, <1>18, <1>19, <1>20, <1>21 DEF Next, ShellSteps

\* A prune takes the hub's row last.
LEMMA PrunedHub ==
  ASSUME Types, NEW m, HubIn(live.row), Hub \in live.seen => Hub \in live.row,
         live' = LiveOf(Prune(ItemOf(disk, live), Watched(m)))
  PROVE  HubIn(live'.row) /\ (Hub \in live'.seen => Hub \in live'.row)
<1>1. live'.row = live.row \cap Watched(m) /\ live'.seen = live.seen \cap Watched(m)
  BY PrunedType DEF Types
<1>2. Watched(m) # {} => Hub \in Watched(m)
  BY DEF Watched
<1> QED  BY <1>1, <1>2 DEF HubIn

\* The document of files gets no row of a directory that is on disk.
LEMMA NotInFiles ==
  ASSUME kind = "directory", NEW d, NEW kept, kept.row \subseteq d, HubIn(kept.row), NEW m
  PROVE  FilesPart(d, kept, m).row = {} /\ ~(InFiles(d) /\ kept.row # {})
<1>1. ~(InFiles(d) /\ kept.row # {})
  BY DEF HubIn, InFiles
<1>2. FilesPart(d, kept, m).row \subseteq kept.row
  BY FilesRows
<1>3. FilesPart(d, kept, m).row # {} => InFiles(d)
  BY FilesRows
<1>4. FilesPart(d, kept, m).row = {}
  BY <1>1, <1>2, <1>3
<1> QED  BY <1>1, <1>4

\* Every step keeps that: the rows of a directory come and go with the managed copy's.
LEMMA HubRowsNext ==
  ASSUME "last_file" \notin Kinds, Types, Remembered, Unraced, Backed, HubRows, [Next]_vars
  PROVE  HubRows'
<1>0. TypeOK /\ JobOK /\ kind # "last_file"
  BY TypesTypeOK DEF Types, StateOK
<1> DEFINE DD == /\ HubIn(docs.own.row) /\ HubIn(docs.files.row)
                 /\ docs.own.row = {} \/ docs.files.row = {}
           LL == HubIn(live.row) /\ (Hub \in live.seen => Hub \in live.row)
           Keeps == ~Undoing \/ job.at <= 5
<1> SUFFICES ASSUME Good', kind' = "directory"
             PROVE  DD' /\ (Keeps' => LL')
  BY DEF HubRows
<1>k. kind' = kind /\ kind = "directory"
  <2>1. kind' = kind
    BY DEF Next, vars, WriteDisk, EditYaml, OtherProject, OtherItem, Accept, ShellSteps, Splice,
           Rewatch, ChangeHub, ChangeOthers, ChangeExcludes, RecordShell, DropMapping,
           CommitSnapshot, CommitDocs, CommitElsewhere, Answer, StepFails, IdleTick, Stop, Start
  <2> QED  BY <2>1
<1>a. Good => DD /\ (Keeps => LL)
  BY <1>k DEF HubRows
<1>g. ASSUME erased' = erased, spoiled \subseteq spoiled' PROVE Good
  BY <1>g, <1>k DEF Good
<1>b. ASSUME Good, docs' = docs, live' = live, Keeps' => Keeps
      PROVE  DD' /\ (Keeps' => LL')
  BY <1>a, <1>b
<1>c. ASSUME Good, docs' = docs, ~Keeps'
      PROVE  DD' /\ (Keeps' => LL')
  BY <1>a, <1>c
<1>p. ASSUME Good, docs' = docs, Keeps, NEW m, live' = LiveOf(Prune(ItemOf(disk, live), Watched(m)))
      PROVE  DD' /\ (Keeps' => LL')
  <2>1. LL'
    BY <1>a, <1>p, PrunedHub
  <2> QED  BY <1>a, <1>p, <2>1
<1>j. job' = job => (Keeps' <=> Keeps)
  BY DEF Undoing
<1>l. ~Undoing => Keeps
  OBVIOUS
<1>m. job.op = "create" => ~Undoing
  BY DEF Undoing
<1>u. Good /\ Undoing /\ job.at >= 8 => live.row = {} /\ live.seen = {}
  BY <1>k DEF Unraced, Good, NotLive
<1>t. ASSUME Good, ~Undoing PROVE live.row \cup live.seen \subseteq disk /\ DocRows \subseteq disk
  BY <1>t DEF Backed
<1>v. ASSUME Advance PROVE job'.op = job.op /\ job'.at = job.at + 1
  BY <1>0, <1>v, Advanced
<1>w. ASSUME NEW r, Did(r) PROVE job'.op = job.op /\ job'.at = job.at
  BY <1>0, <1>w DEF Did, JobOK
<1>e. ASSUME DocRows' = {}, live'.row = {}, live'.seen = {} PROVE DD' /\ LL'
  BY <1>e DEF HubIn, DocRows
<1> HIDE DEF DD, LL
<1>1. CASE WriteDisk
  <2>1. docs' = docs /\ live' = live /\ job' = job /\ spoiled \subseteq spoiled' /\ ~erased
    BY <1>1 DEF WriteDisk, Good
  <2>2. Good
    BY <2>1, <1>k DEF Good
  <2> QED  BY <1>b, <1>j, <2>1, <2>2
<1>2. CASE EditYaml
  BY <1>2, <1>b, <1>g, <1>j DEF EditYaml
<1>3. CASE OtherProject
  <2>1. /\ Good /\ live' = live /\ job' = job
        /\ docs' = docs \/ docs' = [docs EXCEPT !.own = NoRows]
    BY <1>3, <1>g DEF OtherProject
  <2>2. DD'
    BY <1>a, <2>1 DEF DD, HubIn, NoRows, Types, DocsOK
  <2> QED  BY <1>a, <1>j, <2>1, <2>2 DEF LL
<1>4. CASE OtherItem
  <2>1. /\ Good /\ ~Busy /\ job' = job /\ disk' = disk
        /\ live' = LiveOf(Prune(ItemOf(disk, live), Watched(yaml)))
        /\ \/ docs' = docs
           \/ docs' = [docs EXCEPT !.files = FilesPart(disk, Rows(live'), yaml)]
    BY <1>4, <1>g DEF OtherItem
  <2>2. ~Undoing
    BY <2>1 DEF Busy, Undoing
  <2>3. DD /\ LL
    BY <1>a, <1>l, <2>1, <2>2
  <2>4. LL'
    BY <2>1, <2>3, PrunedHub DEF LL
  <2>5. live'.row \subseteq disk
    BY <1>t, <2>1, <2>2, PrunedType DEF Types
  <2>6. FilesPart(disk, Rows(live'), yaml).row = {}
    BY <1>k, <2>4, <2>5, NotInFiles, RowsRow DEF LL
  <2>7. docs'.own = docs.own /\ (docs'.files = docs.files \/
                                   docs'.files = FilesPart(disk, Rows(live'), yaml))
    BY <2>1 DEF Types, DocsOK
  <2>8. DD'
    BY <2>3, <2>6, <2>7 DEF DD, HubIn
  <2> QED  BY <2>4, <2>8
<1>5. CASE \E op \in DOMAIN Program, cwd \in Targets : Accept(op, cwd)
  <2>1. docs' = docs /\ live' = live /\ ~Busy /\ erased' = erased /\ spoiled \subseteq spoiled'
    BY <1>5 DEF Accept
  <2>2. Good /\ ~Undoing
    BY <1>g, <2>1 DEF Busy, Undoing
  <2> QED  BY <1>b, <1>l, <2>1, <2>2
<1>6. CASE Splice
  <2>0. At("splice") /\ docs' = docs /\ live' = live /\ Good
    BY <1>6, <1>g DEF Splice
  <2>1. ~Undoing
    BY <1>0, <1>m, <2>0, StepOf
  <2> QED  BY <1>b, <1>l, <2>0, <2>1
<1>7. CASE Rewatch
  <2>0. /\ At("watch") /\ Advance /\ docs' = docs /\ Good
        /\ live' = LiveOf(Prune(ItemOf(disk, live), Watched(yaml)))
    BY <1>7, <1>g DEF Rewatch
  <2>1. (job.op = "create" /\ job.at = 2) \/ (Undoing /\ job.at \in {1, 7})
    BY <1>0, <2>0, StepOf
  <2>2. CASE Keeps
    BY <1>p, <2>0, <2>2
  <2>3. CASE ~Keeps
    <3>1. Undoing /\ job.at = 7
      BY <1>m, <2>1, <2>3
    <3>2. ~Keeps'
      BY <1>v, <2>0, <3>1 DEF Undoing
    <3> QED  BY <1>c, <2>0, <3>2
  <2> QED  BY <2>2, <2>3
<1>8. CASE ChangeHub
  <2>0. At("hub") /\ docs' = docs /\ live' = live /\ Good
    BY <1>8, <1>g DEF ChangeHub, GiveUp
  <2>1. (job.op = "create" /\ job.at = 3) \/ (Undoing /\ job.at \in {2, 3})
    BY <1>0, <2>0, StepOf
  <2>2. Keeps
    BY <1>m, <2>1
  <2> QED  BY <1>b, <2>0, <2>2
<1>9. CASE ChangeOthers
  <2>0. At("others") /\ docs' = docs /\ live' = live /\ Good
    BY <1>9, <1>g DEF ChangeOthers, GiveUp
  <2>1. (job.op = "create" /\ job.at = 4) \/ (Undoing /\ job.at \in {2, 3})
    BY <1>0, <2>0, StepOf
  <2>2. Keeps
    BY <1>m, <2>1
  <2> QED  BY <1>b, <2>0, <2>2
<1>10. CASE ChangeExcludes
  <2>0. At("exclude") /\ docs' = docs /\ live' = live /\ Good
    BY <1>10, <1>g DEF ChangeExcludes
  <2>1. (job.op = "create" /\ job.at = 5) \/ (Undoing /\ job.at = 4)
    BY <1>0, <2>0, StepOf
  <2>2. Keeps
    BY <1>m, <2>1
  <2> QED  BY <1>b, <2>0, <2>2
<1>11. CASE RecordShell
  <2>0. At("record") /\ Advance /\ docs' = docs /\ Good
    BY <1>11, <1>g DEF RecordShell
  <2>1. (job.op = "create" /\ job.at = 6) \/ (Undoing /\ job.at = 5)
    BY <1>0, <2>0, StepOf
  <2>2. CASE job.op = "create" /\ job.at = 6
    <3>1. live' = LiveOf(Installed(ItemOf(disk, live)))
      BY <1>11, <2>2 DEF RecordShell
    <3>2. Hub \in disk
      BY <2>0, <2>2 DEF Backed
    <3>3. Hub \in live'.row
      BY <3>1, <3>2, InstalledLive
    <3>4. DD'
      BY <1>a, <2>0 DEF DD
    <3> QED  BY <3>3, <3>4 DEF LL, HubIn
  <2>3. CASE Undoing /\ job.at = 5
    <3>1. ~Keeps'
      BY <1>v, <2>0, <2>3 DEF Undoing
    <3> QED  BY <1>c, <2>0, <3>1
  <2> QED  BY <2>1, <2>2, <2>3
<1>12. CASE DropMapping
  <2>0. At("drop") /\ docs' = docs
    BY <1>12 DEF DropMapping
  <2>1. Undoing /\ job.at = 6
    BY <1>0, <2>0, StepOf
  <2>2. ~GiveUp
    BY <2>1 DEF GiveUp, Undoing, Good
  <2>3. Advance /\ Good
    BY <1>12, <1>g, <2>2 DEF DropMapping
  <2>4. ~Keeps'
    BY <1>v, <2>1, <2>3 DEF Undoing
  <2> QED  BY <1>c, <2>0, <2>3, <2>4
<1>13. CASE CommitSnapshot
  <2>0. At("snapshot") /\ Advance /\ docs' = docs /\ live' = live /\ Good
    BY <1>13, <1>g DEF CommitSnapshot
  <2>1. (job.op = "create" /\ job.at = 7) \/ (Undoing /\ job.at = 8)
    BY <1>0, <2>0, StepOf
  <2>2. Keeps' => Keeps
    BY <1>m, <1>v, <2>0, <2>1 DEF Undoing
  <2> QED  BY <1>b, <2>0, <2>2
<1>14. CASE CommitDocs
  <2>0. At("docs") /\ Advance /\ live' = live /\ Good
    BY <1>14, <1>g, DocsCommitted
  <2>0a. "undone" \notin spoiled'
    BY DEF Good
  <2>1. (job.op = "create" /\ job.at = 8) \/ (Undoing /\ job.at = 9)
    BY <1>0, <2>0, StepOf
  <2>2. live.row \subseteq disk /\ HubIn(live.row)
    <3>1. CASE job.op = "create"
      BY <1>a, <1>l, <1>m, <1>t, <2>0, <3>1 DEF LL
    <3>2. CASE Undoing /\ job.at = 9
      <4>1. live.row = {}
        BY <1>u, <2>0, <3>2
      <4> QED  BY <4>1 DEF HubIn
    <3> QED  BY <2>1, <3>1, <3>2
  <2>3. /\ FilesPart(disk, Rows(live), yaml).row = {}
        /\ ~(InFiles(disk) /\ Rows(live).row # {})
    BY <1>k, <2>2, NotInFiles, RowsRow
  <2>4. docs'.own \in {Rows(live), NoRows}
    BY <1>0, <1>14, <2>0a, DocsWell
  <2>5. docs'.files.row = {}
    <3>1. /\ docs.own.row = {} => docs'.files = FilesPart(disk, Rows(live), yaml)
          /\ docs'.files \in {FilesPart(disk, Rows(live), yaml), docs.files}
      BY <1>0, <1>14, <2>0a, DocsWell
    <3> QED  BY <1>a, <2>0, <2>3, <3>1 DEF DD
  <2>6. DD'
    BY <2>2, <2>4, <2>5, RowsRow DEF DD, HubIn, NoRows
  <2>7. Keeps' => Keeps
    BY <1>m, <1>v, <2>0, <2>1 DEF Undoing
  <2> QED  BY <1>a, <2>0, <2>6, <2>7 DEF LL
<1>15. CASE Answer
  <2>0. /\ At("answer") /\ docs' = docs /\ Good /\ job' = NoJob
        /\ live' = LiveOf(Prune(ItemOf(disk, live), Watched(snapshot)))
    BY <1>15, <1>g DEF Answer
  <2>1. (job.op = "create" /\ job.at = 9) \/ (Undoing /\ job.at = 10)
    BY <1>0, <2>0, StepOf
  <2>2. CASE job.op = "create"
    BY <1>l, <1>m, <1>p, <2>0, <2>2
  <2>3. CASE Undoing /\ job.at = 10
    <3>1. live.row = {} /\ live.seen = {}
      BY <1>u, <2>0, <2>3
    <3>2. live'.row = {} /\ live'.seen = {}
      BY <2>0, <3>1, PrunedType DEF Types
    <3>3. LL'
      BY <3>2 DEF LL, HubIn
    <3>4. DD'
      BY <1>a, <2>0 DEF DD
    <3> QED  BY <3>3, <3>4
  <2> QED  BY <2>1, <2>2, <2>3
<1>16. CASE StepFails
  <2>0. docs' = docs /\ live' = live /\ Good
    BY <1>16, <1>g DEF StepFails, GiveUp
  <2>1. GiveUp
    BY <1>16 DEF StepFails, Good
  <2>2. job.op = "create"
    BY <2>1 DEF GiveUp, Good
  <2> QED  BY <1>b, <1>l, <1>m, <2>0, <2>2
<1>17. CASE IdleTick
  <2>1. /\ on /\ ~Busy
        /\ disk' = Ticked.disk /\ live' = LiveOf(Ticked)
        /\ docs' \in {docs, SaveAll(docs, disk', Rows(live'), watch)}
        /\ erased' = (erased /\ ~Forgotten(disk', live', docs'))
        /\ UNCHANGED <<kind, yaml, snapshot, watch, exclude, on, job, bounds, spoiled>>
    BY <1>17, IdleTickIs
  <2>2. live'.row = Ticked.row /\ live'.seen = Ticked.seen
    BY <2>1 DEF LiveOf
  <2>3. ~Undoing
    BY <2>1 DEF Busy, Undoing
  <2>4. CASE Good
    <3>1. /\ disk \subseteq Ticked.disk /\ Ticked.row \cup Ticked.seen \subseteq Ticked.disk
          /\ HubIn(Ticked.row) /\ (Hub \in Ticked.seen => Hub \in Ticked.row)
      BY <1>k, <2>1, <2>4, TickKeeps
    <3>2. LL'
      BY <2>2, <3>1 DEF LL
    <3>3. DD
      BY <1>a, <2>4
    <3>4. DD'
      <4>1. CASE docs' = docs
        BY <3>3, <4>1 DEF DD
      <4>2. CASE docs' = SaveAll(docs, disk', Rows(live'), watch)
        <5>1. docs.own.row \subseteq disk'
          BY <1>t, <2>1, <2>3, <2>4, <3>1 DEF DocRows
        <5>2. Rows(live').row \subseteq disk' /\ HubIn(Rows(live').row)
          BY <2>1, <2>2, <3>1, RowsRow
        <5>3. LET new == SaveAll(docs, disk', Rows(live'), watch)
              IN  HubIn(new.own.row) /\ new.files.row = {}
          BY <1>0, <1>k, <3>3, <5>1, <5>2, SaveAllKeeps DEF DD
        <5> QED  BY <4>2, <5>3 DEF DD, HubIn
      <4> QED  BY <2>1, <4>1, <4>2
    <3> QED  BY <3>2, <3>4
  <2>5. CASE ~Good
    <3>1. Forgotten(disk', live', docs')
      BY <1>k, <2>1, <2>5 DEF Good
    <3>2. disk' = {} /\ live'.row = {} /\ DocRows' = {}
      BY <3>1 DEF Forgotten, DocRows
    <3>3. live'.seen \subseteq disk'
      <4>1. Backed'
        BY BackedNext
      <4>2. ~Undoing'
        BY <2>1 DEF Busy, Undoing
      <4> QED  BY <4>1, <4>2 DEF Backed
    <3> QED  BY <1>e, <3>2, <3>3
  <2> QED  BY <2>4, <2>5
<1>18. CASE Stop
  <2>0. docs' = docs /\ live' = NotLive /\ Good
    BY <1>18, <1>g DEF Stop, GiveUp
  <2>1. LL'
    BY <2>0 DEF LL, HubIn, NotLive
  <2>2. DD'
    BY <1>a, <2>0 DEF DD
  <2> QED  BY <2>1, <2>2
<1>19. CASE Start
  <2>1. /\ ~on
        /\ disk' = Caught.disk
        /\ docs' = SaveAll(Stored, disk', CaughtRows, yaml)
        /\ live' = [row |-> Caught.row, seen |-> disk' \cap Watched(yaml),
                    oos |-> Caught.oos \cap Caught.row]
        /\ erased' = (erased /\ ~Forgotten(disk', live', docs'))
        /\ UNCHANGED <<kind, yaml, job, bounds, spoiled>>
    BY <1>19, StartIs
  <2>2. live'.seen = disk' \cap Watched(yaml) /\ live'.row = Caught.row
    BY <2>1
  <2>4. CASE Good
    <3>1. /\ Trees.row \subseteq Left /\ Stored.own.row \cup Stored.files.row = Trees.row
          /\ Left \subseteq Caught.disk /\ Caught.row \subseteq Caught.disk
          /\ (yaml # {} /\ Hub \in Caught.disk) => Hub \in Caught.row
          /\ HubIn(Stored.own.row) /\ HubIn(Caught.row)
      BY <1>k, <2>1, <2>4, StartKeeps
    <3>2. Stored.own.row \subseteq disk' /\ CaughtRows.row \subseteq disk' /\ HubIn(CaughtRows.row)
      BY <2>1, <3>1 DEF CaughtRows
    <3>3. LET new == SaveAll(Stored, disk', CaughtRows, yaml)
          IN  HubIn(new.own.row) /\ new.files.row = {}
      BY <1>0, <1>k, <3>1, <3>2, SaveAllKeeps
    <3>4. DD'
      BY <2>1, <3>3 DEF DD, HubIn
    <3>5. LL'
      BY <2>1, <2>2, <3>1 DEF LL, Watched
    <3> QED  BY <3>4, <3>5
  <2>5. CASE ~Good
    <3>1. Forgotten(disk', live', docs')
      BY <1>k, <2>1, <2>5 DEF Good
    <3>2. disk' = {} /\ live'.row = {} /\ DocRows' = {}
      BY <3>1 DEF Forgotten, DocRows
    <3> QED  BY <1>e, <2>2, <3>2
  <2> QED  BY <2>4, <2>5
<1>20. CASE UNCHANGED vars
  <2>1. docs' = docs /\ live' = live /\ job' = job /\ Good
    BY <1>20, <1>g DEF vars
  <2> QED  BY <1>b, <1>j, <2>1
<1>21. CASE CommitElsewhere
  BY <1>21, Elsewhere DEF Good
<1> QED
  BY <1>1, <1>2, <1>3, <1>4, <1>5, <1>6, <1>7, <1>8, <1>9, <1>10, <1>11, <1>12, <1>13, <1>14,
     <1>15, <1>16, <1>17, <1>18, <1>19, <1>20, <1>21 DEF Next, ShellSteps

\* What the proof of CopiesKept needs.
Keeping == Types /\ Remembered /\ Unraced /\ Backed /\ HubRows

\* It holds at first.
LEMMA KeepingInit ==
  ASSUME Init
  PROVE  Keeping
<1>1. Types
  BY TypesInit
<1> USE DEF Init
<1>2. PICK m \in {{}, Targets} :
       /\ disk \in IF m = {} THEN {{r} : r \in Targets} ELSE {Roots}
       /\ docs = [own   |-> IF kind = "directory" THEN [row |-> Watched(m), oos |-> {}] ELSE NoRows,
                  files |-> IF kind = "directory" THEN NoRows ELSE [row |-> Watched(m), oos |-> {}]]
       /\ live = [row |-> Watched(m), seen |-> Watched(m), oos |-> {}]
  OBVIOUS
<1>3. Watched(m) \subseteq disk
  BY <1>2 DEF Watched, Roots
<1>4. job.op = "none"
  BY DEF NoJob
<1>5. ~Undoing
  BY <1>4 DEF Undoing
<1>6. DocRows = Watched(m) /\ (docs.own.row = {} \/ docs.files.row = {})
      /\ docs.own.row \in {Watched(m), {}} /\ docs.files.row \in {Watched(m), {}}
  BY <1>2 DEF DocRows, NoRows
<1>7. live.row = Watched(m) /\ live.seen = Watched(m) /\ live.oos = {}
  BY <1>2
<1>8. HubIn(Watched(m)) /\ HubIn({})
  BY DEF HubIn, Watched
<1> HIDE DEF Init
<1>9. Remembered
  BY <1>7 DEF Remembered
<1>10. Unraced
  BY <1>5 DEF Unraced
<1>11. Backed
  BY <1>3, <1>4, <1>5, <1>6, <1>7 DEF Backed
<1>12. HubRows
  BY <1>6, <1>7, <1>8 DEF HubRows
<1> QED  BY <1>1, <1>9, <1>10, <1>11, <1>12 DEF Keeping

\* Every step keeps it.
LEMMA KeepingNext ==
  ASSUME "last_file" \notin Kinds, Keeping, [Next]_vars
  PROVE  Keeping'
BY TypesNext, RememberedNext, UnracedNext, BackedNext, HubRowsNext DEF Keeping

\* What one step may cost.
KeptNow ==
  \/ writes' # writes \/ erased \/ "undone" \in spoiled'
  \/ kind = "directory" /\ "raced" \in spoiled
  \/ job.op \in {"restore", "remove"}
  \/ disk \ disk' \subseteq IF on THEN {} ELSE snapshot \ yaml

\* And no step costs a copy, by what the steps before left.
LEMMA KeptStep ==
  ASSUME "last_file" \notin Kinds, Keeping, Next
  PROVE  KeptNow
<1> SUFFICES ASSUME writes' = writes, Good, ~Undoing, "undone" \notin spoiled'
             PROVE  disk \ disk' \subseteq IF on THEN {} ELSE snapshot \ yaml
  <2>1. spoiled \subseteq spoiled'
    BY DEF Next, ShellSteps, WriteDisk, EditYaml, OtherProject, OtherItem, Accept, Splice, Rewatch,
           ChangeHub, ChangeOthers, ChangeExcludes, RecordShell, DropMapping, CommitSnapshot,
           CommitDocs, CommitElsewhere, Answer, StepFails, GiveUp, IdleTick, Stop, Start
  <2> QED  BY <2>1 DEF KeptNow, Good, Undoing
<1>0. TypeOK /\ JobOK
  BY TypesTypeOK DEF Keeping, Types
<1>1. CASE WriteDisk
  <2>1. writes \in Nat /\ writes' = writes + 1
    BY <1>1 DEF WriteDisk, Keeping, Types, StateOK
  <2> QED  BY <2>1
<1>2. CASE ChangeHub
  <2>1. job.op = "create"
    BY <1>0, <1>2, StepOf DEF ChangeHub
  <2>2. disk \subseteq disk'
    BY <1>2, <2>1 DEF ChangeHub, Put
  <2> QED  BY <2>2
<1>3. CASE ChangeOthers
  <2>1. job.op = "create"
    BY <1>0, <1>3, StepOf DEF ChangeOthers
  <2>2. disk \subseteq disk'
    BY <1>3, <2>1 DEF ChangeOthers, Put
  <2> QED  BY <2>2
<1>4. CASE IdleTick
  <2>1. ~Busy /\ disk' = Ticked.disk
    BY <1>4, IdleTickIs
  <2>2. disk \subseteq Ticked.disk
    BY <2>1, TickKeeps DEF Keeping
  <2> QED  BY <2>1, <2>2
<1>5. CASE Start
  <2>1. ~on /\ disk' = Caught.disk
    BY <1>5, StartIs
  <2>2. Left \subseteq Caught.disk
    BY <2>1, StartKeeps DEF Keeping
  <2> QED  BY <2>1, <2>2 DEF Left, Dropped
<1>6. CASE \/ EditYaml \/ OtherProject \/ OtherItem \/ Splice \/ Rewatch \/ ChangeExcludes
           \/ RecordShell \/ DropMapping \/ CommitSnapshot \/ CommitDocs \/ Answer \/ StepFails \/ Stop
           \/ \E op \in DOMAIN Program, cwd \in Targets : Accept(op, cwd)
  <2>1. disk' = disk
    BY <1>6 DEF EditYaml, OtherProject, OtherItem, Accept, Splice,
           Rewatch, ChangeExcludes, RecordShell, DropMapping,
           CommitSnapshot, CommitDocs, Answer, StepFails, Stop
  <2> QED  BY <2>1
<1>7. CASE CommitElsewhere
  BY <1>7, Elsewhere DEF Keeping
<1> QED  BY <1>1, <1>2, <1>3, <1>4, <1>5, <1>6, <1>7 DEF Next, ShellSteps

\* No copy is deleted but by a user, for the restore or the remove that was asked
\* for, or by the start that retracts what was dropped.
THEOREM CopiesKeptCorrect ==
  ASSUME "last_file" \notin Kinds
  PROVE  Spec => CopiesKept
<1>1. Init => Keeping
  BY KeepingInit
<1>2. Keeping /\ [Next]_vars => Keeping'
  BY KeepingNext
<1>3. Keeping /\ [Next]_vars => [KeptNow]_vars
  BY KeptStep
<1>4. Spec => [][KeptNow]_vars
  BY <1>1, <1>2, <1>3, PTL DEF Spec
<1> QED  BY <1>4 DEF CopiesKept, KeptNow

\* What a start that finds the item added installs, when nothing went wrong.
InstalledNow ==
  ~on /\ on' /\ snapshot = {} /\ yaml # {} /\ ~erased /\ spoiled = {} => Watched(yaml) \subseteq disk'

\* Any start but one after a delete does.
LEMMA InstalledStep ==
  ASSUME "last_file" \notin Kinds, Keeping, Next
  PROVE  InstalledNow
<1> SUFFICES ASSUME ~on, on', snapshot = {}, yaml # {}, ~erased, spoiled = {}
             PROVE  Watched(yaml) \subseteq disk'
  BY DEF InstalledNow
<1>1. job = NoJob /\ ~Busy
  BY DEF Keeping, Types, OffOK, Busy, NoJob
<1>2. Start
  BY <1>1 DEF Next, WriteDisk, EditYaml, OtherProject, OtherItem, Accept, ShellSteps, Splice, At,
          Rewatch, ChangeHub, ChangeOthers, ChangeExcludes, RecordShell, DropMapping,
          CommitSnapshot, CommitDocs, CommitElsewhere, Answer, StepFails, IdleTick, Stop
<1>3. Hub \in disk /\ disk' = Caught.disk
  BY <1>2, StartIs
<1>4. Left = disk
  BY DEF Left, Dropped
<1>5. Watched(yaml) \subseteq Caught.disk
  BY <1>3, <1>4, StartKeeps DEF Keeping, Good
<1> QED  BY <1>3, <1>5

\* A start that finds the item added installs it in every target, unless it is the last
\* file of its project: a run shows what becomes of that one.
THEOREM NewSubpathCorrect ==
  ASSUME "last_file" \notin Kinds
  PROVE  Spec => NewSubpathIsInstalled
<1>1. Init => Keeping
  BY KeepingInit
<1>2. Keeping /\ [Next]_vars => Keeping'
  BY KeepingNext
<1>3. Keeping /\ [Next]_vars => [InstalledNow]_vars
  BY InstalledStep
<1>4. Spec => [][InstalledNow]_vars
  BY <1>1, <1>2, <1>3, PTL DEF Spec
<1> QED  BY <1>4 DEF NewSubpathIsInstalled, InstalledNow

-----------------------------------------------------------------------------
\* The mapping, the excludes and the rows, when nothing went wrong

\* A copy of a directory was deleted, and its documents have not caught up.
Gone == kind = "directory" /\ erased

\* Between shells.
Calm ==
  /\ on => watch = snapshot
  /\ exclude \subseteq snapshot
  /\ (~Gone \/ docs.own.row = {}) => exclude = snapshot
  /\ ~Gone => /\ DocRows \cap Targets \subseteq snapshot
              /\ on => (live.row \cup live.oos) \cap Targets \subseteq snapshot

\* During a create: the mapping, what is watched, the excludes and the snapshot
\* name every target, one after the other.
Creating ==
  /\ job.at = 1 => job.done \subseteq yaml
  /\ job.at >= 2 => yaml = Targets
  /\ job.at >= 3 => watch = Targets
  /\ job.at = 5 => job.done \subseteq exclude
  /\ job.at >= 6 => exclude = Targets
  /\ job.at >= 8 => snapshot = Targets

\* During a restore or a remove they lose theirs.
Dropping ==
  /\ job.at <= 6 => snapshot = yaml
  /\ job.at = 1 => watch = snapshot
  /\ job.at \in 2 .. 6 => watch = yaml
  /\ job.at <= 4 => exclude \subseteq yaml
  /\ job.at = 4 => job.done \cap exclude = {}
  /\ job.at >= 5 => exclude = {}
  /\ job.at >= 9 => snapshot = {}
  /\ (job.at = 10 /\ ~Gone) => DocRows \cap Targets = {}

Quiet ==
  spoiled = {} =>
    /\ ~Busy => Calm
    /\ job.op = "create" => Creating
    /\ Undoing => Dropping

\* A document of its own is replaced by one with rows only.
LEMMA OwnStays ==
  ASSUME NEW old, old.own.row # {}, NEW d, NEW kept, NEW m
  PROVE  SaveAll(old, d, kept, m).own.row # {}
BY DEF SaveAll

\* A start finds rows only of targets that were mapped and still are.
LEMMA StartRows ==
  ASSUME Keeping, "last_file" \notin Kinds, Calm, ~on, ~Gone, spoiled = {}
  PROVE  Trees.row \subseteq yaml \cup {Hub}
<1>1. Types /\ kind # "last_file" /\ DocRows \cap Targets \subseteq snapshot
  BY DEF Keeping, Types, StateOK, Calm
<1>2. docs.own.row \subseteq Roots /\ docs.files.row \subseteq Roots
  BY <1>1 DEF Types, DocsOK, Doc
<1>3. DocRows \subseteq snapshot \cup {Hub}
  BY <1>1, <1>2 DEF DocRows, Roots
<1>4. PrunedDocs.row = (docs.own.row \cup docs.files.row) \ Dropped
  BY DEF PrunedDocs, ReadDocs
<1>5. PrunedDocs.row \subseteq yaml \cup {Hub}
  BY <1>3, <1>4 DEF DocRows, Dropped
<1>6. Trees.row = Stored.own.row \cup Stored.files.row
  BY DEF Trees
<1>7. CASE yaml = snapshot
  BY <1>3, <1>6, <1>7 DEF Stored, DocRows
<1>8. CASE yaml # snapshot
  <2>1. Stored = SaveAll(docs, Left, PrunedDocs, snapshot)
    BY <1>8 DEF Stored
  <2>2. Stored.files.row \subseteq yaml \cup {Hub}
    BY <1>1, <1>5, <2>1, SavedFiles, FilesRows
  <2>3. Stored.own.row \subseteq yaml \cup {Hub}
    <3>1. CASE kind # "directory"
      BY <1>1, <3>1, StoredType DEF NoRows
    <3>2. CASE docs.own.row = {}
      <4>1. Stored.own \in {PrunedDocs, docs.own}
        BY <2>1, SavedOwn
      <4> QED  BY <1>5, <3>2, <4>1
    <3>3. CASE snapshot = {}
      <4>1. Stored.own \in {PrunedDocs, docs.own}
        BY <2>1, SavedOwn
      <4> QED  BY <1>3, <1>5, <3>3, <4>1 DEF DocRows
    <3>4. CASE kind = "directory" /\ docs.own.row # {} /\ snapshot # {}
      <4>1. Good
        BY <3>4 DEF Good, Gone
      <4>2. job = NoJob
        BY <1>1 DEF Types, OffOK
      <4>3. ~Undoing
        BY <4>2 DEF Undoing, NoJob
      <4>4. Hub \in docs.own.row /\ Hub \in disk
        BY <3>4, <4>1, <4>3 DEF Keeping, HubRows, HubIn, Backed, DocRows
      <4>5. Hub \notin Dropped
        BY <1>1, RootsAssumption DEF Dropped, Types, StateOK
      <4>6. ~InFiles(Left) /\ PrunedDocs.row # {}
        BY <1>4, <3>4, <4>4, <4>5 DEF InFiles, Left
      <4>7. Stored.own = PrunedDocs
        BY <2>1, <3>4, <4>6, SavedOwn
      <4> QED  BY <1>5, <4>7
    <3> QED  BY <3>1, <3>2, <3>3, <3>4
  <2> QED  BY <1>6, <2>2, <2>3
<1> QED  BY <1>7, <1>8

\* What a start makes of the rows.
LEMMA StartCalmRows ==
  ASSUME Keeping, "last_file" \notin Kinds, Calm, Start, spoiled = {}, ~Gone'
  PROVE  DocRows' \cap Targets \subseteq yaml /\ (live'.row \cup live'.oos) \cap Targets \subseteq yaml
<1>1. /\ ~on
      /\ docs' = SaveAll(Stored, disk', CaughtRows, yaml)
      /\ live' = [row |-> Caught.row, seen |-> disk' \cap Watched(yaml),
                  oos |-> Caught.oos \cap Caught.row]
      /\ erased' = (erased /\ ~Forgotten(disk', live', docs'))
      /\ kind' = kind
  BY StartIs
<1>2. live'.row = Caught.row /\ live'.oos = Caught.oos \cap Caught.row
  BY <1>1
<1>3. CASE Gone
  <2>1. Forgotten(disk', live', docs')
    BY <1>1, <1>3 DEF Gone
  <2> QED  BY <1>2, <2>1 DEF Forgotten, DocRows
<1>4. CASE ~Gone
  <2> DEFINE R == yaml \cup {Hub}
  <2>1. Trees.row \subseteq R
    BY <1>1, <1>4, StartRows
  <2>2. Types /\ R \in SUBSET Roots
    BY DEF Keeping, Types, StateOK, Roots
  <2>3. Caught \in Item(Roots, R, Hub)
    BY <2>1, <2>2, StartItemType
  <2>4. Caught.row \subseteq R
    BY <2>3 DEF Item
  <2>5. CaughtRows.row = Caught.row
    BY DEF CaughtRows
  <2>6. kind # "last_file"
    BY <2>2 DEF Types, StateOK
  <2>7. docs'.files.row \subseteq R
    BY <1>1, <2>4, <2>5, <2>6, SavedFiles, FilesRows
  <2>8. docs'.own.row \subseteq R
    <3>1. docs'.own \in {CaughtRows, Stored.own}
      BY <1>1, SavedOwn
    <3> QED  BY <2>1, <2>4, <2>5, <3>1 DEF Trees
  <2>9. R \cap Targets \subseteq yaml
    BY RootsAssumption
  <2> HIDE DEF R
  <2> QED  BY <1>2, <2>4, <2>7, <2>8, <2>9 DEF DocRows
<1> QED  BY <1>3, <1>4

\* And of the excludes.
LEMMA StartCalmExcludes ==
  ASSUME Keeping, "last_file" \notin Kinds, Calm, Start, spoiled = {}
  PROVE  /\ exclude' \subseteq yaml
         /\ (~Gone' \/ docs'.own.row = {}) => exclude' = yaml
<1>1. /\ ~on /\ (yaml \ snapshot # {} => Hub \in disk)
      /\ exclude' = (exclude \ Dropped) \cup Seeded
      /\ docs' = SaveAll(Stored, disk', CaughtRows, yaml)
      /\ erased' = (erased /\ ~Forgotten(disk', live', docs'))
      /\ kind' = kind
  BY StartIs
<1>2. Types /\ kind # "last_file" /\ yaml \subseteq Targets
  BY DEF Keeping, Types, StateOK
<1>3. exclude' \subseteq yaml
  BY <1>1 DEF Calm, Dropped, Seeded
<1>4. ASSUME ~Gone' \/ docs'.own.row = {}
      PROVE  exclude' = yaml
  <2>1. Gone => docs'.own.row = {}
    BY <1>1, <1>4 DEF Gone, Forgotten
  <2>2. docs'.own.row = {} => Stored.own.row = {}
    BY <1>1, OwnStays
  <2>3. Stored.own.row = {} => docs.own.row = {}
    BY OwnStays DEF Stored
  <2>4. exclude = snapshot
    BY <2>1, <2>2, <2>3 DEF Calm
  <2>5. (yaml \ snapshot) \cap Trees.row = {}
    <3>1. CASE ~Gone
      <4>1. DocRows \cap Targets \subseteq snapshot
        BY <3>1 DEF Calm
      <4>2. Stored.own.row \cup Stored.files.row \subseteq DocRows
        <5>1. PrunedDocs.row \subseteq DocRows
          BY DEF PrunedDocs, ReadDocs, DocRows
        <5>2. CASE yaml = snapshot
          BY <5>2 DEF Stored, DocRows
        <5>3. CASE yaml # snapshot
          <6>1. Stored = SaveAll(docs, Left, PrunedDocs, snapshot)
            BY <5>3 DEF Stored
          <6>2. Stored.files.row \subseteq DocRows
            BY <1>2, <5>1, <6>1, SavedFiles, FilesRows
          <6>3. Stored.own \in {PrunedDocs, docs.own}
            BY <6>1, SavedOwn
          <6> QED  BY <5>1, <6>2, <6>3 DEF DocRows
        <5> QED  BY <5>2, <5>3
      <4> QED  BY <1>2, <4>1, <4>2 DEF Trees
    <3>2. CASE Gone /\ yaml \ snapshot # {}
      <4>1. Hub \in Left
        BY <1>1, <1>2, <3>2, RootsAssumption DEF Left, Dropped, Types, StateOK
      <4>2. Stored = SaveAll(docs, Left, PrunedDocs, snapshot)
        BY <3>2 DEF Stored
      <4>3. Stored.files.row = {}
        BY <1>2, <3>2, <4>1, <4>2, SavedFiles, FilesRows DEF InFiles, Gone
      <4> QED  BY <2>1, <2>2, <3>2, <4>3 DEF Trees
    <3> QED  BY <3>1, <3>2
  <2>6. yaml \ snapshot \subseteq Seeded
    <3>1. ASSUME yaml \ snapshot # {} PROVE Hub \in Left
      BY <1>1, <1>2, <3>1, RootsAssumption DEF Left, Dropped, Types, StateOK
    <3> QED  BY <2>5, <3>1 DEF Seeded
  <2>7. yaml \cap snapshot \subseteq exclude \ Dropped
    BY <2>4 DEF Dropped
  <2> QED  BY <1>1, <1>3, <2>6, <2>7
<1> QED  BY <1>3, <1>4

\* An idle tick records rows of mapped targets only.
LEMMA TickCalm ==
  ASSUME Keeping, "last_file" \notin Kinds, Calm, IdleTick, spoiled = {}
  PROVE  Calm'
<1>1. /\ on /\ ~Busy
      /\ live' = LiveOf(Ticked)
      /\ docs' \in {docs, SaveAll(docs, disk', Rows(live'), watch)}
      /\ erased' = (erased /\ ~Forgotten(disk', live', docs'))
      /\ UNCHANGED <<kind, yaml, snapshot, watch, exclude, on, job, bounds, spoiled>>
  BY IdleTickIs
<1>2. Types /\ kind # "last_file" /\ watch = snapshot
  BY <1>1 DEF Keeping, Types, StateOK, Calm
<1>3. live'.row = Ticked.row /\ live'.oos = Ticked.oos
  BY <1>1 DEF LiveOf
<1>4. docs'.own.row = {} => docs.own.row = {}
  BY <1>1, OwnStays
<1>5. (~Gone' \/ docs'.own.row = {}) => exclude = snapshot
  <2>1. Gone /\ ~Gone' => docs'.own.row = {}
    BY <1>1 DEF Gone, Forgotten
  <2> QED  BY <1>4, <2>1 DEF Calm
<1>6. ASSUME ~Gone'
      PROVE  /\ DocRows' \cap Targets \subseteq snapshot
             /\ (live'.row \cup live'.oos) \cap Targets \subseteq snapshot
  <2>1. CASE Gone
    <3>1. live'.row = {} /\ DocRows' = {}
      BY <1>1, <1>6, <2>1 DEF Gone, Forgotten, DocRows
    <3>2. live'.oos \ Watched(watch) \subseteq live'.row
      <4>1. Remembered'
        BY RememberedNext DEF Next, Keeping
      <4> QED  BY <1>1, <4>1 DEF Remembered, Busy
    <3>3. Watched(watch) \cap Targets \subseteq snapshot
      BY <1>2, RootsAssumption DEF Watched
    <3> QED  BY <3>1, <3>2, <3>3
  <2>2. CASE ~Gone
    <3> DEFINE R == snapshot \cup {Hub}
    <3>1. R \in SUBSET Roots /\ Watched(watch) \in SUBSET R /\ Hub \in R
      BY <1>2 DEF Types, StateOK, Roots, Watched
    <3>2. (live.row \cup live.oos) \cap Targets \subseteq snapshot
      BY <1>1, <2>2 DEF Calm
    <3>3. live \in [row : SUBSET Roots, seen : SUBSET Roots, oos : SUBSET Targets]
          /\ disk \in SUBSET Roots
      BY <1>2 DEF Types, StateOK
    <3>4. live.row \in SUBSET R /\ live.oos \in SUBSET (R \ {Hub})
      BY <3>2, <3>3, RootsAssumption DEF Roots
    <3>5. live.seen \in SUBSET R
      <4>1. live.seen \ Watched(watch) \subseteq live.row
        BY <1>1 DEF Keeping, Remembered
      <4> QED  BY <3>1, <3>4, <4>1
    <3>6. ItemOf(disk, live) \in Item(Roots, R, Hub)
      BY <3>3, <3>4, <3>5 DEF ItemOf, Item
    <3>7. Ticked \in Item(Roots, R, Hub)
      BY <3>1, <3>6, OrderAssumption, TickType DEF Ticked
    <3>8. live'.row \subseteq R /\ live'.oos \subseteq R
      BY <1>3, <3>7 DEF Item
    <3>9. DocRows' \subseteq DocRows \cup R
      <4>1. CASE docs' = docs
        BY <4>1 DEF DocRows
      <4>2. CASE docs' = SaveAll(docs, disk', Rows(live'), watch)
        <5>1. docs'.files.row \subseteq R
          BY <1>2, <3>8, <4>2, SavedFiles, FilesRows, RowsRow
        <5>2. docs'.own \in {Rows(live'), docs.own}
          BY <4>2, SavedOwn
        <5> QED  BY <3>8, <5>1, <5>2, RowsRow DEF DocRows
      <4> QED  BY <1>1, <4>1, <4>2
    <3>10. R \cap Targets \subseteq snapshot /\ DocRows \cap Targets \subseteq snapshot
      BY <2>2, RootsAssumption DEF Calm
    <3> HIDE DEF R
    <3> QED  BY <3>8, <3>9, <3>10
  <2> QED  BY <2>1, <2>2
<1> QED  BY <1>1, <1>2, <1>5, <1>6 DEF Calm

\* At first the mapping, the excludes and the rows agree.
LEMMA QuietInit ==
  ASSUME Init
  PROVE  Quiet
<1> USE DEF Init
<1>1. PICK m \in {{}, Targets} :
       /\ yaml = m /\ snapshot = m /\ watch = m /\ exclude = m
       /\ docs = [own   |-> IF kind = "directory" THEN [row |-> Watched(m), oos |-> {}] ELSE NoRows,
                  files |-> IF kind = "directory" THEN NoRows ELSE [row |-> Watched(m), oos |-> {}]]
       /\ live = [row |-> Watched(m), seen |-> Watched(m), oos |-> {}]
  OBVIOUS
<1>2. Watched(m) \cap Targets \subseteq m
  BY RootsAssumption DEF Watched
<1>3. docs.own.row \in {Watched(m), {}} /\ docs.files.row \in {Watched(m), {}}
  BY <1>1 DEF NoRows
<1>4. live.row = Watched(m) /\ live.oos = {}
  BY <1>1
<1>5. job.op = "none"
  BY DEF NoJob
<1> HIDE DEF Init
<1> QED  BY <1>1, <1>2, <1>3, <1>4, <1>5 DEF Quiet, Calm, DocRows, Undoing

\* Every step keeps the tables above.
LEMMA QuietNext ==
  ASSUME "last_file" \notin Kinds, Keeping, Quiet, [Next]_vars
  PROVE  Quiet'
<1>0. TypeOK /\ JobOK /\ StateOK /\ Types /\ kind # "last_file"
  BY TypesTypeOK DEF Keeping, Types, StateOK
<1> SUFFICES ASSUME spoiled' = {}
             PROVE  /\ ~Busy' => Calm'
                    /\ job'.op = "create" => Creating'
                    /\ Undoing' => Dropping'
  BY DEF Quiet
<1> DEFINE Goal == /\ ~Busy' => Calm'
                   /\ job'.op = "create" => Creating'
                   /\ Undoing' => Dropping'
<1>a. spoiled = {} => /\ ~Busy => Calm
                      /\ job.op = "create" => Creating
                      /\ Undoing => Dropping
  BY DEF Quiet
<1>b. ASSUME GiveUp PROVE FALSE
  BY <1>b DEF GiveUp
<1>v. ASSUME Advance
      PROVE  job'.op = job.op /\ job'.at = job.at + 1 /\ job'.cwd = job.cwd /\ job'.done = {}
  BY <1>0, <1>v, Advanced
<1>w. ASSUME NEW r \in Targets, Did(r)
      PROVE  job'.op = job.op /\ job'.at = job.at /\ job'.cwd = job.cwd /\ job'.done = job.done \cup {r}
  BY <1>0, <1>w, Dids
<1>m. /\ job.op = "create" => Busy /\ ~Undoing
      /\ Undoing => Busy /\ job.op # "create"
  BY DEF Undoing, Busy
<1>n. /\ job'.op = "create" => Busy' /\ ~Undoing'
      /\ Undoing' => Busy' /\ job'.op # "create"
  BY DEF Undoing, Busy
<1>c. ASSUME job'.op = "create", Creating' PROVE Goal
  BY <1>c, <1>n
<1>d. ASSUME Undoing', Dropping' PROVE Goal
  BY <1>d, <1>n
<1>e. ASSUME ~Busy', Calm' PROVE Goal
  BY <1>e, <1>n
<1> SUFFICES Goal
  OBVIOUS
<1> HIDE DEF Goal
<1>1. CASE WriteDisk
  <2>1. /\ spoiled = {} /\ ~Busy /\ job' = job
        /\ UNCHANGED <<kind, snapshot, docs, live, watch, exclude, on>>
        /\ erased => erased'
    BY <1>1 DEF WriteDisk
  <2>2. Calm
    BY <1>a, <2>1
  <2>3. Calm'
    BY <2>1, <2>2 DEF Calm, Gone, DocRows
  <2> QED  BY <1>e, <2>1, <2>3 DEF Busy
<1>2. CASE EditYaml
  <2>1. /\ spoiled = {} /\ ~Busy /\ job' = job
        /\ UNCHANGED <<kind, snapshot, docs, live, watch, exclude, on, erased>>
    BY <1>2 DEF EditYaml
  <2>2. Calm'
    BY <1>a, <2>1 DEF Calm, Gone, DocRows
  <2> QED  BY <1>e, <2>1, <2>2 DEF Busy
<1>3. CASE OtherProject
  <2>1. /\ spoiled = {} /\ snapshot' = snapshot /\ (erased => docs' = docs)
        /\ docs' = docs \/ docs' = [docs EXCEPT !.own = NoRows]
        /\ UNCHANGED <<kind, disk, yaml, live, watch, exclude, on, job, bounds, erased>>
    BY <1>3 DEF OtherProject
  <2>2. DocRows' \subseteq DocRows
    BY <1>0, <2>1 DEF DocRows, NoRows, Types, DocsOK
  <2>3. ~Busy => Calm'
    BY <1>a, <2>1, <2>2 DEF Calm, Gone
  <2>4. job.op = "create" => Creating'
    BY <1>a, <2>1 DEF Creating
  <2>5. Undoing => Dropping'
    BY <1>a, <2>1, <2>2 DEF Dropping, Gone
  <2> QED  BY <2>1, <2>3, <2>4, <2>5 DEF Goal, Busy, Undoing
<1>4. CASE OtherItem
  BY <1>4 DEF OtherItem
<1>5. CASE \E op \in DOMAIN Program, cwd \in Targets : Accept(op, cwd)
  <2>1. PICK op \in DOMAIN Program, cwd \in Targets : Accept(op, cwd)
    BY <1>5
  <2>2. /\ on /\ ~Busy /\ spoiled = {} /\ snapshot = yaml
        /\ job' = [op |-> op, cwd |-> cwd, at |-> 1, done |-> {}, listed |-> yaml, warned |-> FALSE]
        /\ UNCHANGED <<kind, disk, yaml, snapshot, docs, live, watch, exclude, on, erased>>
    BY <2>1 DEF Accept
  <2>3. Calm /\ job'.op = op /\ job'.at = 1 /\ job'.done = {}
    BY <1>a, <2>2
  <2>4. op \in {"create", "restore", "remove"}
    BY DEF Program
  <2>5. Creating'
    BY <2>3 DEF Creating
  <2>6. Dropping'
    BY <2>2, <2>3 DEF Dropping, Calm
  <2> QED  BY <1>c, <1>d, <2>3, <2>4, <2>5, <2>6 DEF Undoing
<1>6. CASE Splice
  <2>0. At("splice") /\ UNCHANGED <<snapshot, docs, live, watch, exclude, on, spoiled>>
    BY <1>6 DEF Splice
  <2>1. job.op = "create" /\ job.at = 1
    BY <1>0, <2>0, StepOf
  <2>2. job.done \subseteq yaml /\ yaml \subseteq Targets
    BY <1>0, <1>a, <2>0, <2>1 DEF Creating, StateOK
  <2>3. CASE job.done = Targets
    <3>1. Advance /\ yaml' = yaml
      BY <1>6, <2>3 DEF Splice
    <3>2. job'.op = "create" /\ job'.at = 2
      BY <1>v, <2>1, <3>1
    <3>3. yaml' = Targets
      BY <2>2, <2>3, <3>1
    <3>4. Creating'
      BY <3>2, <3>3 DEF Creating
    <3> QED  BY <1>c, <3>2, <3>4
  <2>4. CASE job.done # Targets
    <3>1. PICK r \in Targets : Did(r) /\ yaml' = yaml \cup {r}
      BY <1>6, <2>4 DEF Splice
    <3>2. job'.op = "create" /\ job'.at = 1 /\ job'.done = job.done \cup {r}
      BY <1>w, <2>1, <3>1
    <3>3. Creating'
      BY <2>2, <3>1, <3>2 DEF Creating
    <3> QED  BY <1>c, <3>2, <3>3
  <2> QED  BY <2>3, <2>4
<1>7. CASE Rewatch
  <2>0. At("watch") /\ Advance /\ watch' = yaml /\ spoiled = {}
        /\ UNCHANGED <<yaml, snapshot, docs, exclude, on, kind, erased>>
    BY <1>7 DEF Rewatch
  <2>1. (job.op = "create" /\ job.at = 2) \/ (Undoing /\ job.at \in {1, 7})
    BY <1>0, <2>0, StepOf
  <2>2. job'.op = job.op /\ job'.at = job.at + 1 /\ job'.done = {}
    BY <1>v, <2>0
  <2>3. CASE job.op = "create" /\ job.at = 2
    <3>1. Creating'
      BY <1>a, <2>0, <2>2, <2>3 DEF Creating
    <3> QED  BY <1>c, <2>2, <2>3, <3>1
  <2>4. CASE Undoing /\ job.at \in {1, 7}
    <3>1. Dropping
      BY <1>a, <2>0, <2>4
    <3>2. Dropping'
      BY <2>0, <2>2, <2>4, <3>1 DEF Dropping
    <3>3. Undoing'
      BY <2>2, <2>4 DEF Undoing
    <3> QED  BY <1>d, <3>2, <3>3
  <2> QED  BY <2>1, <2>3, <2>4
<1>8. CASE ChangeHub
  <2>0. At("hub") /\ Advance /\ spoiled = {}
        /\ UNCHANGED <<yaml, snapshot, docs, watch, exclude, on, kind, erased>>
    BY <1>8, <1>b DEF ChangeHub
  <2>1. (job.op = "create" /\ job.at = 3) \/ (Undoing /\ job.at \in {2, 3})
    BY <1>0, <2>0, StepOf
  <2>2. job'.op = job.op /\ job'.at = job.at + 1 /\ job'.done = {}
    BY <1>v, <2>0
  <2>3. CASE job.op = "create" /\ job.at = 3
    <3>1. Creating'
      BY <1>a, <2>0, <2>2, <2>3 DEF Creating
    <3> QED  BY <1>c, <2>2, <2>3, <3>1
  <2>4. CASE Undoing /\ job.at \in {2, 3}
    <3>1. Dropping'
      BY <1>a, <2>0, <2>2, <2>4 DEF Dropping
    <3>2. Undoing'
      BY <2>2, <2>4 DEF Undoing
    <3> QED  BY <1>d, <3>1, <3>2
  <2> QED  BY <2>1, <2>3, <2>4
<1>9. CASE ChangeOthers
  <2>0. At("others") /\ spoiled = {}
        /\ UNCHANGED <<yaml, snapshot, docs, watch, exclude, on, kind, erased>>
    BY <1>9, <1>b DEF ChangeOthers
  <2>1. (job.op = "create" /\ job.at = 4) \/ (Undoing /\ job.at \in {2, 3})
    BY <1>0, <2>0, StepOf
  <2>2. job'.op = job.op /\ job'.at \in {job.at, job.at + 1} /\ (job'.at # job.at => job'.done = {})
    <3>1. Advance \/ \E r \in Reached : Did(r)
      BY <1>9, <1>b DEF ChangeOthers
    <3>2. ASSUME NEW r \in Reached, Did(r)
          PROVE  job'.op = job.op /\ job'.at = job.at
      BY <1>0, <3>2 DEF Did, JobOK
    <3> QED  BY <1>v, <3>1, <3>2
  <2>3. CASE job.op = "create" /\ job.at = 4
    <3>1. Creating'
      BY <1>a, <2>0, <2>2, <2>3 DEF Creating
    <3> QED  BY <1>c, <2>2, <2>3, <3>1
  <2>4. CASE Undoing /\ job.at \in {2, 3}
    <3>1. Dropping'
      BY <1>a, <2>0, <2>2, <2>4 DEF Dropping
    <3>2. Undoing'
      BY <2>2, <2>4 DEF Undoing
    <3> QED  BY <1>d, <3>1, <3>2
  <2> QED  BY <2>1, <2>3, <2>4
<1>10. CASE ChangeExcludes
  <2>0. At("exclude") /\ spoiled = {}
        /\ UNCHANGED <<yaml, snapshot, docs, watch, on, kind, erased>>
    BY <1>10 DEF ChangeExcludes
  <2>1. (job.op = "create" /\ job.at = 5) \/ (Undoing /\ job.at = 4)
    BY <1>0, <2>0, StepOf
  <2>2. watch \cup {job.cwd} \subseteq Targets /\ exclude \subseteq Targets
    BY <1>0, <1>m, <2>1 DEF StateOK, Types, Placed, NoJob, Busy
  <2>3. CASE watch \cup {job.cwd} \subseteq job.done
    <3>1. Advance /\ exclude' = exclude
      BY <1>10, <2>3 DEF ChangeExcludes
    <3>2. job'.op = job.op /\ job'.at = job.at + 1 /\ job'.done = {}
      BY <1>v, <3>1
    <3>3. CASE job.op = "create" /\ job.at = 5
      <4>1. Creating
        BY <1>a, <2>0, <3>3
      <4>2. exclude = Targets
        BY <2>2, <2>3, <3>3, <4>1 DEF Creating
      <4>3. Creating'
        BY <2>0, <3>1, <3>2, <3>3, <4>1, <4>2 DEF Creating
      <4> QED  BY <1>c, <3>2, <3>3, <4>3
    <3>4. CASE Undoing /\ job.at = 4
      <4>1. Dropping
        BY <1>a, <2>0, <3>4
      <4>2. exclude = {}
        BY <2>3, <3>4, <4>1 DEF Dropping
      <4>3. Dropping'
        BY <2>0, <3>1, <3>2, <3>4, <4>1, <4>2 DEF Dropping
      <4>4. Undoing'
        BY <3>2, <3>4 DEF Undoing
      <4> QED  BY <1>d, <4>3, <4>4
    <3> QED  BY <2>1, <3>3, <3>4
  <2>4. CASE ~(watch \cup {job.cwd} \subseteq job.done)
    <3>1. PICK r \in Targets : ExcludeLine(r) /\ Did(r)
      BY <1>10, <2>2, <2>4 DEF ChangeExcludes
    <3>2. job'.op = job.op /\ job'.at = job.at /\ job'.done = job.done \cup {r}
      BY <1>w, <3>1
    <3>3. CASE job.op = "create" /\ job.at = 5
      <4>1. exclude' = exclude \cup {r}
        BY <3>1, <3>3 DEF ExcludeLine, Put
      <4>2. Creating'
        BY <1>a, <2>0, <3>2, <3>3, <4>1 DEF Creating
      <4> QED  BY <1>c, <3>2, <3>3, <4>2
    <3>4. CASE Undoing /\ job.at = 4
      <4>1. exclude' = exclude \ {r}
        BY <1>m, <3>1, <3>4 DEF ExcludeLine, Put
      <4>2. Dropping'
        BY <1>a, <2>0, <3>2, <3>4, <4>1 DEF Dropping
      <4>3. Undoing'
        BY <3>2, <3>4 DEF Undoing
      <4> QED  BY <1>d, <4>2, <4>3
    <3> QED  BY <2>1, <3>3, <3>4
  <2> QED  BY <2>3, <2>4
<1>11. CASE RecordShell
  <2>0. At("record") /\ Advance /\ spoiled = {}
        /\ UNCHANGED <<yaml, snapshot, docs, watch, exclude, on, kind, erased>>
    BY <1>11 DEF RecordShell
  <2>1. (job.op = "create" /\ job.at = 6) \/ (Undoing /\ job.at = 5)
    BY <1>0, <2>0, StepOf
  <2>2. job'.op = job.op /\ job'.at = job.at + 1 /\ job'.done = {}
    BY <1>v, <2>0
  <2>3. CASE job.op = "create" /\ job.at = 6
    <3>1. Creating'
      BY <1>a, <2>0, <2>2, <2>3 DEF Creating
    <3> QED  BY <1>c, <2>2, <2>3, <3>1
  <2>4. CASE Undoing /\ job.at = 5
    <3>1. Dropping'
      BY <1>a, <2>0, <2>2, <2>4 DEF Dropping
    <3>2. Undoing'
      BY <2>2, <2>4 DEF Undoing
    <3> QED  BY <1>d, <3>1, <3>2
  <2> QED  BY <2>1, <2>3, <2>4
<1>12. CASE DropMapping
  <2>0. At("drop") /\ Advance /\ spoiled = {}
        /\ UNCHANGED <<snapshot, docs, watch, exclude, on, kind, erased>>
    BY <1>12, <1>b DEF DropMapping
  <2>1. Undoing /\ job.at = 6
    BY <1>0, <2>0, StepOf
  <2>2. job'.op = job.op /\ job'.at = 7 /\ job'.done = {}
    BY <1>v, <2>0, <2>1
  <2>3. Dropping'
    BY <1>a, <2>0, <2>1, <2>2 DEF Dropping
  <2>4. Undoing'
    BY <2>1, <2>2 DEF Undoing
  <2> QED  BY <1>d, <2>3, <2>4
<1>13. CASE CommitSnapshot
  <2>0. At("snapshot") /\ Advance /\ spoiled = {} /\ snapshot' = yaml
        /\ UNCHANGED <<yaml, docs, watch, exclude, on, kind, erased>>
    BY <1>13 DEF CommitSnapshot
  <2>1. (job.op = "create" /\ job.at = 7) \/ (Undoing /\ job.at = 8)
    BY <1>0, <2>0, StepOf
  <2>2. job'.op = job.op /\ job'.at = job.at + 1 /\ job'.done = {}
    BY <1>v, <2>0
  <2>3. CASE job.op = "create" /\ job.at = 7
    <3>1. Creating'
      BY <1>a, <2>0, <2>2, <2>3 DEF Creating
    <3> QED  BY <1>c, <2>2, <2>3, <3>1
  <2>4. CASE Undoing /\ job.at = 8
    <3>1. yaml = {}
      BY <2>0, <2>4 DEF Keeping, Unraced
    <3>2. Dropping'
      BY <1>a, <2>0, <2>2, <2>4, <3>1 DEF Dropping
    <3>3. Undoing'
      BY <2>2, <2>4 DEF Undoing
    <3> QED  BY <1>d, <3>2, <3>3
  <2> QED  BY <2>1, <2>3, <2>4
<1>14. CASE CommitDocs
  <2>0. At("docs") /\ Advance /\ spoiled = {}
        /\ UNCHANGED <<yaml, snapshot, watch, exclude, on, kind, erased>>
    BY <1>0, <1>14, DocsCommitted
  <2>0a. "undone" \notin spoiled'
    OBVIOUS
  <2>1. (job.op = "create" /\ job.at = 8) \/ (Undoing /\ job.at = 9)
    BY <1>0, <2>0, StepOf
  <2>2. job'.op = job.op /\ job'.at = job.at + 1 /\ job'.done = {}
    BY <1>v, <2>0
  <2>3. CASE job.op = "create" /\ job.at = 8
    <3>1. Creating'
      BY <1>a, <2>0, <2>2, <2>3 DEF Creating
    <3> QED  BY <1>c, <2>2, <2>3, <3>1
  <2>4. CASE Undoing /\ job.at = 9
    <3>1. Rows(live).row = {} /\ live.row = {}
      BY <2>0, <2>4, RowsRow DEF Keeping, Unraced, NotLive
    <3>2. docs'.own.row = {}
      BY <1>0, <1>14, <2>0a, <3>1, DocsWell DEF NoRows
    <3>3. ~Gone => docs'.files.row = {}
      <4>1. CASE docs.own.row = {}
        <5>1. docs'.files = FilesPart(disk, Rows(live), yaml)
          BY <1>0, <1>14, <2>0a, <4>1, DocsWell
        <5> QED  BY <3>1, <5>1, FilesRows
      <4>2. CASE docs.own.row # {} /\ ~Gone
        <5>1. kind = "directory"
          BY <1>0, <4>2 DEF Types, DocsOK, NoRows
        <5>2. Good
          BY <2>0, <4>2, <5>1 DEF Good, Gone
        <5>3. docs.files.row = {}
          BY <4>2, <5>1, <5>2 DEF Keeping, HubRows
        <5>4. docs'.files \in {FilesPart(disk, Rows(live), yaml), docs.files}
          BY <1>0, <1>14, <2>0a, DocsWell
        <5> QED  BY <3>1, <5>3, <5>4, FilesRows
      <4> QED  BY <4>1, <4>2
    <3>4. ~Gone' => DocRows' = {}
      BY <2>0, <3>2, <3>3 DEF DocRows, Gone
    <3>5. Dropping'
      BY <1>a, <2>0, <2>2, <2>4, <3>4 DEF Dropping
    <3>6. Undoing'
      BY <2>2, <2>4 DEF Undoing
    <3> QED  BY <1>d, <3>5, <3>6
  <2> QED  BY <2>1, <2>3, <2>4
<1>15. CASE Answer
  <2>0. /\ At("answer") /\ spoiled = {} /\ job' = NoJob /\ watch' = snapshot
        /\ live' = LiveOf(Prune(ItemOf(disk, live), Watched(snapshot)))
        /\ UNCHANGED <<yaml, snapshot, docs, exclude, on, kind, erased>>
    BY <1>15 DEF Answer
  <2>1. (job.op = "create" /\ job.at = 9) \/ (Undoing /\ job.at = 10)
    BY <1>0, <2>0, StepOf
  <2>2. Watched(snapshot) \cap Targets \subseteq snapshot
    BY RootsAssumption DEF Watched
  <2>3. live'.row \subseteq Watched(snapshot) /\ live'.oos \subseteq Watched(snapshot)
    BY <1>0, <2>0, PrunedType
  <2>4. exclude = snapshot /\ (~Gone => DocRows \cap Targets \subseteq snapshot)
    <3>1. CASE job.op = "create" /\ job.at = 9
      BY <1>a, <2>0, <3>1 DEF Creating
    <3>2. CASE Undoing /\ job.at = 10
      BY <1>a, <2>0, <3>2 DEF Dropping
    <3> QED  BY <2>1, <3>1, <3>2
  <2>5. Calm'
    BY <2>0, <2>2, <2>3, <2>4 DEF Calm, Gone, DocRows
  <2>6. ~Busy'
    BY <2>0 DEF Busy, NoJob
  <2> QED  BY <1>e, <2>5, <2>6
<1>16. CASE StepFails
  BY <1>16, <1>b DEF StepFails
<1>17. CASE IdleTick
  <2>1. ~Busy /\ job' = job /\ spoiled' = spoiled
    BY <1>17 DEF IdleTick
  <2>2. Calm'
    BY <1>17, <1>a, <2>1, TickCalm
  <2> QED  BY <1>e, <2>1, <2>2 DEF Busy
<1>18. CASE Stop
  <2>1. ~Busy /\ job' = job /\ spoiled' = spoiled /\ on' = FALSE
        /\ UNCHANGED <<kind, snapshot, docs, exclude, erased>>
    BY <1>18, <1>b DEF Stop
  <2>2. Calm'
    BY <1>a, <2>1 DEF Calm, Gone, DocRows
  <2> QED  BY <1>e, <2>1, <2>2 DEF Busy
<1>19. CASE Start
  <2>1. ~on /\ spoiled' = spoiled /\ job' = job /\ snapshot' = yaml /\ watch' = yaml
    BY <1>19, StartIs
  <2>2. job = NoJob
    BY <1>0, <2>1 DEF Types, OffOK
  <2>3. ~Busy /\ ~Busy'
    BY <2>1, <2>2 DEF Busy, NoJob
  <2>4. Calm
    BY <1>a, <2>1, <2>3
  <2>5. /\ exclude' \subseteq yaml
        /\ (~Gone' \/ docs'.own.row = {}) => exclude' = yaml
    BY <1>19, <2>1, <2>4, StartCalmExcludes
  <2>6. ~Gone' => /\ DocRows' \cap Targets \subseteq yaml
                  /\ (live'.row \cup live'.oos) \cap Targets \subseteq yaml
    BY <1>19, <2>1, <2>4, StartCalmRows
  <2>7. Calm'
    BY <2>1, <2>5, <2>6 DEF Calm
  <2> QED  BY <1>e, <2>3, <2>7
<1>20. CASE UNCHANGED vars
  BY <1>20, <1>a DEF vars, Busy, Calm, Creating, Dropping, Undoing, Gone, DocRows, Goal
<1>21. CASE CommitElsewhere
  BY <1>0, <1>21, Elsewhere
<1> QED
  BY <1>1, <1>2, <1>3, <1>4, <1>5, <1>6, <1>7, <1>8, <1>9, <1>10, <1>11, <1>12, <1>13, <1>14,
     <1>15, <1>16, <1>17, <1>18, <1>19, <1>20, <1>21 DEF Next, ShellSteps

\* When nothing went wrong, the excludes are those of the committed mapping.
THEOREM ExcludesCorrect ==
  ASSUME "last_file" \notin Kinds
  PROVE  Spec => []ExcludesFollowMapping
<1>1. Init => Keeping /\ Quiet
  BY KeepingInit, QuietInit
<1>2. Keeping /\ Quiet /\ [Next]_vars => Keeping' /\ Quiet'
  BY KeepingNext, QuietNext
<1>3. Keeping /\ Quiet => ExcludesFollowMapping
  BY DEF Quiet, Calm, Gone, Settled, ExcludesFollowMapping
<1> QED  BY <1>1, <1>2, <1>3, PTL DEF Spec

\* And no document of files has a row of a target where the item is not mapped.
THEOREM RowsCorrect ==
  ASSUME "last_file" \notin Kinds
  PROVE  Spec => []RowsFollowMapping
<1>1. Init => Keeping /\ Quiet
  BY KeepingInit, QuietInit
<1>2. Keeping /\ Quiet /\ [Next]_vars => Keeping' /\ Quiet'
  BY KeepingNext, QuietNext
<1>3. Keeping /\ Quiet => RowsFollowMapping
  BY DEF Quiet, Calm, Gone, Settled, RowsFollowMapping, DocRows
<1> QED  BY <1>1, <1>2, <1>3, PTL DEF Spec

-----------------------------------------------------------------------------
\* The copies, when nothing went wrong

\* During a create every root gets the entry, is watched, gets the copy and is recorded,
\* one after the other.
Copying ==
  /\ job.at = 1 => job.done \subseteq yaml
  /\ job.at >= 2 => yaml = Targets
  /\ job.at >= 3 => watch = Targets
  /\ job.cwd \in disk
  /\ job.at >= 4 => Hub \in disk
  /\ job.at = 4 => job.done \subseteq disk
  /\ job.at >= 5 => Roots \subseteq disk
  /\ job.at >= 7 => Roots \subseteq live.row

\* Between shells a watched target is even with the managed copy, or the next tick has
\* something to do; a create goes on to record every root, a restore or a remove to
\* watch nothing.
Level ==
  spoiled = {} =>
    /\ ~Busy => AccountedFor(Hub, watch, ItemOf(disk, live))
    /\ job.op = "create" => Copying
    /\ (Undoing /\ job.at >= 9) => snapshot = {}

\* Whether a replica is accounted for is a matter of what the unit keeps.
LEMMA AccountedAlike ==
  ASSUME NEW x, NEW y, x.row = y.row, x.seen = y.seen, x.oos = y.oos, NEW h, NEW T
  PROVE  AccountedFor(h, T, x) <=> AccountedFor(h, T, y)
BY DEF AccountedFor, Accounted, Even

\* A tick accounts for what the unit watches.
LEMMA TickLevel ==
  ASSUME Types, IdleTick, AccountedFor(Hub, watch, ItemOf(disk, live))
  PROVE  AccountedFor(Hub, watch', ItemOf(disk', live'))
<1> DEFINE x == ItemOf(disk, live)
           W == Watched(watch)
<1>1. disk' = Ticked.disk /\ live' = LiveOf(Ticked) /\ watch' = watch
  BY IdleTickIs
<1>2. x \in Item(Roots, Roots, Hub) /\ W \in SUBSET Roots /\ watch \subseteq Targets
  BY ItemTyped, WatchedRoots DEF Types, StateOK
<1>3. Ticked = Tick(x, Hub, W)
  BY DEF Ticked
<1>4. \A t \in watch : t \in W /\ Hub \in W /\ t # Hub /\ Accounted(x, Hub, t)
  BY <1>2, RootsAssumption DEF Watched, AccountedFor
<1>5. Hub \in Roots /\ W \subseteq {Order[n] : n \in 1 .. Len(Order)}
  BY <1>2, OrderAssumption DEF Roots
<1> HIDE DEF x, W
<1>6. ASSUME NEW t \in watch PROVE Accounted(Ticked, Hub, t)
  <2>1. Accounted(Tick(x, Hub, W), Hub, t)
    BY <1>2, <1>4, <1>5, OrderAssumption, TickAccounts
  <2> QED  BY <1>3, <2>1
<1>7. AccountedFor(Hub, watch, Ticked)
  BY <1>6 DEF AccountedFor
<1>8. /\ ItemOf(disk', live').row = Ticked.row /\ ItemOf(disk', live').seen = Ticked.seen
      /\ ItemOf(disk', live').oos = Ticked.oos
  BY <1>1, ItemOfFields DEF LiveOf
<1> QED  BY <1>1, <1>7, <1>8, AccountedAlike

\* A start leaves every mapped target even.
LEMMA StartLevel ==
  ASSUME Types, Start
  PROVE  AccountedFor(Hub, watch', ItemOf(disk', live'))
<1>1. /\ watch' = yaml /\ yaml \subseteq Targets
      /\ live' = [row |-> Caught.row, seen |-> disk' \cap Watched(yaml),
                  oos |-> Caught.oos \cap Caught.row]
  BY StartIs DEF Types, StateOK
<1>2. CASE yaml = {}
  BY <1>1, <1>2 DEF AccountedFor
<1>3. CASE yaml # {}
  <2>1. Caught = CatchUpUpdate(StartItem, Hub, yaml, {})
    BY <1>3 DEF Caught
  <2>2. Trees \in Doc /\ Trees.row \subseteq Roots /\ Trees.oos \subseteq Trees.row
    BY StoredType DEF Doc
  <2>3. Hub \in Roots /\ Hub \notin yaml /\ yaml \in SUBSET Roots
        /\ yaml \cup {Hub} \subseteq {Order[n] : n \in 1 .. Len(Order)}
    BY <1>1, RootsAssumption, OrderAssumption DEF Roots
  <2>4. StartItem \in Item(Roots, Roots, Hub) /\ StartItem.row = Trees.row
        /\ StartItem.seen = Trees.row
    BY <2>2, <2>3, StartItemType
  <2>5. StartItem.oos = Trees.oos
    BY ItemOfFields DEF StartItem
  <2>6. AllEven(Hub, yaml, CatchUpUpdate(StartItem, Hub, yaml, {}))
    BY <2>2, <2>3, <2>4, <2>5, OrderAssumption, CatchUpEvens
  <2>7. AllEven(Hub, yaml, Caught)
    BY <2>1, <2>6
  <2> DEFINE y == ItemOf(disk', live')
  <2>8. y.row = Caught.row /\ y.oos = Caught.oos \cap Caught.row
    BY <1>1, ItemOfFields
  <2> HIDE DEF y
  <2>9. \A t \in yaml : Even(y, Hub, t)
    BY <2>7, <2>8 DEF AllEven, Even
  <2>10. AccountedFor(Hub, yaml, y)
    BY <2>9 DEF AccountedFor, Accounted
  <2> QED  BY <1>1, <2>10 DEF y
<1> QED  BY <1>2, <1>3

\* At first every copy is there, and recorded, or none is.
LEMMA LevelInit ==
  ASSUME Init
  PROVE  Level
<1> USE DEF Init
<1>1. PICK m \in {{}, Targets} :
        watch = m /\ live = [row |-> Watched(m), seen |-> Watched(m), oos |-> {}]
  OBVIOUS
<1>2. job.op = "none"
  BY DEF NoJob
<1> HIDE DEF Init
<1>3. ItemOf(disk, live).row = Watched(m)
  BY <1>1, ItemOfFields
<1>4. \A t \in watch : t \in Watched(m) /\ Hub \in Watched(m)
  BY <1>1 DEF Watched
<1>5. AccountedFor(Hub, watch, ItemOf(disk, live))
  BY <1>3, <1>4 DEF AccountedFor, Accounted, Even
<1> QED  BY <1>2, <1>5 DEF Level, Undoing

\* Every step keeps account of the copies.
LEMMA LevelNext ==
  ASSUME Types, Unraced, Level, [Next]_vars
  PROVE  Level'
<1>0. TypeOK /\ JobOK /\ StateOK
  BY TypesTypeOK DEF Types
<1> DEFINE Acc  == AccountedFor(Hub, watch, ItemOf(disk, live))
           Goal == /\ ~Busy' => Acc'
                   /\ job'.op = "create" => Copying'
                   /\ (Undoing' /\ job'.at >= 9) => snapshot' = {}
<1> SUFFICES ASSUME spoiled' = {} PROVE Goal
  BY DEF Level
<1>a. spoiled = {} => /\ ~Busy => Acc
                      /\ job.op = "create" => Copying
                      /\ (Undoing /\ job.at >= 9) => snapshot = {}
  BY DEF Level
<1>b. ASSUME GiveUp PROVE FALSE
  BY <1>b DEF GiveUp
<1>v. ASSUME Advance
      PROVE  job'.op = job.op /\ job'.at = job.at + 1 /\ job'.cwd = job.cwd /\ job'.done = {}
  BY <1>0, <1>v, Advanced
<1>w. ASSUME NEW r \in Targets, Did(r)
      PROVE  job'.op = job.op /\ job'.at = job.at /\ job'.cwd = job.cwd /\ job'.done = job.done \cup {r}
  BY <1>0, <1>w, Dids
<1>m. /\ job.op = "create" => Busy /\ ~Undoing
      /\ Undoing => Busy /\ job.op # "create"
  BY DEF Undoing, Busy
<1>n. /\ job'.op = "create" => Busy' /\ ~Undoing'
      /\ Undoing' => Busy' /\ job'.op # "create"
  BY DEF Undoing, Busy
<1>c. ASSUME job'.op = "create", Copying' PROVE Goal
  BY <1>c, <1>n
<1>d. ASSUME Undoing', job'.at >= 9 => snapshot' = {} PROVE Goal
  BY <1>d, <1>n
<1>e. ASSUME ~Busy', Acc' PROVE Goal
  BY <1>e, <1>n
<1>s. ASSUME live' = live, watch' = watch, Acc PROVE Acc'
  <2>1. /\ ItemOf(disk', live').row = ItemOf(disk, live).row
        /\ ItemOf(disk', live').seen = ItemOf(disk, live).seen
        /\ ItemOf(disk', live').oos = ItemOf(disk, live).oos
    BY <1>s, ItemOfFields
  <2>2. AccountedFor(Hub, watch, ItemOf(disk', live'))
    BY <1>s, <2>1, AccountedAlike
  <2> QED  BY <1>s, <2>2
<1>f. ASSUME Undoing, job'.op = job.op, job'.at = job.at + 1, job.at < 8 PROVE Goal
  <2>1. Undoing' /\ ~(job'.at >= 9)
    BY <1>0, <1>f DEF Undoing, JobOK
  <2> QED  BY <1>d, <2>1
<1>g. ASSUME Undoing, job'.op = job.op, job'.at = job.at, job.at < 9 PROVE Goal
  <2>1. Undoing' /\ ~(job'.at >= 9)
    BY <1>0, <1>g DEF Undoing, JobOK
  <2> QED  BY <1>d, <2>1
<1> HIDE DEF Goal, Acc
<1>1. CASE WriteDisk
  <2>1. /\ spoiled = {} /\ ~Busy /\ job' = job
        /\ UNCHANGED <<live, watch>>
    BY <1>1 DEF WriteDisk
  <2>2. Acc'
    BY <1>a, <1>s, <2>1
  <2> QED  BY <1>e, <2>1, <2>2 DEF Busy
<1>2. CASE EditYaml
  <2>1. /\ spoiled = {} /\ ~Busy /\ job' = job
        /\ UNCHANGED <<live, watch>>
    BY <1>2 DEF EditYaml
  <2>2. Acc'
    BY <1>a, <1>s, <2>1
  <2> QED  BY <1>e, <2>1, <2>2 DEF Busy
<1>3. CASE OtherProject
  <2>1. /\ spoiled = {} /\ snapshot' = snapshot
        /\ UNCHANGED <<disk, yaml, live, watch, job>>
    BY <1>3 DEF OtherProject
  <2>2. ~Busy => Acc'
    BY <1>a, <1>s, <2>1
  <2>3. job.op = "create" => Copying'
    BY <1>a, <2>1 DEF Copying
  <2> QED  BY <1>a, <2>1, <2>2, <2>3 DEF Goal, Busy, Undoing
<1>4. CASE OtherItem
  BY <1>4 DEF OtherItem
<1>5. CASE \E op \in DOMAIN Program, cwd \in Targets : Accept(op, cwd)
  <2>1. PICK op \in DOMAIN Program, cwd \in Targets : Accept(op, cwd)
    BY <1>5
  <2>2. /\ disk' = disk /\ Validated(op, cwd)
        /\ job' = [op |-> op, cwd |-> cwd, at |-> 1, done |-> {}, listed |-> yaml, warned |-> FALSE]
    BY <2>1 DEF Accept
  <2>3. job'.op = op /\ job'.at = 1 /\ job'.done = {} /\ job'.cwd = cwd
    BY <2>2
  <2>4. op \in {"create", "restore", "remove"}
    BY DEF Program
  <2>5. op = "create" => cwd \in disk
    BY <2>2 DEF Validated, CreateValid
  <2>6. op = "create" => Copying'
    BY <2>2, <2>3, <2>5 DEF Copying
  <2> QED  BY <1>c, <1>d, <2>3, <2>4, <2>6 DEF Undoing
<1>6. CASE Splice
  <2>0. At("splice") /\ UNCHANGED <<watch, live, disk, spoiled>>
    BY <1>6 DEF Splice
  <2>1. job.op = "create" /\ job.at = 1
    BY <1>0, <2>0, StepOf
  <2>2. job.done \subseteq yaml /\ yaml \subseteq Targets /\ job.cwd \in disk
    BY <1>0, <1>a, <2>0, <2>1 DEF Copying, StateOK
  <2>3. CASE job.done = Targets
    <3>1. Advance /\ yaml' = yaml
      BY <1>6, <2>3 DEF Splice
    <3>2. job'.op = "create" /\ job'.at = 2 /\ job'.cwd = job.cwd
      BY <1>v, <2>1, <3>1
    <3>3. yaml' = Targets
      BY <2>2, <2>3, <3>1
    <3>4. Copying'
      BY <2>0, <2>2, <3>2, <3>3 DEF Copying
    <3> QED  BY <1>c, <3>2, <3>4
  <2>4. CASE job.done # Targets
    <3>1. PICK r \in Targets : Did(r) /\ yaml' = yaml \cup {r}
      BY <1>6, <2>4 DEF Splice
    <3>2. job'.op = "create" /\ job'.at = 1 /\ job'.cwd = job.cwd /\ job'.done = job.done \cup {r}
      BY <1>w, <2>1, <3>1
    <3>3. Copying'
      BY <2>0, <2>2, <3>1, <3>2 DEF Copying
    <3> QED  BY <1>c, <3>2, <3>3
  <2> QED  BY <2>3, <2>4
<1>7. CASE Rewatch
  <2>0. At("watch") /\ Advance /\ watch' = yaml /\ UNCHANGED <<yaml, disk, spoiled, snapshot>>
    BY <1>7 DEF Rewatch
  <2>1. (job.op = "create" /\ job.at = 2) \/ (Undoing /\ job.at \in {1, 7})
    BY <1>0, <2>0, StepOf
  <2>2. job'.op = job.op /\ job'.at = job.at + 1 /\ job'.cwd = job.cwd
    BY <1>v, <2>0
  <2>3. CASE job.op = "create" /\ job.at = 2
    <3>1. Copying'
      BY <1>a, <2>0, <2>2, <2>3 DEF Copying
    <3> QED  BY <1>c, <2>2, <2>3, <3>1
  <2> QED  BY <1>f, <2>1, <2>2, <2>3
<1>8. CASE ChangeHub
  <2>0. At("hub") /\ Advance /\ disk' = Put(disk, {Hub}, job.op = "create")
        /\ UNCHANGED <<yaml, watch, live, spoiled, snapshot>>
    BY <1>8, <1>b DEF ChangeHub
  <2>1. (job.op = "create" /\ job.at = 3) \/ (Undoing /\ job.at \in {2, 3})
    BY <1>0, <2>0, StepOf
  <2>2. job'.op = job.op /\ job'.at = job.at + 1 /\ job'.cwd = job.cwd /\ job'.done = {}
    BY <1>v, <2>0
  <2>3. CASE job.op = "create" /\ job.at = 3
    <3>1. disk' = disk \cup {Hub}
      BY <2>0, <2>3 DEF Put
    <3>2. Copying'
      BY <1>a, <2>0, <2>2, <2>3, <3>1 DEF Copying
    <3> QED  BY <1>c, <2>2, <2>3, <3>2
  <2> QED  BY <1>f, <2>1, <2>2, <2>3
<1>9. CASE ChangeOthers
  <2>0. At("others") /\ UNCHANGED <<yaml, watch, live, spoiled, snapshot>>
    BY <1>9, <1>b DEF ChangeOthers
  <2>1. (job.op = "create" /\ job.at = 4) \/ (Undoing /\ job.at \in {2, 3})
    BY <1>0, <2>0, StepOf
  <2>2. Reached \subseteq Targets
    BY <1>0, <2>1, <1>m DEF Reached, StateOK, Types, Placed, NoJob, Busy
  <2>3. CASE Reached \subseteq job.done
    <3>1. Advance /\ disk' = disk
      BY <1>9, <2>3 DEF ChangeOthers
    <3>2. job'.op = job.op /\ job'.at = job.at + 1 /\ job'.cwd = job.cwd /\ job'.done = {}
      BY <1>v, <3>1
    <3>3. CASE job.op = "create" /\ job.at = 4
      <4>1. watch = Targets /\ job.cwd \in disk /\ Hub \in disk /\ job.done \subseteq disk
            /\ yaml = Targets
        BY <1>a, <2>0, <3>3 DEF Copying
      <4>2. Reached = Targets \ {job.cwd}
        BY <3>3, <4>1 DEF Reached
      <4>3. Roots \subseteq disk
        BY <2>3, <4>1, <4>2 DEF Roots
      <4>4. Copying'
        BY <2>0, <3>1, <3>2, <3>3, <4>1, <4>3 DEF Copying
      <4> QED  BY <1>c, <3>2, <3>3, <4>4
    <3> QED  BY <1>f, <2>1, <3>2, <3>3
  <2>4. CASE ~(Reached \subseteq job.done)
    <3>1. PICK r \in Reached : Did(r) /\ disk' = Put(disk, {r}, job.op = "create")
      BY <1>9, <1>b, <2>4 DEF ChangeOthers
    <3>2. job'.op = job.op /\ job'.at = job.at /\ job'.cwd = job.cwd /\ job'.done = job.done \cup {r}
      BY <1>w, <2>2, <3>1
    <3>3. CASE job.op = "create" /\ job.at = 4
      <4>1. disk' = disk \cup {r}
        BY <3>1, <3>3 DEF Put
      <4>2. Copying'
        BY <1>a, <2>0, <3>2, <3>3, <4>1 DEF Copying
      <4> QED  BY <1>c, <3>2, <3>3, <4>2
    <3> QED  BY <1>g, <2>1, <3>2, <3>3
  <2> QED  BY <2>3, <2>4
<1>10. CASE ChangeExcludes
  <2>0. At("exclude") /\ UNCHANGED <<yaml, watch, live, disk, spoiled, snapshot>>
    BY <1>10 DEF ChangeExcludes
  <2>1. (job.op = "create" /\ job.at = 5) \/ (Undoing /\ job.at = 4)
    BY <1>0, <2>0, StepOf
  <2>2. job'.op = job.op /\ job'.at \in {job.at, job.at + 1} /\ job'.cwd = job.cwd
    <3>1. Advance \/ \E r \in (watch \cup {job.cwd}) \ job.done : Did(r)
      BY <1>10 DEF ChangeExcludes
    <3>2. watch \cup {job.cwd} \subseteq Targets
      BY <1>0, <1>m, <2>1 DEF StateOK, Types, Placed, NoJob, Busy
    <3> QED  BY <1>v, <1>w, <3>1, <3>2
  <2>3. CASE job.op = "create" /\ job.at = 5
    <3>1. Copying'
      BY <1>a, <2>0, <2>2, <2>3 DEF Copying
    <3> QED  BY <1>c, <2>2, <2>3, <3>1
  <2> QED  BY <1>f, <1>g, <2>1, <2>2, <2>3
<1>11. CASE RecordShell
  <2>0. At("record") /\ Advance /\ UNCHANGED <<yaml, watch, disk, spoiled, snapshot>>
    BY <1>11 DEF RecordShell
  <2>1. (job.op = "create" /\ job.at = 6) \/ (Undoing /\ job.at = 5)
    BY <1>0, <2>0, StepOf
  <2>2. job'.op = job.op /\ job'.at = job.at + 1 /\ job'.cwd = job.cwd
    BY <1>v, <2>0
  <2>3. CASE job.op = "create" /\ job.at = 6
    <3>1. live' = LiveOf(Installed(ItemOf(disk, live)))
      BY <1>11, <2>3 DEF RecordShell
    <3>2. LET S == {Hub, job.cwd} \cup watch
          IN  live' = [row |-> (live.row \ S) \cup (S \cap disk),
                       seen |-> (live.seen \ S) \cup (S \cap disk), oos |-> live.oos]
      BY <3>1, InstalledLive
    <3>3. watch = Targets /\ Roots \subseteq disk
      BY <1>a, <2>0, <2>3 DEF Copying
    <3>4. Roots \subseteq live'.row
      BY <3>2, <3>3 DEF Roots
    <3>5. Copying'
      BY <1>a, <2>0, <2>2, <2>3, <3>4 DEF Copying
    <3> QED  BY <1>c, <2>2, <2>3, <3>5
  <2> QED  BY <1>f, <2>1, <2>2, <2>3
<1>12. CASE DropMapping
  <2>0. At("drop") /\ Advance
    BY <1>12, <1>b DEF DropMapping
  <2>1. Undoing /\ job.at = 6
    BY <1>0, <2>0, StepOf
  <2>2. job'.op = job.op /\ job'.at = job.at + 1
    BY <1>v, <2>0
  <2> QED  BY <1>f, <2>1, <2>2
<1>13. CASE CommitSnapshot
  <2>0. At("snapshot") /\ Advance /\ snapshot' = yaml /\ UNCHANGED <<yaml, watch, live, disk, spoiled>>
    BY <1>13 DEF CommitSnapshot
  <2>1. (job.op = "create" /\ job.at = 7) \/ (Undoing /\ job.at = 8)
    BY <1>0, <2>0, StepOf
  <2>2. job'.op = job.op /\ job'.at = job.at + 1 /\ job'.cwd = job.cwd
    BY <1>v, <2>0
  <2>3. CASE job.op = "create" /\ job.at = 7
    <3>1. Copying'
      BY <1>a, <2>0, <2>2, <2>3 DEF Copying
    <3> QED  BY <1>c, <2>2, <2>3, <3>1
  <2>4. CASE Undoing /\ job.at = 8
    <3>1. yaml = {}
      BY <2>0, <2>4 DEF Unraced
    <3>2. Undoing'
      BY <2>2, <2>4 DEF Undoing
    <3> QED  BY <1>d, <2>0, <3>1, <3>2
  <2> QED  BY <2>1, <2>3, <2>4
<1>14. CASE CommitDocs
  <2>0. At("docs") /\ Advance /\ spoiled = {} /\ UNCHANGED <<yaml, watch, live, disk, snapshot>>
    BY <1>0, <1>14, DocsCommitted
  <2>1. (job.op = "create" /\ job.at = 8) \/ (Undoing /\ job.at = 9)
    BY <1>0, <2>0, StepOf
  <2>2. job'.op = job.op /\ job'.at = job.at + 1 /\ job'.cwd = job.cwd
    BY <1>v, <2>0
  <2>3. CASE job.op = "create" /\ job.at = 8
    <3>1. Copying'
      BY <1>a, <2>0, <2>2, <2>3 DEF Copying
    <3> QED  BY <1>c, <2>2, <2>3, <3>1
  <2>4. CASE Undoing /\ job.at = 9
    <3>1. snapshot' = {}
      BY <1>a, <2>0, <2>4
    <3>2. Undoing'
      BY <2>2, <2>4 DEF Undoing
    <3> QED  BY <1>d, <3>1, <3>2
  <2> QED  BY <2>1, <2>3, <2>4
<1>15. CASE Answer
  <2>0. /\ At("answer") /\ spoiled = {} /\ job' = NoJob /\ watch' = snapshot
        /\ live' = LiveOf(Prune(ItemOf(disk, live), Watched(snapshot)))
    BY <1>15 DEF Answer
  <2>1. (job.op = "create" /\ job.at = 9) \/ (Undoing /\ job.at = 10)
    BY <1>0, <2>0, StepOf
  <2>2. ~Busy'
    BY <2>0 DEF Busy, NoJob
  <2>3. Acc'
    <3>1. CASE job.op = "create" /\ job.at = 9
      <4>1. Roots \subseteq live.row /\ snapshot \subseteq Targets
        BY <1>0, <1>a, <2>0, <3>1 DEF Copying, StateOK
      <4>2. live' = [row |-> live.row \cap Watched(snapshot), seen |-> live.seen \cap Watched(snapshot),
                     oos |-> live.oos \cap Watched(snapshot)]
        BY <2>0, PrunedLive
      <4>3. Watched(snapshot) \subseteq live'.row
        BY <4>1, <4>2 DEF Watched, Roots
      <4>4. ItemOf(disk', live').row = live'.row
        BY ItemOfFields
      <4>5. \A t \in snapshot : t \in live'.row /\ Hub \in live'.row
        BY <4>3 DEF Watched
      <4>6. AccountedFor(Hub, snapshot, ItemOf(disk', live'))
        BY <4>4, <4>5 DEF AccountedFor, Accounted, Even
      <4> QED  BY <2>0, <4>6 DEF Acc
    <3>2. CASE Undoing /\ job.at = 10
      <4>1. watch' = {}
        BY <1>a, <2>0, <3>2
      <4>2. AccountedFor(Hub, watch', ItemOf(disk', live'))
        BY <4>1 DEF AccountedFor
      <4> QED  BY <4>2 DEF Acc
    <3> QED  BY <2>1, <3>1, <3>2
  <2> QED  BY <1>e, <2>2, <2>3
<1>16. CASE StepFails
  BY <1>16, <1>b DEF StepFails
<1>17. CASE IdleTick
  <2>1. ~Busy /\ job' = job /\ spoiled' = spoiled
    BY <1>17 DEF IdleTick
  <2>2. AccountedFor(Hub, watch', ItemOf(disk', live'))
    BY <1>17, <1>a, <2>1, TickLevel DEF Acc
  <2>3. ~Busy' /\ Acc'
    BY <2>1, <2>2 DEF Busy, Acc
  <2> QED  BY <1>e, <2>3
<1>18. CASE Stop
  <2>1. ~Busy /\ job' = job /\ watch' = {}
    BY <1>18, <1>b DEF Stop
  <2>2. AccountedFor(Hub, watch', ItemOf(disk', live'))
    BY <2>1 DEF AccountedFor
  <2>3. ~Busy' /\ Acc'
    BY <2>1, <2>2 DEF Busy, Acc
  <2> QED  BY <1>e, <2>3
<1>19. CASE Start
  <2>1. ~on /\ job' = job
    BY <1>19, StartIs
  <2>2. job = NoJob
    BY <2>1 DEF Types, OffOK
  <2>3. AccountedFor(Hub, watch', ItemOf(disk', live'))
    BY <1>19, StartLevel
  <2>4. ~Busy' /\ Acc'
    BY <2>1, <2>2, <2>3 DEF Busy, NoJob, Acc
  <2> QED  BY <1>e, <2>4
<1>20. CASE UNCHANGED vars
  BY <1>20, <1>a DEF vars, Busy, Copying, Undoing, Goal, Acc
<1>21. CASE CommitElsewhere
  BY <1>0, <1>21, Elsewhere
<1> QED
  BY <1>1, <1>2, <1>3, <1>4, <1>5, <1>6, <1>7, <1>8, <1>9, <1>10, <1>11, <1>12, <1>13, <1>14,
     <1>15, <1>16, <1>17, <1>18, <1>19, <1>20, <1>21 DEF Next, ShellSteps

\* What the unit has seen and recorded of an item that it keeps account of is everywhere
\* or nowhere.
LEMMA LevelCopies ==
  ASSUME Level
  PROVE  CopiesFollowMapping
<1> SUFFICES ASSUME Settled, disk \cap Watched(watch) = live.seen, live.row = live.seen, live.oos = {}
             PROVE  disk \cap Watched(watch) \in {{}, Watched(watch)}
  BY DEF CopiesFollowMapping
<1> DEFINE x == ItemOf(disk, live)
<1>1. x.row = live.row /\ x.seen = live.seen /\ x.oos = live.oos
  BY ItemOfFields
<1>2. \A t \in watch : Accounted(x, Hub, t)
  BY DEF Level, Settled, AccountedFor
<1> HIDE DEF x
<1>3. \A t \in watch : t \in live.row <=> Hub \in live.row
  BY <1>1, <1>2 DEF Accounted, Even
<1>4. live.row \subseteq Watched(watch) /\ Watched(watch) \in {{}, watch \cup {Hub}}
  BY DEF Watched
<1>5. live.row \in {{}, Watched(watch)}
  <2>1. CASE Hub \in live.row
    BY <1>3, <1>4, <2>1
  <2>2. CASE Hub \notin live.row
    BY <1>3, <1>4, <2>2
  <2> QED  BY <2>1, <2>2
<1> QED  BY <1>5

\* When nothing went wrong, what the unit has seen and recorded is in the managed project
\* and every mapped target, or in none of them, whatever the item is.
THEOREM CopiesCorrect == Spec => []CopiesFollowMapping
<1>1. Init => Types /\ Unraced /\ Level
  <2>1. Init => Unraced
    BY DEF Init, NoJob, Unraced, Undoing
  <2> QED  BY <2>1, TypesInit, LevelInit
<1>2. Types /\ Unraced /\ Level /\ [Next]_vars => Types' /\ Unraced' /\ Level'
  BY TypesNext, UnracedNext, LevelNext
<1>3. Level => CopiesFollowMapping
  BY LevelCopies
<1> QED  BY <1>1, <1>2, <1>3, PTL DEF Spec
=============================================================================
