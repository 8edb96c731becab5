------------------------------- MODULE Reload -------------------------------
(***************************************************************************)
(* The mapping of the yaml file, the committed snapshot, the baseline on   *)
(* disk and in memory, and the units that watch: daemon/ingest.py,         *)
(* daemon/store.py, daemon/catchup.py and the reload and start paths of    *)
(* daemon/runtime.py.  A mapping gives each item the targets it is copied  *)
(* to.  An ingest (start or reload) deletes the copies the new mapping     *)
(* drops, commits the snapshot, prunes the baseline, and lets the units    *)
(* catch up, one step each; users write disks and edit the yaml between    *)
(* any two of them, units tick, and the process may die.                   *)
(*                                                                         *)
(* Items are those of ItemSync.  A managed project's hub is the project    *)
(* itself.  The targets of different projects are disjoint, mappings are   *)
(* selective, and a baseline is kept in documents.                         *)
(***************************************************************************)
EXTENDS ItemSync, FiniteSets

CONSTANTS
  Units,       \* managed projects
  Items,       \* declared items
  Owner,       \* the managed project of each item
  DirItems,    \* items that are directories; the others are files
  TargetsOf,   \* the targets each managed project may map
  Mappings,    \* what the yaml file may say
  FirstMapping,\* what it says at first
  None,        \* no snapshot, no baseline in memory
  MaxWrites,   \* bound: user writes of disks
  MaxEdits,    \* bound: user edits of the yaml file
  MaxFaults    \* bound: kills of the process and catch-ups of new units that raise

Targets == UNION {TargetsOf[u] : u \in Units}
Roots   == Units \cup Targets
Places(i) == {Owner[i]} \cup TargetsOf[Owner[i]]
Mapping == [Items -> SUBSET Targets]
Kept    == [row : SUBSET Roots, oos : SUBSET Roots]
Trees   == [keys : SUBSET Roots, rows : [Items -> Kept]]

ASSUME StructureAssumption ==
  /\ Owner \in [Items -> Units]
  /\ DirItems \subseteq Items
  /\ Units \cap Targets = {}
  /\ \A u, v \in Units : u # v => TargetsOf[u] \cap TargetsOf[v] = {}
  /\ \A m \in Mappings : m \in Mapping /\ \A i \in Items : m[i] \subseteq TargetsOf[Owner[i]]
  /\ FirstMapping \in Mappings
  /\ None \notin Mapping /\ None \notin Trees

ASSUME OrderAssumption ==
  Order \in Seq(Roots) /\ Roots \subseteq {Order[n] : n \in 1 .. Len(Order)}

ASSUME BoundsAssumption ==
  {MaxWrites, MaxEdits, MaxFaults} \subseteq Nat

VARIABLES
  disk,      \* where each item is
  file,      \* the mapping the yaml file has
  snapshot,  \* mapping-snapshot.yml
  docs,      \* baseline documents: the rows of each item in "files" or its own
  memory,    \* _baseline_memory of the worker process
  live,      \* per item: baseline rows, last scan and isolated replicas of its unit
  keys,      \* the roots that have a tree in the baseline of their unit
  watch,     \* the mapping the units watch
  running,   \* units whose thread runs
  stopping,  \* units told to stop whose thread has not ended
  queued,    \* units with a catch-up job of a reload
  pc,        \* where the start or the accept thread is
  plan,      \* the mappings the ingest in progress compares, and who ingests
  todo,      \* copies to retract, or new units to catch up
  unbuilt,   \* units that caught up and have no observer yet
  writes, edits, faults,
  erased,    \* items with a user's delete that no tick has taken to every copy yet
  clean      \* no reload was raced by an edit, failed, or found no unit running

world   == <<disk, file, writes, edits>>
stored  == <<snapshot, docs>>
units   == <<live, keys, watch, running, stopping, queued, unbuilt>>
ingest  == <<pc, plan, todo>>
vars    == <<disk, file, snapshot, docs, memory, live, keys, watch, running, stopping,
             queued, pc, plan, todo, unbuilt, writes, edits, faults, erased, clean>>

Live    == [row : SUBSET Roots, seen : SUBSET Roots, oos : SUBSET Roots]
NoRows  == [row |-> {}, oos |-> {}]
NotLive == [row |-> {}, seen |-> {}, oos |-> {}]
NoItem  == [i \in Items |-> {}]
NoPlan  == [old |-> NoItem, new |-> NoItem, reload |-> FALSE]

TypeOK ==
  /\ disk \in [Items -> SUBSET Roots] /\ \A i \in Items : disk[i] \subseteq Places(i)
  /\ file \in Mappings
  /\ snapshot \in Mappings \cup {None}
  /\ docs \in [Items -> [own : Kept, files : Kept]]
  /\ memory \in Trees \cup {None}
  /\ live \in [Items -> Live]
  /\ \A i \in Items : live[i].row \cup live[i].seen \cup live[i].oos \subseteq Places(i)
  /\ keys \subseteq Roots
  /\ watch \in Mapping
  /\ running \subseteq Units /\ stopping \subseteq Units /\ queued \subseteq Units
  /\ running \cap stopping = {} /\ queued \subseteq running \cup stopping
  /\ unbuilt \subseteq Units
  /\ pc \in {"off", "serve", "retract", "prune", "drop", "units", "new",
             "wait", "direct", "catchup", "build"}
  /\ plan \in [old : Mapping, new : Mapping, reload : BOOLEAN]
  /\ todo \subseteq (Items \X Targets) \cup Units
  /\ {writes, edits, faults} \subseteq Nat
  /\ erased \subseteq Items
  /\ clean \in BOOLEAN

-----------------------------------------------------------------------------
\* Mappings

UnitItems(u)      == {i \in Items : Owner[i] = u}
Present(m)        == {Owner[i] : i \in {j \in Items : m[j] # {}}}
UnitTargets(m, u) == UNION {m[i] : i \in UnitItems(u)}
UnitRoots(m, u)   == {u} \cup UnitTargets(m, u)
Only(m, us)       == [i \in Items |-> IF Owner[i] \in us THEN m[i] ELSE {}]

\* _build_watch_roots: an item with a target is watched there and at its hub.
Watched(m, i) == IF m[i] = {} THEN {} ELSE m[i] \cup {Owner[i]}

\* classify: the copies the new mapping drops, the units it changes.
Removals(old, new) == UNION {{i} \X (old[i] \ new[i]) : i \in Items}
Affected(old, new) == {Owner[i] : i \in {j \in Items : old[j] # new[j]}}

\* missing_hub_item_adds: items added to a target its project already had.
MissingAdds(old, new) ==
  {i \in Items : /\ (new[i] \ old[i]) \cap UnitTargets(old, Owner[i]) # {}
                 /\ Owner[i] \notin disk[i]}

-----------------------------------------------------------------------------
\* The baseline on disk and in memory

\* _is_directory_item looks at the hub: a missing directory faults as a file.
InFiles(d, i) == i \notin DirItems \/ Owner[i] \notin d[i]

KeptRows(trees, m, i) ==
  LET rows == trees.rows[i].row \cap UnitRoots(m, Owner[i])
  IN  [row |-> rows, oos |-> trees.rows[i].oos \cap rows]

\* Mutant: a document is written for every item, of any project, rows or not.
SaveEveryDocument(d, trees, m) ==
  [i \in Items |-> [own   |-> IF InFiles(d, i) THEN docs[i].own ELSE KeptRows(trees, m, i),
                    files |-> IF InFiles(d, i) THEN KeptRows(trees, m, i) ELSE NoRows]]

\* _save_baseline_documents with no changed_rels: a document is written when the
\* mapped items have a row for it, and no document is deleted.
SavedDocs(d, trees, m) ==
  LET kept(i)  == KeptRows(trees, m, i)
      files(i) == m[i] # {} /\ InFiles(d, i)
      rewritten(u) == \E i \in UnitItems(u) : files(i) /\ kept(i).row # {}
  IN  [i \in Items |->
        [own   |-> IF m[i] # {} /\ ~InFiles(d, i) /\ kept(i).row # {}
                   THEN kept(i) ELSE docs[i].own,
         files |-> IF ~rewritten(Owner[i]) THEN docs[i].files
                   ELSE IF files(i) THEN kept(i) ELSE NoRows]]

\* _load_baseline_documents
ReadDocs ==
  LET rows == [i \in Items |-> [row |-> docs[i].own.row \cup docs[i].files.row,
                                oos |-> docs[i].own.oos \cup docs[i].files.oos]]
  IN  [keys |-> UNION {rows[i].row : i \in Items}, rows |-> rows]

\* load_baseline: the trees this process last wrote or read, else the documents.
LoadBaseline ==
  IF memory # None THEN memory
  ELSE IF ReadDocs.keys = {} THEN None ELSE ReadDocs

\* prune_removed_replicas: targets a project gave up lose their tree, items a
\* target lost their rows.  Hub rows stay.
Pruned(trees, old, new) ==
  LET lost == UNION {UnitTargets(old, u) \ UnitTargets(new, u) : u \in Units}
  IN  [keys |-> trees.keys \ lost,
       rows |-> [i \in Items |->
                  LET gone == lost \cup (old[i] \ new[i])
                  IN  [row |-> trees.rows[i].row \ gone, oos |-> trees.rows[i].oos \ gone]]]

\* The trees of one unit's observer.
UnitTrees(u, lv, ks) ==
  [keys |-> ks \cap ({u} \cup TargetsOf[u]),
   rows |-> [i \in Items |->
               IF Owner[i] = u THEN [row |-> lv[i].row, oos |-> lv[i].oos \cap lv[i].row]
               ELSE NoRows]]

-----------------------------------------------------------------------------
\* Items through a tick or a catch-up

ItemOf(i, lv) ==
  [disk |-> disk[i], row |-> lv.row, seen |-> lv.seen, oos |-> lv.oos, box |-> {}, gone |-> FALSE]

\* trees as the last scan (last_seen_from_baseline).
FromTrees(trees, i) ==
  [row |-> trees.rows[i].row, seen |-> trees.rows[i].row, oos |-> trees.rows[i].oos]

LiveOf(x) == [row |-> x.row, seen |-> x.seen, oos |-> x.oos]

\* The roots of item i that get a tree because something of it was recorded.
KeysOf(x, y, m, i) == IF LiveOf(x) = LiveOf(y) THEN {} ELSE Watched(m, i)

\* run_catch_up of the units that map m maps: the items it leaves, item by item.
\* Rows of items m does not map are compared on the scanned roots and kept where
\* the disk still has the item.
CaughtUp(m, trees) ==
  [i \in Items |->
     IF trees = None
     THEN LET x == ItemOf(i, NotLive)
          IN  IF m[i] = {} THEN x ELSE Seed(x, Owner[i], m[i])
     ELSE LET x == ItemOf(i, FromTrees(trees, i))
              scanned == IF Owner[i] \in Present(m)
                         THEN {Owner[i]} \cup (UnitTargets(m, Owner[i]) \cap trees.keys) ELSE {}
          IN  IF m[i] = {} THEN [x EXCEPT !.row = @ \ (scanned \ disk[i])]
              ELSE CatchUpUpdate(x, Owner[i], m[i], m[i] \ trees.keys)]

\* The trees such a catch-up leaves.
CaughtUpTrees(m, trees, ys) ==
  [keys |-> (IF trees = None THEN {} ELSE trees.keys) \cup
            UNION {IF m[i] = {} THEN {}
                   ELSE KeysOf(ItemOf(i, IF trees = None THEN NotLive ELSE FromTrees(trees, i)),
                               ys[i], m, i) : i \in Items},
   rows |-> [i \in Items |-> [row |-> ys[i].row, oos |-> ys[i].oos \cap ys[i].row]]]

-----------------------------------------------------------------------------
\* Users

WriteDisk ==
  /\ writes < MaxWrites
  /\ writes' = writes + 1
  /\ \E i \in Items : \E r \in Places(i) :
       IF r \in disk[i]
       THEN /\ disk' = [disk EXCEPT ![i] = @ \ {r}]
            /\ erased' = erased \cup {i}
       ELSE /\ disk' = [disk EXCEPT ![i] = @ \cup {r}]
            /\ UNCHANGED erased
  /\ UNCHANGED <<file, edits, stored, memory, units, ingest, faults, clean>>

EditYaml ==
  /\ edits < MaxEdits
  /\ edits' = edits + 1
  /\ file' \in Mappings \ {file}
  /\ clean' = (clean /\ ~plan.reload)
  /\ UNCHANGED <<disk, writes, stored, memory, units, ingest, faults, erased>>

-----------------------------------------------------------------------------
\* Start and reload: prepare_ingest, prepare_reload

Ingest(reload) ==
  /\ MissingAdds(snapshot, file) = {}
  /\ plan' = [old |-> snapshot, new |-> file, reload |-> reload]
  /\ todo' = Removals(snapshot, file)
  /\ pc' = "retract"

\* The start command; the user confirms removals, or does not start.
Start ==
  /\ pc = "off"
  /\ IF snapshot = None \/ snapshot = file
     THEN pc' = "catchup" /\ UNCHANGED <<plan, todo>>
     ELSE Ingest(FALSE)
  /\ UNCHANGED <<world, stored, memory, units, faults, erased, clean>>

\* A confirmed reload that finds the mapping changed.  It comes after the threads
\* the last one stopped have ended.
RequestReload ==
  /\ pc = "serve"
  /\ snapshot # file
  /\ stopping = {}
  /\ Ingest(TRUE)
  /\ UNCHANGED <<world, stored, memory, units, faults, erased, clean>>

\* apply_removals, one copy (drop_replica on an observer that is thrown away).
Retract ==
  /\ pc = "retract"
  /\ \E p \in todo :
       /\ disk' = [disk EXCEPT ![p[1]] = @ \ {p[2]}]
       /\ todo' = todo \ {p}
  /\ UNCHANGED <<file, writes, edits, stored, memory, units, pc, plan, faults, erased, clean>>

SaveSnapshot ==
  /\ pc = "retract" /\ todo = {}
  /\ snapshot' = plan.new
  /\ pc' = "prune"
  /\ UNCHANGED <<world, docs, memory, units, plan, todo, faults, erased, clean>>

\* _persist_pruned_baseline: what is loaded is saved under the old mapping.  A
\* start does it in the shell's process, whose memory ends with it.
PersistPruned ==
  /\ pc = "prune"
  /\ LET trees == LoadBaseline
         kept  == Pruned(trees, plan.old, plan.new)
     IN  IF trees = None \/ (plan.reload /\ Removals(plan.old, plan.new) = {})
         THEN UNCHANGED <<docs, memory>>
         ELSE /\ docs' = SavedDocs(disk, kept, plan.old)
              /\ memory' = IF plan.reload THEN kept ELSE None
  /\ pc' = IF plan.reload THEN "drop" ELSE "catchup"
  /\ UNCHANGED <<world, snapshot, units, plan, todo, faults, erased, clean>>

\* drop_removed_baseline_projects
DropDocs ==
  /\ pc = "drop"
  /\ docs' = [i \in Items |-> IF Owner[i] \in Present(plan.new) THEN docs[i]
                              ELSE [own |-> NoRows, files |-> NoRows]]
  /\ pc' = "units"
  /\ UNCHANGED <<world, snapshot, memory, units, plan, todo, faults, erased, clean>>

-----------------------------------------------------------------------------
\* Catch-ups on the accept thread or the start's thread, and the units

\* run_catch_up and save_baseline of the units m maps.
CatchUp(m) ==
  LET ys    == CaughtUp(m, LoadBaseline)
      trees == CaughtUpTrees(m, LoadBaseline, ys)
  IN  /\ disk' = [i \in Items |-> ys[i].disk]
      /\ docs' = SavedDocs(disk', trees, m)
      /\ memory' = trees

\* _catch_up_and_persist: starts from the snapshot, or from the yaml file when
\* there is none.
StartCatchUp ==
  /\ pc = "catchup"
  /\ LET m == IF snapshot = None THEN file ELSE snapshot
     IN  /\ CatchUp(m)
         /\ snapshot' = m
         /\ watch' = m
         /\ unbuilt' = Present(m)
  /\ pc' = "build"
  /\ plan' = NoPlan
  /\ UNCHANGED <<file, writes, edits, live, keys, running, stopping, queued, todo,
                 faults, erased, clean>>

\* build_worker_units: a scan of the disk is what the observer has seen.
BuildUnits ==
  /\ pc = "build"
  /\ LET kept(i) == memory.rows[i].row \cap UnitRoots(watch, Owner[i])
     IN  live' = [i \in Items |->
                    IF Owner[i] \notin unbuilt THEN live[i]
                    ELSE [row |-> kept(i), seen |-> disk[i] \cap Watched(watch, i),
                          oos |-> memory.rows[i].oos \cap kept(i)]]
  /\ keys' = keys \cup (memory.keys \cap UNION {UnitRoots(watch, u) : u \in unbuilt})
  /\ running' = running \cup unbuilt
  /\ unbuilt' = {}
  /\ pc' = IF plan.reload THEN "new" ELSE "serve"
  /\ UNCHANGED <<world, stored, memory, watch, stopping, queued, plan, todo, faults,
                 erased, clean>>

\* Mutant: new units are given a catch-up job too.
QueueNewUnits ==
  /\ pc = "units"
  /\ queued' = queued \cup (Affected(plan.old, plan.new) \cap Present(snapshot))
  /\ stopping' = stopping \cup (running \ Present(snapshot))
  /\ running' = running \cap Present(snapshot)
  /\ todo' = {} /\ pc' = "new"
  /\ UNCHANGED <<world, stored, memory, live, keys, watch, unbuilt, plan, faults, erased, clean>>

\* Mutant: a unit without a mapping is not stopped.
KeepEveryUnit ==
  /\ pc = "units"
  /\ LET changed == Affected(plan.old, plan.new) \cap Present(snapshot)
     IN  queued' = queued \cup (changed \cap running) /\ todo' = changed \ running
  /\ pc' = "new"
  /\ UNCHANGED <<world, stored, memory, live, keys, watch, running, stopping, unbuilt, plan,
                 faults, erased, clean>>

\* _reload_units: stops units without a mapping, queues catch-ups, lists new units.
\* With no unit running the request went to commit_reload instead.
ReloadUnits ==
  /\ pc = "units"
  /\ IF running = {}
     THEN /\ pc' = "direct"
          /\ UNCHANGED <<running, stopping, queued, todo>>
     ELSE LET present == Present(snapshot)
              changed == Affected(plan.old, plan.new) \cap present
          IN  /\ stopping' = stopping \cup (running \ present)
              /\ running' = running \cap present
              /\ queued' = queued \cup (changed \cap running)
              /\ todo' = changed \ running
              /\ pc' = "new"
  /\ UNCHANGED <<world, stored, memory, live, keys, watch, unbuilt, plan, faults, erased, clean>>

\* _catch_up_new_unit, up to its build_worker_units.
NewUnit ==
  /\ pc = "new"
  /\ \E u \in todo :
       /\ CatchUp(Only(snapshot, {u}))
       /\ watch' = [i \in Items |-> IF Owner[i] = u THEN snapshot[i] ELSE watch[i]]
       /\ unbuilt' = {u}
       /\ todo' = todo \ {u}
  /\ pc' = "build"
  /\ UNCHANGED <<file, writes, edits, snapshot, live, keys, running, stopping, queued, plan,
                 faults, erased, clean>>

\* It raises: the reload answers an error, the units after it are not started,
\* the jobs that are queued still run.
NewUnitFails ==
  /\ pc = "new" /\ todo # {}
  /\ faults < MaxFaults
  /\ faults' = faults + 1
  /\ pc' = "serve" /\ todo' = {} /\ plan' = NoPlan
  /\ clean' = FALSE
  /\ UNCHANGED <<world, stored, memory, units, erased>>

\* The accept thread waits for the catch-up jobs.
ReloadWaits ==
  /\ pc = "new" /\ todo = {}
  /\ pc' = "wait"
  /\ UNCHANGED <<world, stored, memory, units, plan, todo, faults, erased, clean>>

ReloadDone ==
  /\ pc = "wait" /\ queued = {}
  /\ pc' = "serve" /\ plan' = NoPlan
  /\ UNCHANGED <<world, stored, memory, units, todo, faults, erased, clean>>

\* commit_reload: catches up what the yaml file now maps and starts no unit.
DirectReload ==
  /\ pc = "direct"
  /\ LET m == Only(file, Affected(plan.old, plan.new))
     IN  IF m = NoItem
         THEN UNCHANGED <<disk, docs, memory, clean>>
         ELSE CatchUp(m) /\ clean' = FALSE
  /\ pc' = "serve" /\ plan' = NoPlan
  /\ UNCHANGED <<file, writes, edits, snapshot, units, todo, faults, erased>>

-----------------------------------------------------------------------------
\* A unit's thread

\* The unit's items are now as ys says.
UnitBecomes(u, ys, ks) ==
  /\ disk' = [i \in Items |-> IF Owner[i] = u THEN ys[i].disk ELSE disk[i]]
  /\ live' = [i \in Items |-> IF Owner[i] = u THEN LiveOf(ys[i]) ELSE live[i]]
  /\ keys' = ks

\* _catch_up_unit: the mapping is read from the yaml file again.
CatchUpJob(u) ==
  /\ u \in queued
  /\ queued' = queued \ {u}
  /\ LET m     == Only(file, {u})
         x(i)  == Prune(ItemOf(i, live[i]), Watched(m, i))
         ks    == keys \ (({u} \cup TargetsOf[u]) \ UnitRoots(m, u))
         ys    == [i \in Items |-> IF m[i] = {} THEN x(i)
                                   ELSE CatchUpUpdate(x(i), u, m[i], m[i] \ ks)]
         after == ks \cup UNION {KeysOf(x(i), ys[i], m, i) : i \in UnitItems(u)}
     IN  IF m = NoItem
         THEN UNCHANGED <<disk, docs, memory, live, keys, watch>>
         ELSE /\ UnitBecomes(u, ys, after)
              /\ watch' = [i \in Items |-> IF Owner[i] = u THEN file[i] ELSE watch[i]]
              /\ docs' = SavedDocs(disk', UnitTrees(u, live', keys'), m)
              /\ memory' = UnitTrees(u, live', keys')
  /\ UNCHANGED <<file, writes, edits, snapshot, running, stopping, unbuilt, ingest,
                 faults, erased, clean>>

\* _idle: a tick, and a save of every document when it applied anything; bytes
\* that changed, which are left out, make it apply something too.
Idle(u) ==
  /\ u \in running \cup stopping
  /\ LET x(i)  == ItemOf(i, live[i])
         seen(i) == Observe(x(i), u, Watched(watch, i))
         ys    == [i \in Items |-> IF Owner[i] = u THEN Tick(x(i), u, Watched(watch, i)) ELSE x(i)]
         after == keys \cup UNION {KeysOf(x(i), ys[i], watch, i) : i \in UnitItems(u)}
         applied == \E i \in UnitItems(u) : seen(i).box # {} \/ ys[i].oos # live[i].oos
     IN  /\ UnitBecomes(u, ys, after)
         /\ \E bytes \in BOOLEAN :
              IF applied \/ bytes
              THEN /\ docs' = SavedDocs(disk', UnitTrees(u, live', keys'), Only(watch, {u}))
                   /\ memory' = UnitTrees(u, live', keys')
              ELSE UNCHANGED <<docs, memory>>
  /\ erased' = erased \ {i \in UnitItems(u) : disk'[i] \cup live'[i].row \cup live'[i].seen = {}}
  /\ UNCHANGED <<file, writes, edits, snapshot, watch, running, stopping, queued, unbuilt,
                 ingest, faults, clean>>

\* The thread takes the None that stop() queued, after the job queued before it.
Exit(u) ==
  /\ u \in stopping \ queued
  /\ stopping' = stopping \ {u}
  /\ live' = [i \in Items |-> IF Owner[i] = u THEN NotLive ELSE live[i]]
  /\ keys' = keys \ ({u} \cup TargetsOf[u])
  /\ watch' = [i \in Items |-> IF Owner[i] = u THEN {} ELSE watch[i]]
  /\ UNCHANGED <<world, stored, memory, running, queued, unbuilt, ingest, faults, erased, clean>>

\* The process ends, between any two steps; a stop saves nothing either.
Crash ==
  /\ pc # "off"
  /\ faults < MaxFaults
  /\ faults' = faults + 1
  /\ memory' = None
  /\ live' = [i \in Items |-> NotLive] /\ keys' = {} /\ watch' = NoItem
  /\ running' = {} /\ stopping' = {} /\ queued' = {} /\ unbuilt' = {}
  /\ pc' = "off" /\ plan' = NoPlan /\ todo' = {}
  /\ clean' = TRUE
  /\ UNCHANGED <<world, stored, erased>>

-----------------------------------------------------------------------------

Init ==
  /\ disk = [i \in Items |-> {Owner[i]}]
  /\ file = FirstMapping /\ snapshot = None
  /\ docs = [i \in Items |-> [own |-> NoRows, files |-> NoRows]]
  /\ memory = None
  /\ live = [i \in Items |-> NotLive] /\ keys = {} /\ watch = NoItem
  /\ running = {} /\ stopping = {} /\ queued = {} /\ unbuilt = {}
  /\ pc = "off" /\ plan = NoPlan /\ todo = {}
  /\ writes = 0 /\ edits = 0 /\ faults = 0
  /\ erased = {} /\ clean = TRUE

IngestSteps == Retract \/ SaveSnapshot \/ PersistPruned \/ DropDocs
CatchUpSteps == StartCatchUp \/ BuildUnits
ReloadSteps == ReloadUnits \/ NewUnit \/ NewUnitFails \/ ReloadWaits \/ ReloadDone \/ DirectReload

Next ==
  \/ WriteDisk \/ EditYaml
  \/ Start \/ RequestReload
  \/ IngestSteps \/ CatchUpSteps \/ ReloadSteps
  \/ \E u \in Units : CatchUpJob(u) \/ Idle(u) \/ Exit(u)
  \/ Crash

Spec == Init /\ [][Next]_vars

-----------------------------------------------------------------------------
\* Properties

ByUser == writes' # writes

\* Where the daemon's records of item i say it is: those of its unit, or those a
\* catch-up of a unit without a thread would load.
Recorded(i) ==
  IF Owner[i] \in running \cup stopping THEN live[i].row \cup live[i].seen
  ELSE IF LoadBaseline = None THEN {} ELSE LoadBaseline.rows[i].row

\* Of item i, a root that mapping m watches has lost a copy it is recorded to have, or
\* the hub has none.
LossSeen(m, i) ==
  Owner[i] \notin disk[i] \/ (Recorded(i) \cap Watched(m, i)) \ disk[i] # {}

\* Apart from the copies an ingest retracts, the daemon deletes a copy, at the hub or at
\* a target, only where a watched root that is recorded to have one has lost it, or the
\* hub has none: a copy that is not made yet, a missing row, a row of a root the item is
\* no longer mapped to and another unit's rows are never taken for a delete (seed_item,
\* install_fresh_item, apply_frozen_mismatches, prune_removed_replicas).
DeletesWereSeen ==
  [][ByUser \/ Retract \/
       \A i \in Items : disk[i] \ disk'[i] # {} => LossSeen(watch', i) \/ (pc = "direct" /\ LossSeen(file, i))]_vars

\* "A missing row means the path is absent": a delete that has reached every copy and
\* every row of its unit is over.  A start then finds no row of it, and deletes no copy
\* of an item that is at the hub again.
DeletesEnd ==
  [][StartCatchUp =>
       \A i \in Items \ erased : Owner[i] \in disk[i] => disk[i] \subseteq disk'[i]]_vars

\* "Hub content is kept": a confirmed removal deletes target copies; the hub copy of
\* an item stays unless a user's delete of a copy is on its way.
HubContentKept ==
  [][ByUser \/ \A i \in Items : Owner[i] \in disk[i] \ disk'[i] => i \in erased]_vars

Quiet == pc = "serve" /\ queued = {}

\* After every start, and after every reload that was not raced by an edit of the
\* yaml and did not fail, the units watch exactly what the committed snapshot maps,
\* each managed project with a unit of its own.
UnitsWatchSnapshot ==
  Quiet /\ clean =>
    /\ running = Present(snapshot)
    /\ \A u \in running : \A i \in UnitItems(u) : watch[i] = snapshot[i]

\* When no reload is going on and none was raced by an edit, the document of a file
\* item its unit has rows of says what the unit's memory says: a start resumes from
\* what was last applied.
FileRowsReadBack ==
  Quiet /\ clean => \A u \in running : \A i \in UnitItems(u) \ DirItems :
             watch[i] # {} /\ live[i].row # {} =>
               docs[i].files = [row |-> live[i].row, oos |-> live[i].oos \cap live[i].row]

\* Once a unit has seen the disk, an item without isolated replicas that its rows
\* agree with is at the hub and at all its targets, or nowhere.
NoFrozenMismatch ==
  \A u \in running \ queued : \A i \in UnitItems(u) :
    LET W == Watched(watch, i)
    IN  disk[i] \cap W = live[i].seen /\ live[i].row = live[i].seen /\ live[i].oos = {}
          => disk[i] \cap W \in {{}, W}
=============================================================================
