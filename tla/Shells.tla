------------------------------- MODULE Shells -------------------------------
(***************************************************************************)
(* The mutating shells `revlink create`, `revlink restore` and `remove`    *)
(* (daemon/handlers.py, operations/revlink.py, operations/remove.py and    *)
(* the named jobs of daemon/live.py) on one item of one managed project:   *)
(* the mapping in the yaml file, the committed snapshot, the baseline on   *)
(* disk and in the unit, the git excludes and the copies, changed one at a *)
(* time by one job of the unit's thread.  Users write disks and edit the   *)
(* yaml file between any two steps, other shells commit, a step raises, or *)
(* the process ends and is started again.                                  *)
(*                                                                         *)
(* The project maps other items to every target, so no target is new and   *)
(* no baseline is empty.  Copies have the same bytes, as in ItemSync.  A   *)
(* start is one step here; Reload takes it apart.                          *)
(***************************************************************************)
EXTENDS ItemSync, FiniteSets

CONSTANTS
  Hub,        \* the managed project
  Targets,    \* its targets
  Kinds,      \* what the item may be
  Spellings,  \* how a shell may name it: by its name, with a ./ before it, by its full path
  Namesakes,  \* whether another project may list an item of the same name
  MaxWrites,  \* bound: user writes of disks
  MaxEdits,   \* bound: user edits of the yaml file
  MaxShells,  \* bound: shells on this item
  MaxFaults   \* bound: steps of a shell that raise, ends of the process during one

Roots == {Hub} \cup Targets

\* "last_file" is a file item with no other file item in its project.
ASSUME KindsAssumption == Kinds \subseteq {"file", "directory", "last_file"}
ASSUME NamesAssumption == Spellings \subseteq {"name", "dotted", "absolute"} /\ Namesakes \subseteq BOOLEAN
ASSUME RootsAssumption == Hub \notin Targets
ASSUME OrderAssumption ==
  Order \in Seq(Roots) /\ Roots \subseteq {Order[n] : n \in 1 .. Len(Order)}
ASSUME LimitsAssumption == {MaxWrites, MaxEdits, MaxShells, MaxFaults} \subseteq Nat

VARIABLES
  kind,      \* what the item is
  disk,      \* where it is
  yaml,      \* targets whose subpath list names it
  snapshot,  \* targets the committed snapshot maps it to
  docs,      \* its rows in a document of its own and in the document of files
  live,      \* the unit's baseline rows, last scan and isolated replicas
  watch,     \* targets the unit watches it at
  exclude,   \* targets whose .git/info/exclude names it
  on,        \* the daemon runs
  job,       \* the shell the unit's thread is at
  writes, edits, shells, faults,
  erased,    \* a user deleted a copy, and the baseline has not caught up
  spoiled    \* what went wrong so far

bounds == <<writes, edits, shells, faults>>
vars   == <<kind, disk, yaml, snapshot, docs, live, watch, exclude, on, job, bounds,
            erased, spoiled>>

Kept    == [row : SUBSET Roots, oos : SUBSET Roots]
NoRows  == [row |-> {}, oos |-> {}]
NotLive == [row |-> {}, seen |-> {}, oos |-> {}]

\* What each shell does, in order.
CreateSteps  == <<"splice", "watch", "hub", "others", "exclude", "record",
                  "snapshot", "docs", "answer">>
RestoreSteps == <<"watch", "hub", "others", "exclude", "record",
                  "drop", "watch", "snapshot", "docs", "answer">>
RemoveSteps  == <<"watch", "others", "hub", "exclude", "record",
                  "drop", "watch", "snapshot", "docs", "answer">>
Program == [create |-> CreateSteps, restore |-> RestoreSteps, remove |-> RemoveSteps]

\* done: targets the current step is done with; listed: the targets the request
\* found mapped; warned: persisting failed.
NoJob == [op |-> "none", cwd |-> Hub, at |-> 0, done |-> {}, listed |-> {}, warned |-> FALSE]
Busy  == job.op # "none"
At(step) == Busy /\ Program[job.op][job.at] = step

TypeOK ==
  /\ kind \in Kinds
  /\ disk \subseteq Roots /\ yaml \subseteq Targets /\ snapshot \subseteq Targets
  /\ docs \in [own : Kept, files : Kept]
  /\ live \in [row : SUBSET Roots, seen : SUBSET Roots, oos : SUBSET Targets]
  /\ watch \subseteq Targets /\ exclude \subseteq Targets /\ on \in BOOLEAN
  /\ \/ job = NoJob
     \/ /\ job.op \in DOMAIN Program /\ job.at \in DOMAIN Program[job.op]
        /\ job.cwd \in Targets /\ job.done \subseteq Targets /\ job.listed \subseteq Targets
        /\ job.warned \in BOOLEAN
  /\ {writes, edits, shells, faults} \subseteq Nat
  /\ erased \in BOOLEAN
  /\ spoiled \subseteq {"undone", "failed", "committed", "raced"}

Watched(m) == IF m = {} THEN {} ELSE m \cup {Hub}

-----------------------------------------------------------------------------
\* The baseline on disk

InFiles(d) == kind # "directory" \/ Hub \notin d

\* The document of files is written when a file item of the project has a row.
WritesFiles(d, kept, m) ==
  kind # "last_file" \/ (m # {} /\ InFiles(d) /\ kept.row # {})

FilesPart(d, kept, m) == IF m # {} /\ InFiles(d) THEN kept ELSE NoRows

Rows(lv) == [row |-> lv.row, oos |-> lv.oos \cap lv.row]

\* _save_baseline_documents of every item: no document is deleted.
SaveAll(old, d, kept, m) ==
  [own   |-> IF m # {} /\ ~InFiles(d) /\ kept.row # {} THEN kept ELSE old.own,
   files |-> IF WritesFiles(d, kept, m) THEN FilesPart(d, kept, m) ELSE old.files]

\* Mutant: the documents of an item that is not mapped any more stay.
DocumentsStay(old, d, kept, m, path, namesake) == IF m = {} THEN old ELSE SaveAll(old, d, kept, m)

\* _save_baseline_documents of the item the request names: documents of its own that
\* are not written again are deleted; without one the document of files is written
\* again.  Only projects that list the name are looked at, or all when none does; a
\* path that is not spelled as in the list is of none, and an absolute one of no
\* directory of documents either.
SaveNamed(old, d, kept, m, path, namesake) ==
  LET listed  == path = "name" /\ m # {} /\ kept.row # {}
      looked  == path # "name" \/ m # {} \/ ~namesake
      noneOwn == old.own.row = {} \/ path = "absolute"
  IN  [own   |-> IF listed /\ ~InFiles(d) THEN kept
                 ELSE IF path = "absolute" THEN old.own ELSE NoRows,
       files |-> IF /\ looked /\ WritesFiles(d, kept, m)
                    /\ noneOwn \/ (listed /\ InFiles(d))
                 THEN FilesPart(d, kept, m) ELSE old.files]

ReadDocs == [row |-> docs.own.row \cup docs.files.row, oos |-> docs.own.oos \cup docs.files.oos]

-----------------------------------------------------------------------------
\* Users and other shells

ItemOf(d, lv) ==
  [disk |-> d, row |-> lv.row, seen |-> lv.seen, oos |-> lv.oos, box |-> {}, gone |-> FALSE]
LiveOf(x) == [row |-> x.row, seen |-> x.seen, oos |-> x.oos]

Forgotten(d, lv, ds) == d = {} /\ lv.row = {} /\ ds.own.row = {} /\ ds.files.row = {}

WriteDisk ==
  /\ writes < MaxWrites
  /\ writes' = writes + 1
  /\ \E r \in Roots :
       /\ disk' = IF r \in disk THEN disk \ {r} ELSE disk \cup {r}
       /\ erased' = (erased \/ r \in disk)
  /\ spoiled' = IF Busy THEN spoiled \cup {"raced"} ELSE spoiled
  /\ UNCHANGED <<kind, yaml, snapshot, docs, live, watch, exclude, on, job, edits, shells, faults>>

EditYaml ==
  /\ edits < MaxEdits
  /\ edits' = edits + 1
  /\ yaml' \in (SUBSET Targets) \ {yaml}
  /\ spoiled' = IF Busy THEN spoiled \cup {"raced"} ELSE spoiled
  /\ UNCHANGED <<kind, disk, snapshot, docs, live, watch, exclude, on, job, writes, shells,
                 faults, erased>>

\* A shell on an item of another project, by that project's unit: _persist_live_state
\* commits what the whole yaml file says, and when that item has the same name deletes
\* this item's own documents: that unit has no rows of this project to write.
OtherProject ==
  /\ on
  /\ \E namesake \in Namesakes :
       /\ namesake \/ snapshot # yaml
       /\ docs' = IF namesake THEN [docs EXCEPT !.own = NoRows] ELSE docs
  /\ snapshot' = yaml
  /\ spoiled' = IF snapshot = yaml /\ (erased => docs' = docs)
                THEN spoiled ELSE spoiled \cup {"committed"}
  /\ UNCHANGED <<kind, disk, yaml, live, watch, exclude, on, job, bounds, erased>>

\* A shell on another item of this project, which may write the document of files.
OtherItem ==
  /\ on /\ ~Busy /\ snapshot # yaml
  /\ snapshot' = yaml
  /\ watch' = yaml
  /\ live' = LiveOf(Prune(ItemOf(disk, live), Watched(yaml)))
  /\ \E files \in BOOLEAN :
       docs' = IF files /\ WritesFiles(disk, Rows(live'), yaml)
               THEN [docs EXCEPT !.files = FilesPart(disk, Rows(live'), yaml)] ELSE docs
  /\ spoiled' = spoiled \cup {"committed"}
  /\ UNCHANGED <<kind, disk, yaml, exclude, on, job, bounds, erased>>

-----------------------------------------------------------------------------
\* One shell on the item, by the unit's thread

Advance == job' = [job EXCEPT !.at = @ + 1, !.done = {}]
Did(r)  == job' = [job EXCEPT !.done = @ \cup {r}]

\* The request is answered with an error, as a step raised or found nothing to do.
GiveUp ==
  /\ job' = NoJob
  /\ spoiled' = spoiled \cup (IF job.op = "create" THEN {"failed"} ELSE {"failed", "undone"})

\* _validate of each shell; --force overwrites a managed copy, or clears an item
\* that is not there.  A restore does not ask whether the target lists the item.
CreateValid(cwd, force)  == cwd \in disk /\ cwd \notin yaml /\ (force \/ Hub \notin disk)
RestoreValid(cwd)        == {cwd, Hub} \subseteq disk
RemoveValid(cwd, force)  == cwd \in yaml /\ (force \/ {cwd, Hub} \subseteq disk)

Validated(op, cwd) ==
  \E force \in BOOLEAN :
    \/ op = "create"  /\ CreateValid(cwd, force)
    \/ op = "restore" /\ RestoreValid(cwd)
    \/ op = "remove"  /\ RemoveValid(cwd, force)

Accept(op, cwd) ==
  /\ on /\ ~Busy
  /\ shells < MaxShells
  /\ shells' = shells + 1
  /\ Validated(op, cwd)
  /\ job' = [op |-> op, cwd |-> cwd, at |-> 1, done |-> {}, listed |-> yaml, warned |-> FALSE]
  /\ spoiled' = IF snapshot = yaml THEN spoiled ELSE spoiled \cup {"committed"}
  /\ UNCHANGED <<kind, disk, yaml, snapshot, docs, live, watch, exclude, on, writes, edits,
                 faults, erased>>

\* _update_config: every target of the project gets the entry, one write each.
Splice ==
  /\ At("splice")
  /\ IF job.done = Targets
     THEN Advance /\ UNCHANGED yaml
     ELSE \E r \in Targets \ job.done : Did(r) /\ yaml' = yaml \cup {r}
  /\ UNCHANGED <<kind, disk, snapshot, docs, live, watch, exclude, on, bounds, erased,
                 spoiled>>

\* _replace_project, _replace_after_mapping_drop
Rewatch ==
  /\ At("watch")
  /\ watch' = yaml
  /\ live' = LiveOf(Prune(ItemOf(disk, live), Watched(yaml)))
  /\ Advance
  /\ UNCHANGED <<kind, disk, yaml, snapshot, docs, exclude, on, bounds, erased, spoiled>>

\* The managed copy is made from the request's target, or deleted.
ChangeHub ==
  /\ At("hub")
  /\ IF job.op = "create" /\ job.cwd \notin disk
     THEN GiveUp /\ UNCHANGED disk
     ELSE /\ disk' = Put(disk, {Hub}, job.op = "create")
          /\ Advance /\ UNCHANGED spoiled
  /\ UNCHANGED <<kind, yaml, snapshot, docs, live, watch, exclude, on, bounds, erased>>

\* Mutant: no other target is reached.
OwnTarget == IF job.op = "remove" THEN {job.cwd} ELSE {}

\* The fan-out of a create, or the deletes of the others' copies.
Reached == IF job.op = "remove" THEN watch \cup {job.cwd} ELSE watch \ {job.cwd}

ChangeOthers ==
  /\ At("others")
  /\ IF Reached \subseteq job.done
     THEN Advance /\ UNCHANGED <<disk, spoiled>>
     ELSE IF job.op = "create" /\ Hub \notin disk
     THEN GiveUp /\ UNCHANGED disk
     ELSE \E r \in Reached \ job.done :
            /\ disk' = Put(disk, {r}, job.op = "create")
            /\ Did(r) /\ UNCHANGED spoiled
  /\ UNCHANGED <<kind, yaml, snapshot, docs, live, watch, exclude, on, bounds, erased>>

\* Mutant: a restore leaves the exclude of the request's target.
KeepOwnExclude ==
  /\ At("exclude")
  /\ LET excluded == IF job.op = "restore" THEN watch \ {job.cwd} ELSE watch \cup {job.cwd}
     IN  IF excluded \subseteq job.done
         THEN Advance /\ UNCHANGED exclude
         ELSE \E r \in excluded \ job.done :
                /\ exclude' = Put(exclude, {r}, job.op = "create")
                /\ Did(r)
  /\ UNCHANGED <<kind, disk, yaml, snapshot, docs, live, watch, on, bounds, erased, spoiled>>

\* Mutant: the managed project's repository gets the entry too.
ExcludeAtHubToo ==
  /\ At("exclude")
  /\ exclude' = Put(exclude, {Hub, job.cwd} \cup watch, job.op = "create")
  /\ Advance
  /\ UNCHANGED <<kind, disk, yaml, snapshot, docs, live, watch, on, bounds, erased, spoiled>>

\* GitExcludeManager: one read and write under the file's lock.
ExcludeLine(r) == exclude' = Put(exclude, {r}, job.op = "create")

\* _record_exclude, one target at a time.
ChangeExcludes ==
  /\ At("exclude")
  /\ IF watch \cup {job.cwd} \subseteq job.done
     THEN Advance /\ UNCHANGED exclude
     ELSE \E r \in (watch \cup {job.cwd}) \ job.done : ExcludeLine(r) /\ Did(r)
  /\ UNCHANGED <<kind, disk, yaml, snapshot, docs, live, watch, on, bounds, erased, spoiled>>

\* _record_item of what the disk shows, isolated or not.
Installed(x) == RecordDisk(x, {Hub, job.cwd} \cup watch)

\* _forget_item
Forget(x, roots) == [Record(x, roots, FALSE) EXCEPT !.oos = @ \ roots]

RecordShell ==
  /\ At("record")
  /\ LET x == ItemOf(disk, live)
     IN  live' = LiveOf(IF job.op = "create" THEN Installed(x) ELSE Forget(x, {Hub} \cup Reached))
  /\ Advance
  /\ UNCHANGED <<kind, disk, yaml, snapshot, docs, watch, exclude, on, bounds, erased, spoiled>>

\* drop_mapping: one write drops every entry the request found.  A remove that
\* finds none of them any more is an error.
DropMapping ==
  /\ At("drop")
  /\ IF job.op = "remove" /\ job.listed \cap yaml = {}
     THEN GiveUp /\ UNCHANGED yaml
     ELSE yaml' = yaml \ job.listed /\ Advance /\ UNCHANGED spoiled
  /\ UNCHANGED <<kind, disk, snapshot, docs, live, watch, exclude, on, bounds, erased>>

\* Mutant: the snapshot is persisted and the baseline is not.
SkipDocs ==
  /\ At("docs")
  /\ Advance
  /\ UNCHANGED <<kind, disk, yaml, snapshot, docs, live, watch, exclude, on, bounds, erased, spoiled>>

\* _persist_live_state, its two writes.
CommitSnapshot ==
  /\ At("snapshot")
  /\ snapshot' = yaml
  /\ Advance
  /\ UNCHANGED <<kind, disk, yaml, docs, live, watch, exclude, on, bounds, erased, spoiled>>

CommitDocs ==
  /\ At("docs")
  /\ \E path \in Spellings, namesake \in Namesakes :
       /\ ~(path = "absolute" /\ kind = "directory" /\ job.cwd \in disk)
       /\ docs' = SaveNamed(docs, disk, Rows(live), yaml, path, namesake)
       /\ spoiled' = IF \/ path = "name" /\ namesake /\ yaml = {}
                        \/ path = "absolute" /\ kind = "directory"
                     THEN spoiled \cup {"failed", "undone"} ELSE spoiled
  /\ Advance
  /\ UNCHANGED <<kind, disk, yaml, snapshot, live, watch, exclude, on, bounds, erased>>

\* The full path of a directory: baseline_dir / path is the user's own directory.  The
\* documents in it are deleted, which raises at its first file and else deletes it.
CommitElsewhere ==
  /\ At("docs")
  /\ "absolute" \in Spellings /\ kind = "directory" /\ job.cwd \in disk
  /\ \/ Advance /\ disk' = disk \ {job.cwd}
     \/ job' = [job EXCEPT !.at = Len(Program[job.op]), !.warned = TRUE] /\ UNCHANGED disk
  /\ spoiled' = spoiled \cup {"failed", "undone"}
  /\ UNCHANGED <<kind, yaml, snapshot, docs, live, watch, exclude, on, bounds, erased>>

\* _execute_unit_request, after the handler: the unit watches what was committed.
Answer ==
  /\ At("answer")
  /\ watch' = snapshot
  /\ live' = LiveOf(Prune(ItemOf(disk, live), Watched(snapshot)))
  /\ job' = NoJob
  /\ UNCHANGED <<kind, disk, yaml, snapshot, docs, exclude, on, bounds, erased, spoiled>>

\* A write of the job raises.  Of persisting, that is a warning of a success.
StepFails ==
  /\ Busy /\ Program[job.op][job.at] \notin {"watch", "record", "answer"}
  /\ faults < MaxFaults
  /\ faults' = faults + 1
  /\ IF At("snapshot") \/ At("docs")
     THEN /\ job' = [job EXCEPT !.at = Len(Program[job.op]), !.warned = TRUE]
          /\ spoiled' = spoiled \cup {"failed", "undone"}
     ELSE GiveUp
  /\ UNCHANGED <<kind, disk, yaml, snapshot, docs, live, watch, exclude, on, writes, edits,
                 shells, erased>>

ShellSteps ==
  \/ Splice \/ Rewatch \/ ChangeHub \/ ChangeOthers \/ ChangeExcludes \/ RecordShell
  \/ DropMapping \/ CommitSnapshot \/ CommitDocs \/ CommitElsewhere \/ Answer
  \/ StepFails

-----------------------------------------------------------------------------
\* The unit between shells, and the process

\* _idle: a tick, and a save of every document when it applied anything; bytes that
\* changed, which are left out, make it apply something too.
IdleTick ==
  /\ on /\ ~Busy
  /\ LET x == ItemOf(disk, live)
         W == Watched(watch)
         y == Tick(x, Hub, W)
         applied == Observe(x, Hub, W).box # {} \/ y.oos # live.oos
     IN  /\ disk' = y.disk
         /\ live' = LiveOf(y)
         /\ \E bytes \in BOOLEAN :
              docs' = IF applied \/ bytes THEN SaveAll(docs, disk', Rows(live'), watch) ELSE docs
  /\ erased' = (erased /\ ~Forgotten(disk', live', docs'))
  /\ UNCHANGED <<kind, yaml, snapshot, watch, exclude, on, job, bounds, spoiled>>

\* The process ends, between any two steps; a stop between jobs saves nothing either.
Stop ==
  /\ on
  /\ on' = FALSE
  /\ live' = NotLive /\ watch' = {}
  /\ IF Busy
     THEN faults < MaxFaults /\ faults' = faults + 1 /\ GiveUp
     ELSE UNCHANGED <<faults, job, spoiled>>
  /\ UNCHANGED <<kind, disk, yaml, snapshot, docs, exclude, writes, edits, shells, erased>>

\* The start command: it refuses an item that was added without a managed copy,
\* retracts dropped copies, prunes the baseline, catches up and saves.
Start ==
  /\ ~on
  /\ yaml \ snapshot # {} => Hub \in disk
  /\ LET dropped == snapshot \ yaml
         left    == disk \ dropped
         pruned  == [row |-> ReadDocs.row \ dropped, oos |-> ReadDocs.oos \ dropped]
         stored  == IF yaml = snapshot THEN docs ELSE SaveAll(docs, left, pruned, snapshot)
         trees   == [row |-> stored.own.row \cup stored.files.row,
                     oos |-> stored.own.oos \cup stored.files.oos]
         x       == ItemOf(left, [row |-> trees.row, seen |-> trees.row, oos |-> trees.oos])
         y       == IF yaml = {} THEN [x EXCEPT !.row = @ \cap left]
                    ELSE CatchUpUpdate(x, Hub, yaml, {})
         seeded  == IF Hub \in left THEN yaml \ trees.row ELSE {}
     IN  /\ disk' = y.disk
         /\ exclude' = (exclude \ dropped) \cup seeded
         /\ docs' = SaveAll(stored, disk', [row |-> y.row, oos |-> y.oos \cap y.row], yaml)
         /\ live' = [row |-> y.row, seen |-> disk' \cap Watched(yaml), oos |-> y.oos \cap y.row]
  /\ on' = TRUE /\ snapshot' = yaml /\ watch' = yaml
  /\ erased' = (erased /\ ~Forgotten(disk', live', docs'))
  /\ UNCHANGED <<kind, yaml, job, bounds, spoiled>>

-----------------------------------------------------------------------------

\* The daemon runs; the item is a user's file in a target, or it is in sync.
Init ==
  /\ kind \in Kinds
  /\ \E m \in {{}, Targets} :
       /\ yaml = m /\ snapshot = m /\ watch = m /\ exclude = m
       /\ disk \in IF m = {} THEN {{r} : r \in Targets} ELSE {Roots}
       /\ LET kept == [row |-> Watched(m), oos |-> {}]
          IN  docs = [own   |-> IF kind = "directory" THEN kept ELSE NoRows,
                      files |-> IF kind = "directory" THEN NoRows ELSE kept]
       /\ live = [row |-> Watched(m), seen |-> Watched(m), oos |-> {}]
  /\ on = TRUE /\ job = NoJob
  /\ writes = 0 /\ edits = 0 /\ shells = 0 /\ faults = 0
  /\ erased = FALSE /\ spoiled = {}

Next ==
  \/ WriteDisk \/ EditYaml \/ OtherProject \/ OtherItem
  \/ \E op \in DOMAIN Program, cwd \in Targets : Accept(op, cwd)
  \/ ShellSteps
  \/ IdleTick \/ Stop \/ Start

Spec == Init /\ [][Next]_vars

-----------------------------------------------------------------------------
\* Properties

\* The daemon deletes a copy only after a user deleted one, for a restore or remove
\* that was asked for, or in the targets a start retracts it from.  No create, also
\* one that raised or died half-way, no commit of another shell, no idle tick and no
\* catch-up costs a copy (install_item, restore_item, remove_item, save_baseline).
\* Left out is what follows a restore or remove that left rows behind, or a shell that
\* named a directory by its full path; and a directory that users changed during a
\* shell: a restore they raced leaves rows of targets and none of the managed copy.
CopiesKept ==
  [][\/ writes' # writes \/ erased \/ "undone" \in spoiled'
     \/ kind = "directory" /\ "raced" \in spoiled
     \/ job.op \in {"restore", "remove"}
     \/ disk \ disk' \subseteq IF on THEN {} ELSE snapshot \ yaml]_vars

Settled == ~Busy /\ on /\ spoiled = {}

\* When no shell is at work and none failed, was raced, committed an edit it did not
\* make or left rows to a namesake, the git excludes are those of the committed mapping:
\* no file git should see is hidden, no projection shows up in git status.  A deleted
\* directory is left out: its documents stay (store.py:521), and when it is mapped again
\* their rows keep the catch-up from seeding the targets, and from excluding it there.
ExcludesFollowMapping ==
  Settled /\ (kind = "directory" => ~erased) => exclude = snapshot

\* The same for the baseline on disk: "a target's section lists the file items that
\* target declares" - a target has a row of a file item only where it is mapped.
RowsFollowMapping ==
  Settled /\ kind # "directory" => docs.files.row \cap Targets \subseteq snapshot

\* And the copies: what the unit has seen and recorded is everywhere or nowhere.
CopiesFollowMapping ==
  Settled /\ disk \cap Watched(watch) = live.seen /\ live.row = live.seen /\ live.oos = {}
    => disk \cap Watched(watch) \in {{}, Watched(watch)}

\* "... and ingesting a new subpath": a start that finds the item added, with its
\* managed copy there and nothing gone wrong or deleted before, makes the projections.
NewSubpathIsInstalled ==
  [][~on /\ on' /\ snapshot = {} /\ yaml # {} /\ ~erased /\ spoiled = {}
       => Watched(yaml) \subseteq disk']_vars
=============================================================================
