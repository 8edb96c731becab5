# beyond-local-file: TLA+ specifications and proofs

beyond-local-file keeps files of a *managed project* (the hub) and their copies
in *target projects* (the replicas) equal. A daemon watches every root, applies
each change at the hub with compare-and-swap, and fans it out; the shells
(`revlink create`, `restore`, `remove`, `link check`, `daemon reload`) are
clients of that daemon. This directory holds TLA+ models of the code under
`src/beyond_local_file/`, configurations that TLC checks, and theorems that
TLAPS proves. Names follow the source; `PROJECT.json` maps every definition to
the lines it stands for.

## Inventory

| Component | State it keeps | Operations | What makes it correct |
| --- | --- | --- | --- |
| Live observer, `daemon/live.py` | baseline rows (state, generation, out-of-sync flag), last-seen scan, mailbox of path changes, isolated set, kind-change set, attic of held copies | `tick` (`observe`, `apply`), `_apply_one`, `_fan_out`, `_mark_oos`, `_rejoin_equal_replicas`, `resolve`, named jobs (`install_item`, `seed_item`, `install_fresh_item`, `restore_item`, `remove_item`, `drop_replica`), `apply_frozen_mismatches` | no copy drifts off unmarked; no bytes are lost without a base that matches, a hold, or the delete window; isolation is deserved and ends |
| Catch-up, `daemon/catchup.py` | none of its own | seed, tick without the new targets, install them, frozen mismatches | what happened while the daemon was down is applied once; a crash loses nothing |
| Worker units, `daemon/workers.py`, `daemon/runtime.py` | one queue and thread per managed project | `submit`, `_run`, `_idle`, `stop`, routing, reload, check fan-out | one job at a time per unit; every accepted request is answered; a busy unit does not hold up `status` |
| Accept loop, `daemon/ipc.py` | phase, pending waiters | `_accept_one`, `_release_pending`, cancel watch | mutating requests wait for `ready`; nobody waits forever |
| Ingest and reload, `daemon/ingest.py` | the mapping snapshot on disk | `classify`, `prepare_reload`, `apply_removals`, `commit_ingest` | retracting a target never deletes hub content |
| Store, `daemon/store.py` | `snapshot.yml`, item documents, remembered trees | `save_baseline`, `load_baseline`, `save_snapshot` | what is read back is what was written, for every unit |
| Shell operations, `daemon/handlers.py`, `operations/` | none of their own | create, restore, remove | yaml, disk, excludes and rows agree after a failed step |
| Contribution, `contribution.py`, `discovery.py` | none | `item_covers_rel`, `contribution_owner`, `find_item_path_overlaps` | at most one project owns a path on a target |
| Mapping files, `config.py` | the lines of each yaml file | reading the mappings, `add_subpath`, `remove_subpath` | a splice changes the mapping it is about and no other line |
| Configuration sets, `configuration_set.py` | the pointer list, a run directory per set | which set a command means, overlap of running sets | no mapping file is loaded by two workers |
| Process, `daemon/process.py`, `daemon/pid.py` | pid file, port, ready marker | start, stop, reload, status | at most one worker per configuration set |
| Held copies, `held.py` | the attic | `store_held_copy`, list | a slot is never reused |
| Resolve UI, `daemon/resolve_ui.py` | token, port | submit a confirmed fact | it runs as a job of the owning unit |
| Locks and excludes, `file_locks.py`, `git_manager.py` | one lock per file | splice | two units never lose each other's lines |
| Client, screen, log, results, command line | none | presentation | not modelled |

The parts meet in these places. The accept thread hands a request to a unit's
queue and waits; the unit's thread alone touches its `LiveSync`; ingest writes
the snapshot and deletes target copies on the accept thread; the resolve UI's
HTTP thread queues a job on a unit; the store's files and its process-wide
memory are shared by all units. Users edit every root at any time, without
telling anyone.

## Modules

| Module | Models | Instances | Theorems |
| --- | --- | --- | --- |
| `LiveSync` | the live observer of one hub, for one declared path | `MCLiveSync` | `LiveSyncProofs` |
| `WorkerUnits` | the threads of the daemon process and the requests that pass between them | `MCWorkerUnits` | `WorkerUnitsProofs` |
| `ItemSync` | a tick and a catch-up on a whole item, as operators | used by the next two | `ItemSyncProofs` |
| `Reload` | ingest, reload and restart over several items and projects | `MCReload` | `ReloadProofs` |
| `Shells` | create, restore and remove on one item, step by step | `MCShells` | `ShellsProofs` |
| `DaemonProcess` | the commands and processes of a configuration set | `MCDaemonProcess` | `DaemonProcessProofs` |
| `Contribution` | names, coverage, overlap and ownership, as operators | used by the next two | |
| `Mapping` | what the shells promise of the mappings | abstract | `MappingProofs` |
| `MappingFile` | the lines of the yaml files and how they are spliced | `MCMappingFile` | |

### LiveSync

`LiveSync` keys all its state by path, and so one path stands for each of them.
A root's `disk` is a node: a file (its digest), a symlink (its text), a
directory, or nothing. `row`, `lastSeen`, `mailbox`, `oos` and `kindChange` are
the fields `_baseline`, `_last_seen`, `_mailbox`, `_oos` and
`_kind_change_rels`; `held` is the attic. `pc`, `todo` and `job` are the program
counter and the loop variables of the unit's thread. The steps of a tick are
actions of their own because users' writes fall between them:

- `StartTick`, `Observe(r)` for each root in the order of `_watch_roots`,
  `StartApply` (`_batch_kind_changes`);
- one of `ApplyHubSource`, `ApplyJoin`, `ApplyDelete`, `ApplyStaleBase`,
  `ApplyNothing`, `ApplyUpdate` for the change that `_apply_sort_key` puts
  first: the branches of `_apply_one`;
- `FanOutSkip`, `FanOutJoin`, `FanOutMismatch` or `FanOutWrite` for each target,
  then `Rejoin`; `TickDone` when the mailbox is empty;
- `Resolve` is the job of the resolve UI; `UserWrite` is a user.

A step is one scan of a root, one write of the hub, or one replica of a
fan-out: what the code does inside such a step is atomic in the model, and a
write between a scan and the copy that follows it in the same step is left out,
with one exception. `FanOutWrite` copies what the hub has by then, because the
hub was scanned before the loop over the replicas, and so it includes the case
where `mkdir` meets a node and the exception ends the thread (`pc = "dead"`).
A delete seen on an isolated replica is queued and applied at the hub, as
`observe` does and the delete-window tests expect, although
docs/live-sync-edge-cases.md:65 says that such changes are discarded.
Not in the module: paths above and below the path, the stat-first hash cache
(a scan reads the bytes), and links that lead to a directory.

### WorkerUnits

`WorkerUnits` leaves the disks out and models who waits for whom. `main` is the
accept thread: `Top`, `Accept`, `AcceptTimeout` and `Release` are
`serve_requests`, `_accept_one`, `_on_idle` and `_release_pending`; `ServeUnit`,
`ServeCheck` and `ServeReload` are the branches of `_handle_live_request`, each
of which queues jobs and leaves the thread `blocked` until `Wake`. `queue[u]` is
a unit's queue, with `Stop` for the `None` that `WorkerUnit.stop` puts there;
`UnitTop`, `UnitTake`, `UnitJobDone`, `UnitIdle` and `UnitTicked` are `_run` and
`_idle`. `done` holds the jobs whose event is set and `skipped` those that found
their request cancelled. `StartUnits` and `SetReady` end `_catch_up_worker`;
`Submit`, `HttpRoute`, `HttpSubmit` and `HttpReply` are the resolve UI's single
HTTP thread. A reload visits its units one by one (`ReloadNext`), so a unit may
finish its part, or an HTTP job may slip in, between two of them. `answer` is
what the other end of the connection sees.

A job may raise: its exception is kept (`raised`), its event is set, and the
waiter raises it again. A check or a reload waits for its units in the order of
names (`Rank`), so that the first failed one answers with an error while later
ones may not have begun (`JobsOver`, `Outcome`). A request that needs no unit is
handled on the accept thread (`ServeDirect`, `DirectDone`), which is busy
meanwhile and may raise, and so may the catch-up of a new unit in a reload
(`ReloadRaises`): the units after it are then never visited.

Bounds: each request is sent once, at most `MaxRaised` jobs raise, and a managed
project that a reload removed is not mapped again.

`LiveSync` and `WorkerUnits` meet in one job: what `WorkerUnits` calls a job or a tick of a
unit is a run of `LiveSync`'s `Daemon` steps until `pc` is idle, and that a
unit's thread runs one at a time is what lets `LiveSync` have a single `pc`.

### ItemSync, Reload

`ItemSync` has the code of `LiveSync` again at the level of whole items and one
call at a time, as operators on a record of sets of roots: `Tick` is `observe`
followed by the apply loop, `Seed` and `CatchUpUpdate` are the two halves
of `catchup.py`. Copies of an item have the same bytes there, because what
`Reload` and `Shells` ask is whether a copy is there, who believes so, and who
deletes it.

`Reload` has several managed projects with their items. `file` is what the yaml
files say, `snapshot` the committed mapping, `docs` the baseline documents,
`memory` the process-wide copy of the last full save, `live` what each unit's
`LiveSync` holds, `watch` what it observes. An ingest is the chain `Start` or
`RequestReload`, `Retract` (one copy of `apply_removals` each), `SaveSnapshot`,
`PersistPruned`, `DropDocs`, and then `StartCatchUp` and `BuildUnits`, or
`ReloadUnits` with a `CatchUpJob` for the units that run and `NewUnit` for those
that do not; `DirectReload` is `commit_reload`. Between any two of them a unit
takes its `Idle` tick or leaves (`Exit`), a user writes a disk or edits the yaml,
the catch-up of a new unit raises, and the process ends (`Crash`); the next
`Start` begins from `snapshot` and `docs`. `clean` records that no reload was
raced by an edit or failed, since the code leaves such a state to the next
reload. `erased` has the items with a user's delete that no tick has
taken to every copy yet, which `HubContentKept` and `DeletesEnd` leave out.

### Shells

One item of one project. A shell is accepted (`Accept`, the validation of the
handler) and then takes the steps of `CreateSteps`, `RestoreSteps` or
`RemoveSteps` in order: the splice of the yaml, the unit's watch, the hub, the
other copies, the excludes, the rows, the snapshot, the documents, the answer.
Each is a step because users write disks and edit the yaml between them, shells
on other items or projects commit (`OtherItem`, `OtherProject`), the step raises
or the process ends. `SaveNamed` is the partial save of a commit. Whose documents
it rewrites and deletes is decided by a name: that of the item as the request
spells it (`Spellings`: as the mapping lists it, with `./` before it, or as a full
path), looked up in all projects, one of which may have an item of the same name
(`Namesakes`). A commit of such a namesake deletes the documents of this project's
directory. The full path of a directory leads to the user's own directory
(`CommitElsewhere`). `IdleTick` is the unit's tick between jobs; `Start` is an
ingest and a catch-up in one step, since `Reload` takes those apart. `spoiled`
records what went wrong, and the properties say which of it they leave out.

### DaemonProcess

Terminals run commands (`BeginStart`, `BeginStop`, `BeginCall`), each a process
of its own that reads and writes the pid, port and mapping-files files of a set
without a lock, one file access per step. `proc` is what the operating system
runs under each pid: a worker that starts, binds its port, loads the mapping
files, is ready, and ends at a signal or by a crash; a zombie, while the start
that spawned it is open; or another program, once the pid is reused. A worker
that ends by a crash leaves its files. The pointer list `~/.blf/config` may be
edited. `Overlapped`, `ListEdits` and `MaxLost` say whether two terminals start
or stop at the same time, whether the list changes under a running worker, and
whether a start gives up on a worker that lives on.

### Contribution, Mapping, MappingFile

`Contribution` has the pure functions: an item is a path, a mapping that has no
list declares every name found in the project, `PathsOverlap` compares
components, `Owners` is who covers a path at a target, `Resolved` the project a
shell takes.

`MappingFile` has the file as a sequence of lines, each with its kind, its
column, whether a dash opens a mapping on it, and what it names. `Reads` says
when such lines are mappings and `MappingsOf` which ones; `AddTo` and
`RemoveFrom` are the updater's splices: a parse for line numbers, then
insertions and deletions in the text. `projects` is what a reader gets from
`file`. Create, restore and remove are those of the shells, as far as mappings
go; a create writes once per mapping and may be cut short between two writes.
Each project has a file of its own and its key line is left out.

`Mapping` is the abstract specification: it knows mappings and no lines.
`Promise` is `INSTANCE Mapping` with the variables read from the lines, and
`KeepsPromise == Promise!Spec` is checked: `MappingFile` implements `Mapping`
for the block forms that `MCMappingFile` lists. A last line without newline is
`open`; an entry that is inserted after an open entry lands on its line, and yaml
reads both as one name (`Joined`). No run has a file that ends in an entry
without newline, as the promise does not hold for one. Quoted entries and
comments behind an entry are not in the model.

### Runs

| Run | Shows |
| --- | --- |
| `live_between` | users write between ticks, files, symlinks and directories: after a tick every copy agrees or is marked, rows of in-sync replicas are the hub's, a single writer isolates nobody, a fan-out replaces only what the hub had or a hold keeps; every tick ends, and after the last write every replica is equal for good or isolated |
| `live_racing` | users write between the steps of a tick: isolated copies are never written, the hub's bytes are accounted for, and past the window they do not go without a held copy |
| `units_serve` | requests and a reload sent before and after `ready`, with a cancel and a job, a handler or a catch-up that raises: until `ready` the accept thread is inside no request and nobody but a `status` is answered, an answer is final unless a check or a reload answered with an error, a check that answers ok saw every unit, only mapped projects have a unit, everybody is answered |
| `units_stop` | SIGTERM ends the process unless a job was left in the queue of a unit whose thread is over |
| `reload_ingest` | with reloads, starts, ticks, users and a crash between any two steps: apart from what an ingest retracts, a copy is deleted only where a watched root has lost one it is recorded to have or the hub has none, also of items that were deleted or unmapped before; units watch what the snapshot maps; stored rows of files are those in memory; an item for which nothing is pending and no replica isolated is everywhere or nowhere |
| `reload_hub` | violation: a retraction, seen by an idle tick that still watches the target, deletes the hub's copy |
| `reload_again` | violation: the documents of a directory item that was deleted everywhere stay, and when its managed copy is made again before the next start, that start deletes it |
| `shells_shells` | two shells, however they spell the item, a failing step or crash, restarts, users, an item of the same name in another project: no copy is lost that nobody deleted; excludes, rows and copies follow the mapping |
| `shells_last` | violation: the rows of a project's last file item outlive it, and an item that is listed again is deleted instead of installed |
| `process_serial` | starts and stops one at a time: one worker per set and per file, commands find it, start and stop say what is true |
| `mapping_lines` | splices leave lines that read as mappings, keep the promise of `Mapping`, and touch no other line |
| `mapping_flow` | violation: removing the last of two items of `subpath: [a, b]` turns the mapping into one of the whole project |

Bounds. `live_*` have one hub and two targets. In `live_between` a path may be two
files, a symlink, a directory or nothing; users write the hub and one target
twice, the other once. `live_racing` has no symlink and one write of the hub, as
its writes may fall between any two steps. `MaxEdits` bounds the writes per
root, and generations with them. Two targets are what it takes for two writers to
meet a bystander; two files tell "mine" from "theirs"; two writes of one root
are what a delete followed by a recreate needs. `Rank` puts the hub's path
between the targets', since the order of path strings decides who wins a tick.
`DELETE_WINDOW` is 1 or 0 instead of 3, so that two writes reach its far side;
the comparison is the code's.

`units_*` have two managed projects and the requests each question needs, one of
each kind: two units are what it takes for one to be done, dead, failed or stopped
while the other is not. One job raises, and any handler or catch-up may. In
`units_serve` a reload may find nothing mapped, the other project or both; in
`units_stop` units die in their ticks and the resolve UI submits a fact.

`reload_*` have project `p` with the directory `a` on two targets and the file
`k` on one, and project `q` with the file `b`; the yaml says that, or narrows
`a` and leaves `q` out, or maps nothing: a target, an item and a unit that go
and come back. One user write, two edits and one crash or failure are enough to
add what was removed, with a crash in between; reloads, starts and ticks are
unbounded. `reload_again` has two user writes, a delete and the managed copy
made again, and no edit. `shells_shells` has two targets, one of them not the
shell's own, a file or a directory in any spelling, with and without a namesake,
two shells, one write, one edit, one failure or crash during a shell; ticks,
other shells' commits, stops between shells and starts are unbounded. What
follows a restore or remove that left rows behind is not explored
(`NothingUndone`): no property but the types speaks of it, and `spoiled` only
grows. `shells_last` needs one shell, one write and one edit.

`process_serial` has one mapping file and so two sets, the singleton and the
global one, which share it; two terminals; three pids, symmetric like the
terminals: the old worker, the new one and another program; one crash, one
foreign pid, one edit of the list, any number of commands. `status` is not among
its calls: it writes nothing a reload does not.

`mapping_*` have three targets, the names `a` and `b`, and shells that ask for
`a` and `a/b`, an item and one nested in it. The layouts of `MCMappingFile` are
block forms that users write, not all that the parser accepts: a single mapping
with its keys in either order, a list of mappings, bare targets, empty lists,
comments within and between mappings, blank lines, a last line without newline
that is no entry, two selective mappings, and a second project that maps
everything. Shells are not bounded: no shell makes the file longer for ever.

`CHECK_DEADLOCK FALSE` is said where the system may stop. Users' writes, edits, shells and
faults are bounded in `Reload`, `Shells` and `DaemonProcess`, after which the
system may rest: a daemon that is off and a start that refuses
(`missing_hub_item_adds`) is such a state. In `live_racing` a unit's thread may
die of an exception, and in `units_stop` the process ends.

Fairness: `FairSpec` asks only that the daemon keeps going (`WF_vars(Daemon)`).
`WorkerUnit._run` takes an idle tick whenever its queue is empty for 15 s, and
nothing inside a tick waits. Users are never fair. `live_between` lets
users write between ticks only; it checks that the system settles once edits
stop, and `MaxEdits` makes them stop. In `WorkerUnits` each thread of the process
is weakly fair by itself (the operating system runs them all); shells, browsers
and signals are not.
`Reload`, `Shells`, `DaemonProcess` and `MappingFile` state no liveness: a start
or a shell waits for users and may be refused.

### What the code does otherwise

The four violations are findings: each quotes the text it contradicts. The
modules show more that the documents do not say, or say otherwise; no run is
spent on these.

- `LiveSync`: a kind change removes the hub's fresh file before the new node is
  known to win, and fans the removal out. A replica that nobody wrote may be
  isolated, and one that is isolated while its bytes equal the hub's stays so
  until its next change. A delete past the window unlinks a symlink unheld, and
  so does any delete in a batch of kind changes.
- `WorkerUnits`: `status` waits behind a create, as the accept thread is inside
  of it. A reload when no unit runs starts none. A resolve queued behind a
  unit's stop hangs the resolve UI. A check or a reload of which one job fails
  answers with an error while units after it still hold or run its jobs. After a
  reload whose catch-up failed, some projects have no unit, and the next reload
  finds nothing to do: only a restart brings them.
- `Reload`: a crash between `apply_removals` and the new snapshot leaves copies
  deleted under a mapping that still has them, and the next start takes that for
  users' deletes. What users write between a catch-up and the scan of
  `build_worker_units` becomes the last scan and is applied by no tick.
- `DaemonProcess`: two starts of a set at the same time leave two workers, of
  which the pid file names one; an edit of the list between the overlap question
  and the worker's reading lets two sets load a file. A start whose wait for the
  port ends too early clears the files of a worker that lives on.
- `Shells`: when a restore raises after it deleted the managed copy, the next
  tick takes that for a user's delete and removes the file it was to leave. After a
  restore or remove of an item that another project lists too, the files document
  of this project is not rewritten, and its targets keep rows of an item they
  declare no more; `GLOSSARY.md` says such a document has what a target declares.
  A create that names a directory by its full path deletes stale documents in the
  user's own directory: at its first file that raises, and the commit is a
  warning; a directory without files is removed.
- `MappingFile`: adding to a `subpath` that is a plain string raises, after
  earlier mappings were spliced; adding after an entry with further keys
  (`- path:` and a line below) splits it; adding after an entry on a last line
  without newline writes on that line, so that `- a` becomes `- a    - b` and
  neither item is listed; `- subpath: []` as the first key of a mapping loses its
  dash; comments between entries go with the entry before them; removing another
  than the last entry of a list in brackets deletes nothing and reports a change.
  If two mappings of a project name the same target, a create reaches the first
  only. A create compares the item with the mapping of its own target and adds it
  to all: an overlap in another mapping, or with another project at another
  target, is refused only at the next start or reload. The updater parses a file
  and reads it again as text, and readers take no lock.

### Proofs

`LiveSyncProofs` proves for every set of targets, contents, window and bound:

- `TypeCorrect` and `OosFlagCorrect` (the flag a restart reads from the rows is
  the isolation in memory) from one inductive invariant, `IInv`, the conjunction
  of the two: the types alone are enough, because each action that changes `oos`
  changes the row in the same step;
- `IsolatedUntouchedCorrect`, an action property, from `IInv`: the lemmas
  `ApplyDisk`, `HubSourceDisk` and `FanOutDisk` say which copies each step of the
  daemon may write;
- `HubBytesCorrect` and `FanOutBytesCorrect` from the same lemmas, under the
  assumption that there are no symlinks (`Links = {}`): `_hold_kind_change`
  ignores a symlink, and a symlink deleted past the window is unlinked without a hold.
  `DeleteHeldCorrect` is the same for the delete window, with users writing at any
  moment;
- what holds when users write between ticks only (`~Racing`, as the runs
  `live_between` has it): `NoDriftUnmarked`, `RowsAgree` and
  `OneWriterIsolatesNobody`. They rest on one invariant, `QInv`,
  which says for each phase of a tick what the copies, the rows and the last scan
  have to do with the hub's: between ticks the copy of a root that nobody wrote is
  its last scan, and its row the hub's; within one, the copies still to be written
  are those that are as before the change. Without the hypotheses the properties
  fail: a write during a tick is seen by the next tick only, and the findings show
  what a directory does.

`WorkerUnitsProofs` proves for every set of units and requests, every mapping,
any jobs that raise and every interleaving: `TypeCorrect`,
`NothingBeforeReadyCorrect` (with `Early`: what was asked before `ready` is not
answered) and `AnswerIsFinalCorrect`, which excepts a check or reload that
answered with an error. That an answered request has no job left anywhere is not
inductive: a step that answers looks only at the units it waits for. The
invariant says who owns a job: `JobInv` (a job in a queue or on a thread is
waited for by the request the accept thread is inside of, or by the one the HTTP
thread is blocked in; it is nowhere twice; once done it is in no queue),
`ConnectionInv` (a connection that waits has no job yet and is in one list only),
`ServingInv` and `HttpInv` (where the two threads are and what their requests
look like), and `ThreadInv`. `SubmittedJobs` and `TailIn` are the facts about the
queues. The assumptions are those of the module, `RequestsAssumption` and
`MappingsAssumption`; units may die and requests be cancelled at any time.
`CheckIsCompleteCorrect` adds that a check waits for every unit there is
(`UnitsKnown`), and `MappedAreObservedCorrect` what the units are during a
reload (`UnitsMapped`), for all mappings, empty ones included; it excepts what
follows a failed reload and a daemon without a unit, of which a reload makes none.
The liveness properties
are model-checked only; `EveryRequestAnswered` does not hold for every value
of the constants (see "What the code does otherwise").

`DaemonProcessProofs` proves for every number of mapping files, terminals, pids,
crashes and reused pids:

- `TypeCorrect`, without further assumptions. `TypeOK` is inductive together
  with `Shaped`, what the step a command is at says of it (`IInv`).
- `OneDaemonPerSetCorrect` and `StoppedMeansStoppedCorrect`, under `OneAtATime`:
  starts and stops do not overlap and none gives up on a worker that is alive. The
  invariant is `SInv`: `Serial` (one command writes at a time), `Named` (a worker is
  named by the pid file of its set, or by the start that spawned it a step ago),
  `Remembered` (a stop knows the pid it read) and `Children` (the worker of an open
  start). It is needed because the pid file alone says nothing between a spawn and
  the write of the file.
- `ServedCorrect`, if moreover the list is not edited (`~ListEdits`). `FInv` adds to
  `SInv` `Recorded` (what a worker loaded is what its set recorded), `Apart`
  (recorded files of running sets are disjoint), `Checked` and `Committed` (what a
  start has asked about and has yet to write). `GInv` adds what a command with `-c`
  finds in the pid files of singletons: `OwnLists` (a singleton records no file but
  its own), `Disowned` (once a global worker runs, or its start is past the overlap
  question, no singleton it lists has a pid file that names a worker of that
  singleton), `Unlisted` (nor is one about to be written), and `Blank` and
  `Childless` of free pids and new starts.

Without `OneAtATime` the properties fail, see above. `OneDaemonPerFile` and
`StartTellsTheTruth` stay with the run: nothing in the code makes commands wait
for each other or keeps the list as it is, and what can go wrong with the two
properties begins where these assumptions end.

`ItemSyncProofs` has what a tick and a catch-up do to any item, for any roots and
any order of them. `Apply` is a recursive function on the rounds of the apply
loop; that it is what its recursion says (`ChainExists`), and that what every
round keeps the whole loop keeps (`ApplyInduct`), is proved by induction on
naturals with the set of those rounds as the induction hypothesis (`Least`,
`NatInduct`). From it: `ApplyEmptiesBox` (no change stays in the mailbox), the
types of `Tick` and `CatchUpUpdate`, and the facts the next two modules turn on:

- `TickGrows`, `CatchUpGrows` and `CatchUpSpares`: on rows that are all of copies on
  disk, a tick or a catch-up takes nothing for a delete; and if the hub has the item,
  a catch-up without new targets ends with a copy at every target;
- `TickAccounts`, `CatchUpAccounts` and `CatchUpEvens`: a watched replica is `Even`
  with the hub (isolated, or with a row just if the hub has one), or it or the hub was
  last seen different from its row, so that a later tick has something to do
  (`Accounted`). A tick keeps account of every replica; a catch-up accounts for all
  targets, whatever was seen, and leaves them all even when it begins, as after a
  restart, with what the rows say. The step of the argument that is easy to miss is
  the last one of a catch-up, `_apply_frozen_mismatches` (`UnfreezeEvens`).

`ReloadProofs` proves for all projects, items, mappings, users, crashes and
failures:

- `TypeCorrect`, from `Types`: what is kept of an item is about its places, a unit
  has a job only while its thread lives, and what each step of an ingest finds;
- `UnitsWatchCorrect`, from `Steady`: what the units watch at each step of a start
  and a reload that nothing races, compared with the snapshot before and after;
- `DeletesWereSeenCorrect`, from `Types` and what `ItemSyncProofs` says of a tick and
  a catch-up: if no watched root has lost a copy it is recorded to have, and the hub
  has the item, neither deletes a copy. There is one lemma for each step that
  writes disks (`CatchUpsJustified`, `CatchUpJobJustified`, `IdleJustified`), and
  each says what the rows and scans of the step are: those of the unit's thread, or
  of the baseline that is loaded (`LoadLostSeen`). Nothing is assumed of what was
  deleted or unmapped before; what such a step leaves behind is a loss to the next
  only if a watched root shows one, and `reload_again` shows a row that
  does;
- `FileRowsCorrect`, from `Saved`, with `Steady`, `Rooted` (a unit's rows are about
  the roots it watches) and `Held` (a baseline is in memory while units run). All
  units save into one baseline in memory, which each of them replaces by its own,
  and a later catch-up or prune saves from it. `Saved` says why that does no harm:
  of each unit the reload in progress has nothing to do for (`Settled`), the
  document says what it remembers (`Written`), and so does what is in memory of
  its file items, or memory has nothing of the unit (`Loaded`); of a unit that is to
  be built, what is in memory is written (`ToBuild`). `QuietTick` is why a tick
  that saves nothing has changed no row. Only file items are in it: the document
  of a directory item depends on whether the hub has the directory at the time;
- `NoFrozenMismatchCorrect`, from `AccountedUnits` (every target a running unit
  watches is accounted for), `EvenToBuild` (in the baseline a unit is about to be
  built from, its targets are even) and `Keyed` (a root without a tree has no row
  and is isolated nowhere; in trees and documents whatever is isolated has a row).
  That rows and last scan of an item agree is not an invariant, a tick parts them;
  that one of a pair parts from its row whenever the two are not even is. `Keyed` is
  what makes a new target safe: the catch-up that seeds it finds no row and no
  isolation of an earlier time.

`ShellsProofs` proves for any targets, bounds and shells, and for an item of any kind,
`TypeCorrect` and `CopiesCorrect`; and for an item that is not the last file of its
project (`"last_file" \notin Kinds`) `CopiesKeptCorrect`, `ExcludesCorrect`,
`RowsCorrect` and `NewSubpathCorrect`, however shells spell the item and whatever
other projects list. The last shows that the property `shells_last` finds violated
holds of every other item. What the properties except is in their text: what
failed or was raced, and the rows that a restore or remove leaves when another
project lists the name, or a shell that named a directory by its full path. The
invariants are `Types`; `Remembered` and `Unraced`, what the unit and the mapping
hold at each step of a job; `Backed` and `HubRows`, that every row is of a copy on
disk at each step of a create, a restore and a remove; and `Quiet`, the table of
what mapping, snapshot, watch, excludes and documents are at each step when
nothing goes wrong. `CopiesCorrect` rests on `Level`: between shells every watched
target is accounted for in the sense of `ItemSyncProofs`, and a create goes on to
record every root (`Copying`), a restore or remove to watch nothing.

`MappingProofs` proves `RestoreUndoesCreate` of the operators of `Mapping`: for any
mappings with lists of any length, declaring an item that none of them lists and
withdrawing it again leaves every mapping as it was. What is appended is found in
the last place (`FoundLast`). That `MappingFile` implements `Mapping` is
model-checked: its splices fold over lines, which calls for induction over data.

Attempts at these proofs changed the model where it was wrong or said too much.
A unit's thread in `Reload` could end with a catch-up job still in its queue; the
queue is a FIFO and the job comes before the `None` of the stop, so `Exit` waits
for it. `ExcludesFollowMapping` and `CopiesKept` of `Shells` held in the runs
only because their bounds kept a deleted directory from being mapped again, or a
restore of one from being raced; the properties name these cases now. `Shells`
and `Reload` assume of `Order` what the code's sort by path gives
(`OrderAssumption`): every root is in it.

Model-checked only, and why:

- liveness;
- `MappingFile`'s `Readable` and `RestKept`, and that it implements `Mapping`
  (`KeepsPromise`): its splices fold over lines, and what a fold computes on every
  sequence of lines calls for induction over data;
- `OneDaemonPerFile` and `StartTellsTheTruth` of `DaemonProcess`, for the reason given
  above.

Every other property of the passing runs is stated by a theorem, some under hypotheses
the paragraphs above name.

## Plan

Done: the observer, the units, ingest with restart and store, the shells, the
process, mappings and ownership, the refinement of `Mapping`, and the proofs
above. Left, in this order:

1. An abstract specification of the observer (a register with isolated readers)
   refined by `LiveSync`.
2. `LiveTree`: a directory and the paths under it, with `_place_directory_node`
   and `_remove_directory_node`.
3. A snapshot or document that is cut off half way by a kill; targets that two
   managed projects share, in `Reload`.

## Not modelled

Wording, logs, tables, the shell screen, results, the HTML of the resolve UI and
its browser-side merge, command-line parsing, completion and upgrade have no
state these properties speak of. `link check` and notices only read. YAML is
modelled as far as lines, columns and dashes go. Relative paths and includes are
data conversion. The legacy `baseline.yml` and the legacy symlink projection are
read once, when an old installation is upgraded.
