------------------------------ MODULE LiveSync ------------------------------
(***************************************************************************)
(* daemon/live.py: the live observer of one managed project, for one       *)
(* declared path.  The managed project (the hub) and its targets (the      *)
(* replicas) each have a physical copy of the path.  A tick scans every    *)
(* root into a mailbox of path changes (observe), applies them one at a    *)
(* time at the hub with compare-and-swap (apply, _apply_one), and fans     *)
(* every applied change out to the replicas that are in sync.  A replica   *)
(* that loses is isolated: it is out-of-sync until its bytes match.        *)
(*                                                                         *)
(* Users write the copies at any moment, between the steps of a tick too   *)
(* when Racing is TRUE.  A step of the daemon is one scan of one root, one *)
(* write of the hub, or one replica of a fan-out; what happens inside such *)
(* a step is atomic here.  LiveSync keys all its state by path, so one     *)
(* path stands for every file, symlink or childless directory node.        *)
(***************************************************************************)
EXTENDS Integers, FiniteSets

CONSTANTS
  Hub,            \* the managed project's root
  Replicas,       \* the target projects' roots
  Rank,           \* position of each root in the order of their path strings
  Files,          \* file contents (one digest each)
  Links,          \* symlink nodes (one link text each)
  Dir,            \* a directory node
  Absent,         \* no node
  Writable,       \* the states users put a copy in
  DELETE_WINDOW,  \* generations a delete may be behind and still win unheld
  MaxEdits,       \* bound: user writes per root
  Racing          \* whether users also write while a tick runs

Roots   == {Hub} \cup Replicas
Content == Files \cup Links \cup {Dir}
State   == Content \cup {Absent}

ASSUME RootsAssumption ==
  /\ Hub \notin Replicas
  /\ IsFiniteSet(Replicas)
  /\ Rank \in [Roots -> Nat]
  /\ \A r, s \in Roots : Rank[r] = Rank[s] => r = s

ASSUME ContentAssumption ==
  /\ Files \cap Links = {}
  /\ Dir \notin Files \cup Links
  /\ Absent \notin Content
  /\ Writable \subseteq State

ASSUME BoundsAssumption ==
  /\ DELETE_WINDOW \in Nat
  /\ MaxEdits \in [Roots -> Nat]
  /\ Racing \in BOOLEAN

VARIABLES
  disk,        \* the node each root has at the path
  row,         \* _baseline: last recorded state, generation, out-of-sync flag
  lastSeen,    \* _last_seen: the state each root had at its last scan
  mailbox,     \* _mailbox: the path change pending on each root
  oos,         \* _oos: replicas isolated on the path
  held,        \* held copies in the attic, each with its hold reason
  kindChange,  \* whether the path is in _kind_change_rels for this apply
  pc,          \* where the unit's thread is
  todo,        \* roots the current loop has not visited
  job,         \* the change being fanned out
  edits        \* user writes so far, per root

vars == <<disk, row, lastSeen, mailbox, oos, held, kindChange, pc, todo, job, edits>>

Kinds    == {"create", "update", "delete", "symlink"}
Rows     == [state : State, gen : Nat, oos : BOOLEAN]
NoRow    == [state |-> Absent, gen |-> 0, oos |-> FALSE]
Changes  == [kind : Kinds \cup {"none"}, base : State, baseGen : Nat]
NoChange == [kind |-> "none", base |-> Absent, baseGen |-> 0]
Jobs     == [source : Roots, kind : Kinds \cup {"none"}, old : State, new : State, gen : Nat]
NoJob    == [source |-> Hub, kind |-> "none", old |-> Absent, new |-> Absent, gen |-> 0]
Held     == [content : Files \cup Links, reason : {"delete-gap", "kind-change"}]

TypeOK ==
  /\ disk \in [Roots -> State]
  /\ row \in [Roots -> Rows]
  /\ lastSeen \in [Roots -> State]
  /\ mailbox \in [Roots -> Changes]
  /\ oos \subseteq Replicas
  /\ held \subseteq Held
  /\ kindChange \in BOOLEAN
  /\ pc \in {"idle", "observe", "apply", "fanout", "dead"}
  /\ todo \subseteq Roots
  /\ job \in Jobs
  /\ edits \in [Roots -> Nat]

-----------------------------------------------------------------------------
\* Rows, changes and the order of the loops

\* A recorded row: an absent path has none, a directory node has no generation.
RowFor(s, g) ==
  IF s = Absent THEN NoRow
  ELSE [state |-> s, gen |-> IF s = Dir THEN 0 ELSE g, oos |-> FALSE]

\* The generation an applied change gives the path.
NewGen == row[Hub].gen + 1

\* Mutant: an isolated row steps its generation back.
IsolatedRowStepsBack(s, g) ==
  IF s = Absent THEN NoRow ELSE [RowFor(s, g - 1) EXCEPT !.oos = TRUE]

\* The row _mark_oos leaves: the bytes the replica has, at its old generation.
IsolatedRow(s, g) ==
  IF s = Absent THEN NoRow ELSE [RowFor(s, g) EXCEPT !.oos = TRUE]

Classify(old, new) ==
  CASE new \in Links                  -> "symlink"
    [] new \notin Links /\ new = Absent -> "delete"
    [] new \notin Links /\ new # Absent -> IF old = Absent THEN "create" ELSE "update"

Pending == {r \in Roots : mailbox[r].kind # "none"}

\* _apply_sort_key: deletes first, then the order of the root's path string.
Before(r, s) ==
  LET del(x) == mailbox[x].kind = "delete"
  IN  \/ del(r) /\ ~del(s)
      \/ (del(r) <=> del(s)) /\ Rank[r] <= Rank[s]

NextInLoop(r) == r \in todo /\ \A s \in todo : Rank[r] <= Rank[s]
NextPending(r) == r \in Pending /\ \A s \in Pending : Before(r, s)

\* Bytes that a hold moves away before the path changes between file and directory.
KindChangeHeld(s) ==
  IF kindChange /\ s \in Files THEN {[content |-> s, reason |-> "kind-change"]} ELSE {}

\* Mutant: the window is one generation too wide.
DeleteAllowedOffByOne(r) ==
  \/ disk[Hub] = mailbox[r].base
  \/ row[Hub].gen - mailbox[r].baseGen <= DELETE_WINDOW + 1

\* _delete_allowed
DeleteAllowed(r) ==
  \/ disk[Hub] = mailbox[r].base
  \/ row[Hub].gen - mailbox[r].baseGen <= DELETE_WINDOW

\* Mutant: a delete in a batch of kind changes is not held.
DeleteHeldNoKindChange(r) ==
  IF ~kindChange /\ disk[Hub] \in Files \cup Links /\ ~DeleteAllowed(r)
  THEN {[content |-> disk[Hub], reason |-> "delete-gap"]}
  ELSE {}

\* _hold_before_delete
DeleteHeld(r) ==
  IF kindChange THEN KindChangeHeld(disk[Hub])
  ELSE IF disk[Hub] \in Files \cup Links /\ ~DeleteAllowed(r)
       THEN {[content |-> disk[Hub], reason |-> "delete-gap"]}
       ELSE {}
-----------------------------------------------------------------------------
\* Users

UserWrite(r, s) ==
  /\ Racing \/ pc = "idle"
  /\ edits[r] < MaxEdits[r]
  /\ disk[r] # s
  /\ disk' = [disk EXCEPT ![r] = s]
  /\ edits' = [edits EXCEPT ![r] = @ + 1]
  /\ UNCHANGED <<row, lastSeen, mailbox, oos, held, kindChange, pc, todo, job>>

\* A confirmed fact submitted in the resolve UI: one job on the unit's thread.
\* write_bytes on a symlink at the hub goes through the link and leaves it.
Resolve(c) ==
  LET hubNow == IF disk[Hub] \in Links THEN disk[Hub] ELSE c
  IN
  /\ pc = "idle"
  /\ edits[Hub] < MaxEdits[Hub]
  /\ disk' = [r \in Roots |-> hubNow]
  /\ row' = [r \in Roots |-> RowFor(hubNow, NewGen)]
  /\ lastSeen' = [r \in Roots |-> hubNow]
  /\ oos' = {}
  /\ mailbox' = [r \in Roots |-> NoChange]
  /\ edits' = [edits EXCEPT ![Hub] = @ + 1]
  /\ UNCHANGED <<held, kindChange, pc, todo, job>>
-----------------------------------------------------------------------------
\* tick and observe

StartTick ==
  /\ pc = "idle"
  /\ pc' = "observe"
  /\ todo' = Roots
  /\ UNCHANGED <<disk, row, lastSeen, mailbox, oos, held, kindChange, job, edits>>

Observe(r) ==
  /\ pc = "observe"
  /\ NextInLoop(r)
  /\ todo' = todo \ {r}
  /\ lastSeen' = [lastSeen EXCEPT ![r] = disk[r]]
  /\ LET kind == Classify(lastSeen[r], disk[r])
     IN \/ \* nothing changed since the last scan
           /\ disk[r] = lastSeen[r]
           /\ UNCHANGED <<row, mailbox, oos>>
        \/ \* an isolated replica matches the hub again: _clear_oos
           /\ disk[r] # lastSeen[r]
           /\ r \in oos
           /\ disk[r] = disk[Hub]
           /\ oos' = oos \ {r}
           /\ row' = [row EXCEPT ![r] = RowFor(disk[r], row[Hub].gen)]
           /\ UNCHANGED mailbox
        \/ \* an isolated replica's create, update or symlink is discarded
           /\ disk[r] # lastSeen[r]
           /\ r \in oos
           /\ disk[r] # disk[Hub]
           /\ kind # "delete"
           /\ UNCHANGED <<row, mailbox, oos>>
        \/ \* a path change is queued
           /\ disk[r] # lastSeen[r]
           /\ r \notin oos \/ (disk[r] # disk[Hub] /\ kind = "delete")
           /\ mailbox' = [mailbox EXCEPT ![r] =
                [kind |-> kind, base |-> lastSeen[r], baseGen |-> row[r].gen]]
           /\ UNCHANGED <<row, oos>>
  /\ UNCHANGED <<disk, held, kindChange, pc, job, edits>>

\* apply begins: a file that is a directory by now makes this a kind change.
StartApply ==
  /\ pc = "observe"
  /\ todo = {}
  /\ pc' = "apply"
  /\ kindChange' = \E r \in Pending : /\ mailbox[r].kind = "update"
                                      /\ mailbox[r].base \in Files
                                      /\ disk[r] = Dir
  /\ UNCHANGED <<disk, row, lastSeen, mailbox, oos, held, todo, job, edits>>

TickDone ==
  /\ pc = "apply"
  /\ Pending = {}
  /\ pc' = "idle"
  /\ kindChange' = FALSE
  /\ UNCHANGED <<disk, row, lastSeen, mailbox, oos, held, todo, job, edits>>
-----------------------------------------------------------------------------
\* _apply_one

\* Mutant: the change is read and stays in the mailbox.
TakeKeeps(r) ==
  /\ pc = "apply"
  /\ NextPending(r)
  /\ UNCHANGED mailbox

\* The change leaves the mailbox.
Take(r) ==
  /\ pc = "apply"
  /\ NextPending(r)
  /\ mailbox' = [mailbox EXCEPT ![r] = NoChange]

\* The change is the hub's new generation: record both ends, then fan out.
Commit(r, hubNow, old) ==
  LET now  == [disk EXCEPT ![Hub] = hubNow]
      ends == {Hub, r}
  IN
  /\ disk' = now
  /\ row' = [s \in Roots |-> IF s \in ends THEN RowFor(now[s], NewGen) ELSE row[s]]
  /\ lastSeen' = [s \in Roots |-> IF s \in ends THEN now[s] ELSE lastSeen[s]]
  /\ oos' = oos \ {r}
  /\ job' = [source |-> r, kind |-> mailbox[r].kind, old |-> old, new |-> hubNow, gen |-> NewGen]
  /\ pc' = "fanout"
  /\ todo' = Replicas

\* The change has no effect on the hub: the next one is taken.
Keep == UNCHANGED <<disk, held, pc, todo, job>>

\* Mutants: the isolation is only in memory; nothing is isolated.
IsolateUnrecorded(r) ==
  /\ oos' = oos \cup {r}
  /\ UNCHANGED <<row, lastSeen>>

IsolateForgotten(r) == UNCHANGED <<oos, row, lastSeen>>

\* _mark_oos
Isolate(r) ==
  /\ oos' = oos \cup {r}
  /\ row' = [row EXCEPT ![r] = IsolatedRow(disk[r], row[r].gen)]
  /\ UNCHANGED lastSeen

\* _commit_hub_source: a direct edit of the hub is committed as it is now.
ApplyHubSource ==
  LET hold == KindChangeHeld(disk[Hub])
  IN
  /\ Take(Hub)
  /\ held' = held \cup hold
  /\ Commit(Hub, IF hold = {} THEN disk[Hub] ELSE Absent, row[Hub].state)
  /\ UNCHANGED <<kindChange, edits>>

\* _join_same_symlink: the hub already is the same link.
SameLink(r) ==
  /\ mailbox[r].kind = "symlink"
  /\ disk[Hub] \in Links
  /\ disk[r] = disk[Hub]

ApplyJoin(r) ==
  /\ Take(r)
  /\ SameLink(r)
  /\ row' = [s \in Roots |-> IF s \in {Hub, r} THEN RowFor(disk[Hub], row[Hub].gen) ELSE row[s]]
  /\ lastSeen' = [s \in Roots |-> IF s \in {Hub, r} THEN disk[Hub] ELSE lastSeen[s]]
  /\ oos' = oos \ {r}
  /\ Keep
  /\ UNCHANGED <<kindChange, edits>>

\* A delete wins: past the window the hub's bytes are held first.
ApplyDelete(r) ==
  /\ Take(r)
  /\ mailbox[r].kind = "delete"
  /\ held' = held \cup DeleteHeld(r)
  /\ Commit(r, Absent, disk[Hub])
  /\ UNCHANGED <<kindChange, edits>>

\* A create or update that lost compare-and-swap: stale-base.
ApplyStaleBase(r) ==
  /\ Take(r)
  /\ mailbox[r].kind # "delete"
  /\ ~SameLink(r)
  /\ r \notin oos
  /\ disk[Hub] # mailbox[r].base
  /\ Isolate(r)
  /\ Keep
  /\ UNCHANGED <<kindChange, edits>>

\* Nothing is applied: the replica is isolated, or its node is gone by now and
\* its delete is the next tick's change.  In the second case a kind-change hold
\* has already moved the hub's file away.
ApplyNothing(r) ==
  LET hold == IF r \in oos THEN {} ELSE KindChangeHeld(disk[Hub])
  IN
  /\ Take(r)
  /\ mailbox[r].kind # "delete"
  /\ ~SameLink(r)
  /\ r \in oos \/ (disk[Hub] = mailbox[r].base /\ disk[r] = Absent)
  /\ held' = held \cup hold
  /\ disk' = IF hold = {} THEN disk ELSE [disk EXCEPT ![Hub] = Absent]
  /\ UNCHANGED <<row, lastSeen, oos, pc, todo, job, kindChange, edits>>

\* A create or update that won: the hub takes the bytes the replica has now.
ApplyUpdate(r) ==
  /\ Take(r)
  /\ mailbox[r].kind # "delete"
  /\ ~SameLink(r)
  /\ r \notin oos
  /\ disk[Hub] = mailbox[r].base
  /\ disk[r] # Absent
  /\ held' = held \cup KindChangeHeld(disk[Hub])
  /\ Commit(r, disk[r], disk[Hub])
  /\ UNCHANGED <<kindChange, edits>>

ApplyReplica(r) ==
  \/ ApplyJoin(r)
  \/ ApplyDelete(r)
  \/ ApplyStaleBase(r)
  \/ ApplyNothing(r)
  \/ ApplyUpdate(r)
-----------------------------------------------------------------------------
\* _fan_out, one replica at a time, then _rejoin_equal_replicas

FanOutTo(r) ==
  /\ pc = "fanout"
  /\ NextInLoop(r)
  /\ todo' = todo \ {r}
  /\ UNCHANGED <<mailbox, kindChange, job, edits>>

\* Mutants: fan-out writes isolated replicas; a delete is not fanned out.
FanOutSkippedNotIsolated(r) == r = job.source \/ r \in Pending

FanOutSkippedDelete(r) ==
  r = job.source \/ r \in oos \/ r \in Pending \/ job.kind = "delete"

FanOutSkipped(r) == r = job.source \/ r \in oos \/ r \in Pending

\* The replica already shows the link the change made.
FanOutJoins(r) == job.kind = "symlink" /\ disk[r] = job.new

\* Mutant: the expected base is not compared.
FanOutExpectedAlways(r) == r \in Replicas

\* The replica has the expected base, or the change holds what is there.
FanOutExpected(r) == disk[r] = job.old \/ kindChange

\* Mutants: the written copy is observed as a change; it keeps its old generation.
RecordCopyUnseen(r, s) ==
  /\ disk' = [disk EXCEPT ![r] = s]
  /\ row' = [row EXCEPT ![r] = RowFor(s, job.gen)]
  /\ UNCHANGED lastSeen

RecordCopyOldGen(r, s) ==
  /\ disk' = [disk EXCEPT ![r] = s]
  /\ row' = [row EXCEPT ![r] = RowFor(s, row[r].gen)]
  /\ lastSeen' = [lastSeen EXCEPT ![r] = s]

RecordCopy(r, s) ==
  /\ disk' = [disk EXCEPT ![r] = s]
  /\ row' = [row EXCEPT ![r] = RowFor(s, job.gen)]
  /\ lastSeen' = [lastSeen EXCEPT ![r] = s]

FanOutSkip(r) ==
  /\ FanOutTo(r)
  /\ FanOutSkipped(r)
  /\ UNCHANGED <<disk, row, lastSeen, oos, held, pc>>

FanOutJoin(r) ==
  /\ FanOutTo(r)
  /\ ~FanOutSkipped(r)
  /\ FanOutJoins(r)
  /\ RecordCopy(r, disk[r])
  /\ UNCHANGED <<oos, held, pc>>

FanOutMismatch(r) ==
  /\ FanOutTo(r)
  /\ ~FanOutSkipped(r)
  /\ ~FanOutJoins(r)
  /\ ~FanOutExpected(r)
  /\ Isolate(r)
  /\ UNCHANGED <<disk, held, pc>>

\* Copy what the hub has now, or remove.  The hub may have lost the node since
\* it was applied: then mkdir makes a directory, and fails on a file or a link.  (No link of the
\* model leads to a directory.)
FanOutWrite(r) ==
  LET hold == KindChangeHeld(disk[r])
      left == IF hold = {} THEN disk[r] ELSE Absent
  IN
  /\ FanOutTo(r)
  /\ ~FanOutSkipped(r)
  /\ ~FanOutJoins(r)
  /\ FanOutExpected(r)
  /\ held' = held \cup hold
  /\ UNCHANGED oos
  /\ \/ /\ job.new = Absent
        /\ RecordCopy(r, Absent)
        /\ UNCHANGED pc
     \/ /\ job.new # Absent
        /\ disk[Hub] # Absent
        /\ RecordCopy(r, disk[Hub])
        /\ UNCHANGED pc
     \/ /\ job.new # Absent
        /\ disk[Hub] = Absent
        /\ left \in {Absent, Dir}
        /\ RecordCopy(r, Dir)
        /\ UNCHANGED pc
     \/ /\ job.new # Absent
        /\ disk[Hub] = Absent
        /\ left \notin {Absent, Dir}
        /\ pc' = "dead"
        /\ UNCHANGED <<disk, row, lastSeen>>

\* Every isolated replica that matches the new hub state rejoins.
Rejoin ==
  LET back == {r \in oos : disk[r] = job.new}
  IN
  /\ pc = "fanout"
  /\ todo = {}
  /\ oos' = oos \ back
  /\ row' = [r \in Roots |-> IF r \in back THEN RowFor(disk[r], row[Hub].gen) ELSE row[r]]
  /\ lastSeen' = [r \in Roots |-> IF r \in back THEN disk[r] ELSE lastSeen[r]]
  /\ job' = NoJob
  /\ pc' = "apply"
  /\ UNCHANGED <<disk, mailbox, held, kindChange, todo, edits>>

FanOut(r) == FanOutSkip(r) \/ FanOutJoin(r) \/ FanOutMismatch(r) \/ FanOutWrite(r)
-----------------------------------------------------------------------------
\* A start that has just finished a fresh catch-up: every copy is the hub's.
Init ==
  \E s \in Writable \cup {Absent} :
    /\ disk = [r \in Roots |-> s]
    /\ row = [r \in Roots |-> RowFor(s, 0)]
    /\ lastSeen = [r \in Roots |-> s]
    /\ mailbox = [r \in Roots |-> NoChange]
    /\ oos = {}
    /\ held = {}
    /\ kindChange = FALSE
    /\ pc = "idle"
    /\ todo = {}
    /\ job = NoJob
    /\ edits = [r \in Roots |-> 0]

User ==
  \/ \E r \in Roots, s \in Writable : UserWrite(r, s)
  \/ \E c \in Files : Resolve(c)

Daemon ==
  \/ StartTick
  \/ \E r \in Roots : Observe(r)
  \/ StartApply
  \/ TickDone
  \/ ApplyHubSource
  \/ \E r \in Replicas : ApplyReplica(r)
  \/ \E r \in Replicas : FanOut(r)
  \/ Rejoin

Next == User \/ Daemon

Spec == Init /\ [][Next]_vars
FairSpec == Spec /\ WF_vars(Daemon)
-----------------------------------------------------------------------------
\* Properties

InSync(r) == disk[r] = disk[Hub]
Settled == pc = "idle" /\ \A r \in Roots : lastSeen[r] = disk[r]
DaemonStep == edits' = edits

\* A step takes a file or a link away from root r and no held copy has its bytes.
Lost(r) ==
  /\ disk[r] \in Files \cup Links
  /\ disk'[r] # disk[r]
  /\ ~\E h \in held' : h.content = disk[r]

\* What a restart reads back (_oos_from_baseline reads the flag of the rows) is
\* what the thread isolates now: a row has the flag exactly when its replica is
\* isolated and the path is in the baseline at all.
OosFlagMatchesRow ==
  \A r \in Roots : row[r].oos <=> (r \in oos /\ row[r].state # Absent)

\* After a tick that saw the last write of every root, a replica shows the
\* hub's bytes or is isolated: no copy drifts off without a mark to show it.
NoSilentDivergence == Settled => \A r \in Replicas : r \in oos \/ InSync(r)

\* Between ticks an in-sync replica's row is the hub's row, generation included.
\* The compare-and-swap of a delete, the frozen mismatches of the next start
\* and the worker persist rely on the two rows naming one version.
InSyncRowsAgree == pc = "idle" => \A r \in Replicas \ oos : row[r] = row[Hub]

\* The daemon never writes a copy of an isolated replica, in any of the loops,
\* whatever happens to the path in the meantime: the loser's bytes stay.
IsolatedUntouched ==
  [][DaemonStep => \A r \in oos : disk'[r] = disk[r]]_vars

\* A fan-out replaces or removes bytes on a replica only when they are the bytes
\* the hub had before the change, or when a held copy has them.
FanOutKeepsBytes ==
  [][DaemonStep => \A r \in Replicas : Lost(r) => disk[r] = job.old]_vars

\* Bytes leave the hub unheld only because a replica's change was taken that was
\* made against those very bytes, or a delete within the generation window.
HubBytesAccounted ==
  [][DaemonStep /\ Lost(Hub) =>
       \E r \in Replicas :
         /\ mailbox[r].kind # "none"
         /\ mailbox'[r].kind = "none"
         /\ \/ disk[Hub] = mailbox[r].base
            \/ /\ mailbox[r].kind = "delete"
               /\ row[Hub].gen - mailbox[r].baseGen <= DELETE_WINDOW]_vars

\* One writer alone never isolates anyone: the daemon does not take its own
\* fan-out for a change, and does not lose a compare-and-swap against itself.
IsolationNeedsTwoWriters ==
  oos # {} => Cardinality({r \in Roots : edits[r] > 0}) >= 2

\* docs/adr/0008: a live file is never unlinked without a copy when the delete
\* is past the window.
DeletePastWindowHeld ==
  [][DaemonStep /\ Lost(Hub) =>
       \A r \in Replicas :
         /\ mailbox[r].kind = "delete"
         /\ mailbox'[r].kind = "none"
         /\ disk[Hub] # mailbox[r].base
         => row[Hub].gen - mailbox[r].baseGen <= DELETE_WINDOW]_vars

\* Every tick ends: the apply loop empties the mailbox it was given.
TickEnds == pc # "idle" ~> pc \in {"idle", "dead"}

\* Once users stop writing, every replica ends up with the hub's bytes for good,
\* or isolated.
Converges == <>[](\A r \in Replicas : r \in oos \/ InSync(r))
=============================================================================
