--------------------------- MODULE LiveSyncProofs ---------------------------
(***************************************************************************)
(* What LiveSync guarantees for every set of targets, every content and    *)
(* every interleaving of users with the unit's thread.                     *)
(*                                                                         *)
(* TypeOK and OosFlagMatchesRow are inductive together: IInv.  The action  *)
(* properties need only TypeOK, and that no symlink is written where a     *)
(* hold would have to keep it (a hold for a kind change moves files only). *)
(* What a tick leaves behind needs users who do not write while it runs:   *)
(* then QInv says, phase by phase, which roots agree with the hub, and     *)
(* SoloInv what a single writer finds.                                     *)
(***************************************************************************)
EXTENDS LiveSync, FiniteSetTheorems, TLAPS

USE RootsAssumption, ContentAssumption, BoundsAssumption

-----------------------------------------------------------------------------
\* Rows, changes and held copies stay in their sets.

LEMMA NoRowType == NoRow \in Rows /\ ~NoRow.oos
BY DEF NoRow, Rows, State, Content

\* A recorded row is well formed and never carries the out-of-sync flag.
LEMMA RowForType ==
  ASSUME NEW s \in State, NEW g \in Nat
  PROVE  /\ RowFor(s, g) \in Rows
         /\ RowFor(s, g).oos = FALSE
         /\ RowFor(s, g).state = s
BY DEF RowFor, NoRow, Rows, State, Content

\* An isolated row carries the flag unless the path is absent on the replica.
LEMMA IsolatedRowType ==
  ASSUME NEW s \in State, NEW g \in Nat
  PROVE  /\ IsolatedRow(s, g) \in Rows
         /\ IsolatedRow(s, g).state = s
         /\ IsolatedRow(s, g).oos <=> s # Absent
BY RowForType DEF IsolatedRow, RowFor, NoRow, Rows, State, Content

LEMMA ClassifyType ==
  ASSUME NEW s \in State, NEW t \in State
  PROVE  Classify(s, t) \in Kinds
BY DEF Classify, Kinds

LEMMA NewGenType == TypeOK => NewGen \in Nat
BY DEF TypeOK, NewGen, Rows, Roots

LEMMA HeldType ==
  ASSUME NEW s \in State
  PROVE  KindChangeHeld(s) \subseteq Held
BY DEF KindChangeHeld, Held

LEMMA DeleteHeldType ==
  ASSUME TypeOK, NEW r \in Replicas
  PROVE  DeleteHeld(r) \subseteq Held
BY HeldType DEF DeleteHeld, KindChangeHeld, Held, TypeOK, Roots
-----------------------------------------------------------------------------
\* The inductive invariant: memory, rows and mailbox are well formed, and the
\* flag a restart reads agrees with the isolation in memory.
IInv == TypeOK /\ OosFlagMatchesRow

LEMMA InitInv == Init => IInv
<1> SUFFICES ASSUME Init PROVE IInv
  OBVIOUS
<1>1. PICK s \in State :
        /\ disk = [r \in Roots |-> s]
        /\ row = [r \in Roots |-> RowFor(s, 0)]
        /\ lastSeen = [r \in Roots |-> s]
        /\ mailbox = [r \in Roots |-> NoChange]
        /\ oos = {} /\ held = {} /\ kindChange = FALSE
        /\ pc = "idle" /\ todo = {} /\ job = NoJob
        /\ edits = [r \in Roots |-> 0]
  BY DEF Init, State
<1>2. TypeOK
  <2>1. NoChange \in Changes /\ NoJob \in Jobs
    BY DEF NoChange, NoJob, Changes, Jobs, State, Roots
  <2>2. RowFor(s, 0) \in Rows
    BY RowForType
  <2> QED  BY <1>1, <2>1, <2>2 DEF TypeOK
<1>3. OosFlagMatchesRow
  BY <1>1, RowForType DEF OosFlagMatchesRow
<1> QED  BY <1>2, <1>3 DEF IInv

\* What every root looks like after a change is committed at the hub.
LEMMA CommitInv ==
  ASSUME IInv, NEW r \in Roots, NEW hubNow \in State, NEW old \in State,
         mailbox' = [mailbox EXCEPT ![r] = NoChange],
         Commit(r, hubNow, old)
  PROVE  /\ disk' \in [Roots -> State]
         /\ row' \in [Roots -> Rows]
         /\ lastSeen' \in [Roots -> State]
         /\ oos' \subseteq Replicas
         /\ job' \in Jobs
         /\ pc' = "fanout" /\ todo' = Replicas
         /\ OosFlagMatchesRow'
<1>1. NewGen \in Nat
  BY NewGenType DEF IInv
<1>2. disk' \in [Roots -> State] /\ lastSeen' \in [Roots -> State]
  BY DEF Commit, IInv, TypeOK
<1>3. \A s \in Roots : row'[s] = IF s \in {Hub, r} THEN RowFor(disk'[s], NewGen) ELSE row[s]
  BY DEF Commit
<1>4. \A s \in Roots : RowFor(disk'[s], NewGen) \in Rows /\ RowFor(disk'[s], NewGen).oos = FALSE
  BY <1>1, <1>2, RowForType
<1>5. row' \in [Roots -> Rows]
  BY <1>3, <1>4 DEF Commit, IInv, TypeOK
<1>6. job' \in Jobs
  BY <1>1 DEF Commit, Jobs, IInv, TypeOK, Changes
<1>7. OosFlagMatchesRow'
  BY <1>3, <1>4 DEF Commit, OosFlagMatchesRow, IInv, TypeOK, Roots
<1> QED  BY <1>2, <1>5, <1>6, <1>7 DEF Commit, IInv, TypeOK

\* What an isolation leaves.
LEMMA IsolateInv ==
  ASSUME IInv, NEW r \in Replicas, Isolate(r), UNCHANGED disk
  PROVE  /\ row' \in [Roots -> Rows]
         /\ oos' \subseteq Replicas
         /\ OosFlagMatchesRow'
<1>1. r \in Roots /\ disk[r] \in State /\ row[r].gen \in Nat
  BY DEF IInv, TypeOK, Rows, Roots
<1>2. /\ IsolatedRow(disk[r], row[r].gen) \in Rows
      /\ IsolatedRow(disk[r], row[r].gen).oos <=> IsolatedRow(disk[r], row[r].gen).state # Absent
  BY <1>1, IsolatedRowType
<1> QED  BY <1>1, <1>2 DEF Isolate, OosFlagMatchesRow, IInv, TypeOK

\* What a copy recorded by fan-out leaves.
LEMMA RecordCopyInv ==
  ASSUME IInv, NEW r \in Replicas, NEW s \in State, r \notin oos,
         RecordCopy(r, s), UNCHANGED oos
  PROVE  /\ disk' \in [Roots -> State]
         /\ row' \in [Roots -> Rows]
         /\ lastSeen' \in [Roots -> State]
         /\ OosFlagMatchesRow'
<1>1. job.gen \in Nat /\ r \in Roots
  BY DEF IInv, TypeOK, Jobs, Roots
<1>2. RowFor(s, job.gen) \in Rows /\ RowFor(s, job.gen).oos = FALSE
  BY <1>1, RowForType
<1> QED  BY <1>1, <1>2 DEF RecordCopy, OosFlagMatchesRow, IInv, TypeOK
-----------------------------------------------------------------------------
\* Each action preserves the invariant.

LEMMA UserInv == ASSUME IInv, User PROVE IInv'
<1>1. ASSUME NEW r \in Roots, NEW s \in Writable, UserWrite(r, s) PROVE IInv'
  BY <1>1 DEF UserWrite, IInv, TypeOK, OosFlagMatchesRow, State
<1>2. ASSUME NEW c \in Files, Resolve(c) PROVE IInv'
  <2> DEFINE hubNow == IF disk[Hub] \in Links THEN disk[Hub] ELSE c
  <2>1. hubNow \in State
    BY DEF State, Content
  <2>2. RowFor(hubNow, NewGen) \in Rows /\ RowFor(hubNow, NewGen).oos = FALSE
    BY <2>1, NewGenType, RowForType DEF IInv
  <2>3. /\ disk' = [r \in Roots |-> hubNow]
        /\ row' = [r \in Roots |-> RowFor(hubNow, NewGen)]
        /\ lastSeen' = [r \in Roots |-> hubNow]
        /\ oos' = {}
        /\ mailbox' = [r \in Roots |-> NoChange]
        /\ edits' = [edits EXCEPT ![Hub] = @ + 1]
        /\ UNCHANGED <<held, kindChange, pc, todo, job>>
    BY <1>2 DEF Resolve
  <2> HIDE DEF hubNow
  <2>4. NoChange \in Changes
    BY DEF NoChange, Changes, State
  <2>5. TypeOK'
    BY <2>1, <2>2, <2>3, <2>4 DEF IInv, TypeOK, Roots
  <2>6. OosFlagMatchesRow'
    BY <2>2, <2>3 DEF OosFlagMatchesRow
  <2> QED  BY <2>5, <2>6 DEF IInv
<1> QED  BY <1>1, <1>2 DEF User

LEMMA ObserveInv == ASSUME IInv, NEW r \in Roots, Observe(r) PROVE IInv'
<1> DEFINE kind == Classify(lastSeen[r], disk[r])
           change == [kind |-> kind, base |-> lastSeen[r], baseGen |-> row[r].gen]
<1>1. disk[r] \in State /\ lastSeen[r] \in State /\ row[r] \in Rows /\ row[Hub] \in Rows
  BY DEF IInv, TypeOK, Roots
<1>2. change \in Changes
  BY <1>1, ClassifyType DEF Changes, Rows
<1>3. RowFor(disk[r], row[Hub].gen) \in Rows /\ RowFor(disk[r], row[Hub].gen).oos = FALSE
  BY <1>1, RowForType DEF Rows
<1>4. CASE UNCHANGED <<row, mailbox, oos>>
  BY <1>1, <1>4 DEF Observe, IInv, TypeOK, OosFlagMatchesRow
<1>5. CASE /\ oos' = oos \ {r}
           /\ row' = [row EXCEPT ![r] = RowFor(disk[r], row[Hub].gen)]
           /\ UNCHANGED mailbox
  BY <1>1, <1>3, <1>5 DEF Observe, IInv, TypeOK, OosFlagMatchesRow
<1>6. CASE mailbox' = [mailbox EXCEPT ![r] = change] /\ UNCHANGED <<row, oos>>
  BY <1>1, <1>2, <1>6 DEF Observe, IInv, TypeOK, OosFlagMatchesRow
<1> QED  BY <1>4, <1>5, <1>6 DEF Observe

LEMMA TakeType ==
  ASSUME IInv, NEW r \in Roots, Take(r)
  PROVE  mailbox' \in [Roots -> Changes] /\ mailbox' = [mailbox EXCEPT ![r] = NoChange]
BY DEF Take, IInv, TypeOK, NoChange, Changes, State

LEMMA HubSourceInv == ASSUME IInv, ApplyHubSource PROVE IInv'
<1> DEFINE hold == KindChangeHeld(disk[Hub])
           hubNow == IF hold = {} THEN disk[Hub] ELSE Absent
<1>1. Hub \in Roots /\ hubNow \in State /\ row[Hub].state \in State /\ hold \subseteq Held
  BY HeldType DEF IInv, TypeOK, Rows, Roots, State
<1>2. Take(Hub) /\ Commit(Hub, hubNow, row[Hub].state) /\ held' = held \cup hold
      /\ UNCHANGED <<kindChange, edits>>
  BY DEF ApplyHubSource
<1> HIDE DEF hold, hubNow
<1> QED  BY <1>1, <1>2, CommitInv, TakeType DEF IInv, TypeOK, Roots

LEMMA JoinInv == ASSUME IInv, NEW r \in Replicas, ApplyJoin(r) PROVE IInv'
<1>1. r \in Roots /\ Hub \in Roots /\ disk[Hub] \in State /\ row[Hub].gen \in Nat
  BY DEF IInv, TypeOK, Roots, Rows
<1>2. RowFor(disk[Hub], row[Hub].gen) \in Rows /\ RowFor(disk[Hub], row[Hub].gen).oos = FALSE
  BY <1>1, RowForType
<1>3. /\ row' \in [Roots -> Rows]
      /\ lastSeen' \in [Roots -> State]
  BY <1>1, <1>2 DEF ApplyJoin, IInv, TypeOK
<1>4. OosFlagMatchesRow'
  BY <1>1, <1>2 DEF ApplyJoin, IInv, TypeOK, OosFlagMatchesRow
<1> QED  BY <1>1, <1>3, <1>4, TakeType DEF ApplyJoin, Keep, IInv, TypeOK

LEMMA DeleteInv == ASSUME IInv, NEW r \in Replicas, ApplyDelete(r) PROVE IInv'
<1>1. r \in Roots /\ disk[Hub] \in State /\ Absent \in State
  BY DEF IInv, TypeOK, Roots, State
<1>2. DeleteHeld(r) \subseteq Held
  BY DeleteHeldType DEF IInv
<1> QED  BY <1>1, <1>2, CommitInv, TakeType DEF ApplyDelete, IInv, TypeOK, Roots

LEMMA StaleBaseInv == ASSUME IInv, NEW r \in Replicas, ApplyStaleBase(r) PROVE IInv'
<1>1. r \in Roots /\ Take(r) /\ Isolate(r) /\ Keep /\ UNCHANGED <<kindChange, edits>>
  BY DEF ApplyStaleBase, Roots
<1> QED  BY <1>1, IsolateInv, TakeType DEF Keep, Isolate, IInv, TypeOK

LEMMA NothingInv == ASSUME IInv, NEW r \in Replicas, ApplyNothing(r) PROVE IInv'
<1> DEFINE hold == IF r \in oos THEN {} ELSE KindChangeHeld(disk[Hub])
<1>1. r \in Roots /\ Hub \in Roots /\ Absent \in State /\ hold \subseteq Held
  BY HeldType DEF IInv, TypeOK, Roots, State
<1>2. /\ Take(r)
      /\ held' = held \cup hold
      /\ disk' = IF hold = {} THEN disk ELSE [disk EXCEPT ![Hub] = Absent]
      /\ UNCHANGED <<row, lastSeen, oos, pc, todo, job, kindChange, edits>>
  BY DEF ApplyNothing
<1> HIDE DEF hold
<1> QED  BY <1>1, <1>2, TakeType DEF IInv, TypeOK, OosFlagMatchesRow

LEMMA UpdateInv == ASSUME IInv, NEW r \in Replicas, ApplyUpdate(r) PROVE IInv'
<1>1. r \in Roots /\ disk[Hub] \in State /\ disk[r] \in State
  BY DEF IInv, TypeOK, Roots
<1>2. KindChangeHeld(disk[Hub]) \subseteq Held
  BY <1>1, HeldType
<1> QED  BY <1>1, <1>2, CommitInv, TakeType DEF ApplyUpdate, IInv, TypeOK, Roots

LEMMA FanOutInv == ASSUME IInv, NEW r \in Replicas, FanOut(r) PROVE IInv'
<1>1. /\ r \in Roots /\ disk[r] \in State /\ disk[Hub] \in State
      /\ Absent \in State /\ Dir \in State
      /\ todo' \subseteq Roots
      /\ UNCHANGED <<mailbox, kindChange, job, edits>>
  BY DEF FanOut, FanOutSkip, FanOutJoin, FanOutMismatch, FanOutWrite, FanOutTo,
         IInv, TypeOK, Roots, State, Content
<1>2. CASE FanOutSkip(r)
  BY <1>1, <1>2 DEF FanOutSkip, IInv, TypeOK, OosFlagMatchesRow
<1>3. CASE FanOutJoin(r)
  BY <1>1, <1>3, RecordCopyInv DEF FanOutJoin, FanOutSkipped, IInv, TypeOK
<1>4. CASE FanOutMismatch(r)
  BY <1>1, <1>4, IsolateInv DEF FanOutMismatch, Isolate, IInv, TypeOK
<1>5. CASE FanOutWrite(r)
  <2>1. KindChangeHeld(disk[r]) \subseteq Held
    BY <1>1, HeldType
  <2>2. held' \subseteq Held /\ UNCHANGED oos /\ r \notin oos
    BY <1>5, <2>1 DEF FanOutWrite, FanOutSkipped, IInv, TypeOK
  <2>3. CASE \E s \in State : RecordCopy(r, s) /\ UNCHANGED pc
    BY <1>1, <2>2, <2>3, RecordCopyInv DEF IInv, TypeOK
  <2>4. CASE pc' = "dead" /\ UNCHANGED <<disk, row, lastSeen>>
    BY <1>1, <2>2, <2>4 DEF IInv, TypeOK, OosFlagMatchesRow
  <2> QED  BY <1>1, <1>5, <2>3, <2>4 DEF FanOutWrite
<1> QED  BY <1>2, <1>3, <1>4, <1>5 DEF FanOut

LEMMA RejoinInv == ASSUME IInv, Rejoin PROVE IInv'
<1>1. row[Hub].gen \in Nat /\ NoJob \in Jobs
  BY DEF IInv, TypeOK, Rows, Roots, NoJob, Jobs, State
<1>2. ASSUME NEW r \in Roots
      PROVE  /\ RowFor(disk[r], row[Hub].gen) \in Rows
             /\ RowFor(disk[r], row[Hub].gen).oos = FALSE
  <2>1. disk[r] \in State
    BY DEF IInv, TypeOK
  <2> QED  BY <1>1, <2>1, RowForType
<1>3. TypeOK'
  BY <1>1, <1>2 DEF Rejoin, IInv, TypeOK
<1>4. OosFlagMatchesRow'
  BY <1>2 DEF Rejoin, IInv, TypeOK, OosFlagMatchesRow
<1> QED  BY <1>3, <1>4 DEF IInv

LEMMA NextInv == IInv /\ [Next]_vars => IInv'
<1> SUFFICES ASSUME IInv, [Next]_vars PROVE IInv'
  OBVIOUS
<1>1. CASE User
  BY <1>1, UserInv
<1>2. CASE StartTick
  BY <1>2 DEF StartTick, IInv, TypeOK, OosFlagMatchesRow
<1>3. ASSUME NEW r \in Roots, Observe(r) PROVE IInv'
  BY <1>3, ObserveInv
<1>4. CASE StartApply
  BY <1>4 DEF StartApply, IInv, TypeOK, OosFlagMatchesRow
<1>5. CASE TickDone
  BY <1>5 DEF TickDone, IInv, TypeOK, OosFlagMatchesRow
<1>6. CASE ApplyHubSource
  BY <1>6, HubSourceInv
<1>7. ASSUME NEW r \in Replicas, ApplyReplica(r) PROVE IInv'
  BY <1>7, JoinInv, DeleteInv, StaleBaseInv, NothingInv, UpdateInv DEF ApplyReplica
<1>8. ASSUME NEW r \in Replicas, FanOut(r) PROVE IInv'
  BY <1>8, FanOutInv
<1>9. CASE Rejoin
  BY <1>9, RejoinInv
<1>10. CASE UNCHANGED vars
  BY <1>10 DEF vars, IInv, TypeOK, OosFlagMatchesRow
<1> QED  BY <1>1, <1>2, <1>3, <1>4, <1>5, <1>6, <1>7, <1>8, <1>9, <1>10 DEF Next, Daemon

LEMMA SpecIInv == Spec => []IInv
BY InitInv, NextInv, PTL DEF Spec

\* Every state of the observer is well formed.
THEOREM TypeCorrect == Spec => []TypeOK
BY SpecIInv, PTL DEF IInv

\* Restarting reads back exactly the isolation the thread had, but for paths
\* that are absent on the isolated replica.
THEOREM OosFlagCorrect == Spec => []OosFlagMatchesRow
BY SpecIInv, PTL DEF IInv
-----------------------------------------------------------------------------
\* What a step of the daemon may do to the copies.

\* A user's write and a resolve count an edit: they are not daemon steps.
LEMMA UserIsNoDaemonStep == ASSUME TypeOK, User PROVE ~DaemonStep
<1>1. ASSUME NEW r \in Roots, edits' = [edits EXCEPT ![r] = @ + 1] PROVE edits' # edits
  BY <1>1 DEF TypeOK
<1> QED  BY <1>1 DEF User, UserWrite, Resolve, DaemonStep, Roots

\* The apply loop writes no replica, and takes bytes from the hub only into a
\* held copy, or in a delete, or in an update made against them.
LEMMA ApplyDisk ==
  ASSUME TypeOK, NEW r \in Replicas, ApplyReplica(r)
  PROVE  /\ \A s \in Replicas : disk'[s] = disk[s]
         /\ Links = {} /\ Lost(Hub) =>
              /\ mailbox[r].kind # "none" /\ mailbox'[r].kind = "none"
              /\ \/ disk[Hub] = mailbox[r].base
                 \/ /\ mailbox[r].kind = "delete"
                    /\ row[Hub].gen - mailbox[r].baseGen <= DELETE_WINDOW
<1>1. ASSUME Take(r) PROVE mailbox[r].kind # "none" /\ mailbox'[r].kind = "none"
  BY <1>1 DEF Take, NextPending, Pending, NoChange, TypeOK, Roots
<1>2. CASE ApplyJoin(r) \/ ApplyStaleBase(r)
  BY <1>2 DEF ApplyJoin, ApplyStaleBase, Keep, Lost
<1>3. CASE ApplyDelete(r)
  <2>1. disk' = [disk EXCEPT ![Hub] = Absent] /\ held' = held \cup DeleteHeld(r)
        /\ Take(r) /\ mailbox[r].kind = "delete"
    BY <1>3 DEF ApplyDelete, Commit
  <2>2. ASSUME Links = {}, Lost(Hub) PROVE DeleteAllowed(r)
    <3>1. disk[Hub] \in Files /\ ~\E h \in held' : h.content = disk[Hub]
      BY <2>2 DEF Lost
    <3>2. [content |-> disk[Hub], reason |-> "kind-change"] \notin held'
          /\ [content |-> disk[Hub], reason |-> "delete-gap"] \notin held'
      BY <3>1
    <3> QED  BY <2>1, <3>1, <3>2 DEF DeleteHeld, KindChangeHeld
  <2> QED  BY <1>1, <2>1, <2>2 DEF DeleteAllowed, TypeOK, Roots
<1>4. CASE ApplyNothing(r)
  <2>1. /\ disk' = disk \/ disk' = [disk EXCEPT ![Hub] = Absent]
        /\ disk' = disk \/ KindChangeHeld(disk[Hub]) \subseteq held'
        /\ disk' = disk \/ KindChangeHeld(disk[Hub]) # {}
    BY <1>4 DEF ApplyNothing
  <2>2. ASSUME disk' # disk PROVE ~Lost(Hub)
    <3>1. [content |-> disk[Hub], reason |-> "kind-change"] \in held'
      BY <2>1, <2>2 DEF KindChangeHeld
    <3>2. \E h \in held' : h.content = disk[Hub]
      BY <3>1
    <3> QED  BY <3>2 DEF Lost
  <2>3. disk' = disk => ~Lost(Hub)
    BY DEF Lost
  <2> QED  BY <2>1, <2>2, <2>3 DEF TypeOK, Roots
<1>5. CASE ApplyUpdate(r)
  <2>1. disk' = [disk EXCEPT ![Hub] = disk[r]] /\ Take(r) /\ disk[Hub] = mailbox[r].base
    BY <1>5 DEF ApplyUpdate, Commit
  <2> QED  BY <1>1, <2>1 DEF TypeOK, Roots
<1> QED  BY <1>2, <1>3, <1>4, <1>5 DEF ApplyReplica

\* A direct edit of the hub changes the hub only by moving its file to a hold.
LEMMA HubSourceDisk ==
  ASSUME TypeOK, ApplyHubSource
  PROVE  (\A s \in Replicas : disk'[s] = disk[s]) /\ ~Lost(Hub)
<1>1. /\ disk' = [disk EXCEPT ![Hub] =
                   IF KindChangeHeld(disk[Hub]) = {} THEN disk[Hub] ELSE Absent]
      /\ KindChangeHeld(disk[Hub]) \subseteq held'
  BY DEF ApplyHubSource, Commit
<1>2. \A s \in Replicas : disk'[s] = disk[s]
  BY <1>1 DEF TypeOK, Roots
<1>3. CASE KindChangeHeld(disk[Hub]) = {}
  BY <1>1, <1>2, <1>3 DEF Lost, TypeOK, Roots
<1>4. CASE KindChangeHeld(disk[Hub]) # {}
  <2>1. [content |-> disk[Hub], reason |-> "kind-change"] \in held'
    BY <1>1, <1>4 DEF KindChangeHeld
  <2>2. \E h \in held' : h.content = disk[Hub]
    BY <2>1
  <2> QED  BY <1>2, <2>2 DEF Lost
<1> QED  BY <1>3, <1>4

\* Fan-out writes one replica that is in sync, and only over the bytes it
\* expects or over bytes a hold keeps.
LEMMA FanOutDisk ==
  ASSUME TypeOK, NEW r \in Replicas, FanOut(r)
  PROVE  /\ \A s \in Roots : s # r => disk'[s] = disk[s]
         /\ r \in oos => disk'[r] = disk[r]
         /\ Links = {} /\ Lost(r) => disk[r] = job.old
<1>1. CASE FanOutSkip(r) \/ FanOutMismatch(r)
  BY <1>1 DEF FanOutSkip, FanOutMismatch, Lost
<1>2. CASE FanOutJoin(r)
  BY <1>2 DEF FanOutJoin, RecordCopy, Lost, TypeOK, Roots
<1>3. CASE FanOutWrite(r)
  <2>1. r \notin oos /\ FanOutExpected(r) /\ held' = held \cup KindChangeHeld(disk[r])
    BY <1>3 DEF FanOutWrite, FanOutSkipped
  <2>2. disk' = disk \/ \E t \in State : disk' = [disk EXCEPT ![r] = t]
    BY <1>3 DEF FanOutWrite, RecordCopy, TypeOK, Roots, State, Content
  <2>3. ASSUME Links = {}, Lost(r) PROVE disk[r] = job.old
    <3>1. disk[r] \in Files /\ ~\E h \in held' : h.content = disk[r]
      BY <2>3 DEF Lost
    <3>2. [content |-> disk[r], reason |-> "kind-change"] \notin held'
      BY <3>1
    <3> QED  BY <2>1, <3>1, <3>2 DEF KindChangeHeld, FanOutExpected
  <2> QED  BY <2>1, <2>2, <2>3 DEF TypeOK, Roots
<1> QED  BY <1>1, <1>2, <1>3 DEF FanOut

\* The other steps write no copy.
LEMMA QuietDisk ==
  ASSUME StartTick \/ (\E r \in Roots : Observe(r)) \/ StartApply \/ TickDone \/ Rejoin
         \/ UNCHANGED vars
  PROVE  disk' = disk
BY DEF StartTick, Observe, StartApply, TickDone, Rejoin, vars

\* An isolated replica's bytes are the user's: no step of the daemon writes them.
THEOREM IsolatedUntouchedCorrect == Spec => IsolatedUntouched
<1>1. TypeOK /\ [Next]_vars => [DaemonStep => \A r \in oos : disk'[r] = disk[r]]_vars
  <2> SUFFICES ASSUME TypeOK, Next, DaemonStep, NEW s \in oos PROVE disk'[s] = disk[s]
    BY DEF vars
  <2>1. s \in Replicas /\ s \in Roots
    BY DEF TypeOK, Roots
  <2>2. ~User
    BY UserIsNoDaemonStep
  <2>3. CASE ApplyHubSource
    BY <2>1, <2>3, HubSourceDisk
  <2>4. ASSUME NEW r \in Replicas, ApplyReplica(r) PROVE disk'[s] = disk[s]
    BY <2>1, <2>4, ApplyDisk
  <2>5. ASSUME NEW r \in Replicas, FanOut(r) PROVE disk'[s] = disk[s]
    BY <2>1, <2>5, FanOutDisk
  <2> QED  BY <2>2, <2>3, <2>4, <2>5, QuietDisk DEF Next, Daemon
<1> QED  BY <1>1, TypeCorrect, PTL DEF Spec, IsolatedUntouched

\* Where no symlink is involved, the hub's bytes are held, or replaced by a change
\* made against them, or by a delete within the window.
THEOREM HubBytesCorrect == ASSUME Links = {} PROVE Spec => HubBytesAccounted
<1>1. TypeOK /\ [Next]_vars => [DaemonStep /\ Lost(Hub) =>
               \E r \in Replicas :
                 /\ mailbox[r].kind # "none"
                 /\ mailbox'[r].kind = "none"
                 /\ \/ disk[Hub] = mailbox[r].base
                    \/ /\ mailbox[r].kind = "delete"
                       /\ row[Hub].gen - mailbox[r].baseGen <= DELETE_WINDOW]_vars
  <2> DEFINE Taken(r) ==
        /\ mailbox[r].kind # "none"
        /\ mailbox'[r].kind = "none"
        /\ \/ disk[Hub] = mailbox[r].base
           \/ /\ mailbox[r].kind = "delete"
              /\ row[Hub].gen - mailbox[r].baseGen <= DELETE_WINDOW
  <2> SUFFICES ASSUME TypeOK, Next, DaemonStep, Lost(Hub) PROVE \E r \in Replicas : Taken(r)
    BY DEF vars
  <2>1. disk'[Hub] # disk[Hub] /\ Hub \in Roots /\ Hub \notin Replicas
    BY DEF Lost, Roots
  <2>2. ~User
    BY UserIsNoDaemonStep
  <2>3. ~ApplyHubSource
    BY HubSourceDisk
  <2>4. ASSUME NEW r \in Replicas, ApplyReplica(r) PROVE Taken(r)
    BY <2>4, ApplyDisk
  <2>5. ASSUME NEW r \in Replicas PROVE ~FanOut(r)
    BY <2>1, FanOutDisk
  <2> QED  BY <2>1, <2>2, <2>3, <2>4, <2>5, QuietDisk DEF Next, Daemon
<1> QED  BY <1>1, TypeCorrect, PTL DEF Spec, HubBytesAccounted

\* Where no symlink is involved, fan-out loses no bytes but those the hub had.
THEOREM FanOutBytesCorrect == ASSUME Links = {} PROVE Spec => FanOutKeepsBytes
<1>1. TypeOK /\ [Next]_vars
        => [DaemonStep => \A r \in Replicas : Lost(r) => disk[r] = job.old]_vars
  <2> SUFFICES ASSUME TypeOK, Next, DaemonStep, NEW s \in Replicas, Lost(s)
               PROVE  disk[s] = job.old
    BY DEF vars
  <2>1. disk'[s] # disk[s] /\ s \in Roots
    BY DEF Lost, Roots
  <2>2. ~User
    BY UserIsNoDaemonStep
  <2>3. ~ApplyHubSource
    BY <2>1, HubSourceDisk
  <2>4. ASSUME NEW r \in Replicas PROVE ~ApplyReplica(r)
    BY <2>1, ApplyDisk
  <2>5. ASSUME NEW r \in Replicas, FanOut(r) PROVE disk[s] = job.old
    BY <2>1, <2>5, FanOutDisk
  <2> QED  BY <2>1, <2>2, <2>3, <2>4, <2>5, QuietDisk DEF Next, Daemon
<1> QED  BY <1>1, TypeCorrect, PTL DEF Spec, FanOutKeepsBytes
-----------------------------------------------------------------------------
\* When users do not write during a tick.

Agrees(r)   == disk[r] = disk[Hub] /\ row[r] = row[Hub]
AsBefore(r) == lastSeen[r] = lastSeen[Hub] /\ row[r] = row[Hub]
Rejoined(r) ==
  r \notin todo /\ disk[r] = disk[Hub] /\ row[r] = RowFor(disk[Hub], row[Hub].gen)
Followers   == Replicas \ (oos \cup Pending)

\* The hub's row is one that an applied change records.
HubRowPlain == row[Hub] = RowFor(row[Hub].state, row[Hub].gen)

\* What a replica's pending change says is still what the replica shows.
PendingShown ==
  \A r \in Pending \ {Hub} :
    disk[r] = lastSeen[r] /\ (mailbox[r].kind = "delete" <=> disk[r] = Absent)

\* A root that follows was last seen, and is recorded, as the hub was.
WhenIdle ==
  /\ Pending = {}
  /\ lastSeen[Hub] = row[Hub].state
  /\ \A r \in Followers : AsBefore(r)

\* As long as the hub has no change, the same, but for those that rejoined.
WhenObserving ==
  /\ Pending \cap todo = {}
  /\ \A r \in Roots \ todo : lastSeen[r] = disk[r]
  /\ Hub \notin Pending =>
       /\ lastSeen[Hub] = row[Hub].state
       /\ \A r \in Followers : AsBefore(r) \/ Rejoined(r)

\* Between two changes everybody agrees, or the hub's own change will be fanned out.
WhenApplying ==
  /\ \A r \in Roots : lastSeen[r] = disk[r]
  /\ Hub \notin Pending => disk[Hub] = row[Hub].state /\ \A r \in Followers : Agrees(r)

\* A fan-out leaves everybody it has passed with the hub's version.
WhenFanning ==
  /\ \A r \in Roots : lastSeen[r] = disk[r]
  /\ disk[Hub] = job.new /\ row[Hub] = RowFor(job.new, job.gen)
  /\ \A r \in Followers : r \in todo \ {job.source} \/ Agrees(r)

QInv ==
  /\ IInv /\ HubRowPlain /\ PendingShown
  /\ pc # "dead"
  /\ pc = "idle" => WhenIdle
  /\ pc = "observe" => WhenObserving
  /\ pc = "apply" => WhenApplying
  /\ pc = "fanout" => WhenFanning

\* A row that was recorded is recorded the same at its own generation.
LEMMA RowForAgain ==
  ASSUME NEW s \in State, NEW g \in Nat
  PROVE  RowFor(s, RowFor(s, g).gen) = RowFor(s, g)
BY DEF RowFor, NoRow

\* Only deletes leave nothing.
LEMMA ClassifyDelete ==
  ASSUME NEW s \in State, NEW t \in State
  PROVE  Classify(s, t) = "delete" <=> t = Absent
BY DEF Classify, Content

\* It holds where a fresh catch-up leaves the roots.
LEMMA QuietInit == Init => QInv
<1> SUFFICES ASSUME Init PROVE QInv
  OBVIOUS
<1>1. PICK s \in State :
        /\ disk = [r \in Roots |-> s]
        /\ row = [r \in Roots |-> RowFor(s, 0)]
        /\ lastSeen = [r \in Roots |-> s]
        /\ mailbox = [r \in Roots |-> NoChange]
        /\ pc = "idle" /\ oos = {}
  BY DEF Init, State
<1>2. Pending = {} /\ Hub \in Roots
  BY <1>1 DEF Pending, NoChange, Roots
<1>3. RowFor(s, 0).state = s /\ RowFor(s, RowFor(s, 0).gen) = RowFor(s, 0)
  BY RowForType, RowForAgain
<1>4. WhenIdle
  BY <1>1, <1>2, <1>3 DEF WhenIdle, AsBefore, Followers, Roots
<1> QED  BY <1>1, <1>2, <1>3, <1>4, InitInv DEF QInv, HubRowPlain, PendingShown

\* Users write between ticks only, and a resolve leaves every root alike.
LEMMA QuietUser ==
  ASSUME ~Racing, QInv, User, IInv' PROVE QInv'
<1>1. ASSUME NEW r \in Roots, NEW s \in Writable, UserWrite(r, s) PROVE QInv'
  <2>1. pc = "idle" /\ UNCHANGED <<row, lastSeen, mailbox, oos, pc>>
    BY <1>1 DEF UserWrite
  <2>2. Pending' = Pending /\ Pending = {}
    BY <2>1 DEF Pending, QInv, WhenIdle
  <2> QED  BY <2>1, <2>2 DEF QInv, HubRowPlain, PendingShown, WhenIdle, Followers, AsBefore
<1>2. ASSUME NEW c \in Files, Resolve(c) PROVE QInv'
  <2> DEFINE s == IF disk[Hub] \in Links THEN disk[Hub] ELSE c
  <2>1. s \in State /\ NewGen \in Nat /\ Hub \in Roots
    BY NewGenType DEF State, Content, Roots, QInv, IInv
  <2>2. /\ row' = [r \in Roots |-> RowFor(s, NewGen)]
        /\ lastSeen' = [r \in Roots |-> s]
        /\ mailbox' = [r \in Roots |-> NoChange]
        /\ pc' = "idle"
    BY <1>2 DEF Resolve
  <2> HIDE DEF s
  <2>3. Pending' = {}
    BY <2>2 DEF Pending, NoChange
  <2>4. RowFor(s, NewGen).state = s /\ RowFor(s, RowFor(s, NewGen).gen) = RowFor(s, NewGen)
    BY <2>1, RowForType, RowForAgain
  <2>5. WhenIdle'
    BY <2>1, <2>2, <2>3, <2>4 DEF WhenIdle, AsBefore, Followers, Roots
  <2> QED  BY <2>1, <2>2, <2>3, <2>4, <2>5 DEF QInv, HubRowPlain, PendingShown
<1> QED  BY <1>1, <1>2 DEF User

\* What a taken change leaves pending.
LEMMA TakenPending ==
  ASSUME TypeOK, NEW r \in Roots, Take(r)
  PROVE  /\ Pending' = Pending \ {r} /\ r \in Pending
         /\ \A s \in Roots \ {r} : mailbox'[s] = mailbox[s]
BY DEF Take, NextPending, Pending, NoChange, TypeOK

\* A commit whose source shows the new bytes starts a fan-out that owes nobody else.
LEMMA QuietCommit ==
  ASSUME QInv, NEW r \in Roots, NEW hubNow \in State, NEW old \in State,
         Take(r), Commit(r, hubNow, old), r # Hub => disk[r] = hubNow, IInv'
  PROVE  QInv'
<1>1. /\ NewGen \in Nat /\ Hub \in Roots /\ TypeOK
      /\ pc = "apply" /\ pc' = "fanout" /\ todo' = Replicas
      /\ job'.new = hubNow /\ job'.gen = NewGen /\ job'.source = r
  BY NewGenType DEF QInv, IInv, Take, Commit, Roots
<1>2. /\ Pending' = Pending \ {r}
      /\ \A s \in Roots \ {r} : mailbox'[s] = mailbox[s]
  BY <1>1, TakenPending
<1>3. disk'[Hub] = hubNow /\ \A s \in Roots \ {Hub} : disk'[s] = disk[s]
  BY <1>1 DEF Commit, TypeOK
<1>4. /\ row'[Hub] = RowFor(hubNow, NewGen) /\ row'[r] = RowFor(hubNow, NewGen)
      /\ \A s \in Roots : lastSeen'[s] = IF s \in {Hub, r} THEN disk'[s] ELSE lastSeen[s]
  BY <1>1, <1>3 DEF Commit
<1>5. RowFor(hubNow, NewGen).state = hubNow
      /\ RowFor(hubNow, RowFor(hubNow, NewGen).gen) = RowFor(hubNow, NewGen)
  BY <1>1, RowForType, RowForAgain
<1>6. HubRowPlain'
  BY <1>4, <1>5 DEF HubRowPlain
<1>7. \A s \in Roots : lastSeen'[s] = disk'[s]
  BY <1>1, <1>3, <1>4 DEF QInv, WhenApplying
<1>8. PendingShown'
  BY <1>1, <1>2, <1>3, <1>7 DEF QInv, PendingShown, Pending
<1>9. WhenFanning'
  BY <1>1, <1>3, <1>4, <1>7 DEF WhenFanning, Followers, Agrees, Roots
<1> QED  BY <1>1, <1>6, <1>8, <1>9 DEF QInv
\* Scanning a root queues its change, or leaves it as it was.
LEMMA QuietObserve ==
  ASSUME QInv, NEW r \in Roots, Observe(r), IInv'
  PROVE  QInv'
<1>1. /\ pc = "observe" /\ pc' = "observe" /\ WhenObserving /\ TypeOK /\ Hub \in Roots
      /\ r \in todo /\ todo' = todo \ {r} /\ UNCHANGED disk /\ oos \subseteq Roots \ {Hub}
      /\ lastSeen' = [lastSeen EXCEPT ![r] = disk[r]]
  BY DEF QInv, IInv, Observe, NextInLoop, TypeOK, Roots
<1>2. /\ lastSeen'[r] = disk[r] /\ r \notin Pending
      /\ \A s \in Roots \ {r} : lastSeen'[s] = lastSeen[s]
      /\ \A s \in Roots \ todo' : lastSeen'[s] = disk'[s]
  BY <1>1 DEF WhenObserving, TypeOK
<1>3. CASE UNCHANGED <<row, mailbox, oos>> /\ (disk[r] = lastSeen[r] \/ r \in oos)
  <2>1. Pending' = Pending
    BY <1>3 DEF Pending
  <2>2. HubRowPlain' /\ PendingShown'
    BY <1>1, <1>2, <1>3, <2>1 DEF QInv, HubRowPlain, PendingShown, Pending
  <2>3. WhenObserving'
    BY <1>1, <1>2, <1>3, <2>1
       DEF WhenObserving, Followers, AsBefore, Rejoined, Roots
  <2> QED  BY <1>1, <2>2, <2>3 DEF QInv
<1>4. CASE /\ r \in oos /\ disk[r] = disk[Hub] /\ oos' = oos \ {r}
           /\ row' = [row EXCEPT ![r] = RowFor(disk[r], row[Hub].gen)]
           /\ UNCHANGED mailbox
  <2>1. Pending' = Pending /\ r # Hub
    BY <1>1, <1>4 DEF Pending
  <2>2. /\ row'[r] = RowFor(disk[Hub], row[Hub].gen)
        /\ \A s \in Roots \ {r} : row'[s] = row[s]
    BY <1>1, <1>4 DEF TypeOK
  <2>3. HubRowPlain' /\ PendingShown'
    BY <1>1, <1>2, <1>4, <2>1, <2>2 DEF QInv, HubRowPlain, PendingShown, Pending
  <2>4. Hub \notin Pending' => \A s \in Followers' : (AsBefore(s) \/ Rejoined(s))'
    <3> SUFFICES ASSUME Hub \notin Pending, NEW s \in Followers'
                 PROVE  (AsBefore(s) \/ Rejoined(s))'
      BY <2>1
    <3>1. s \in Roots /\ s # Hub
      BY DEF Followers, Roots
    <3>2. CASE s = r
      BY <1>1, <1>4, <2>1, <2>2, <3>2 DEF Rejoined
    <3>3. CASE s # r
      <4>1. AsBefore(s) \/ Rejoined(s)
        BY <1>1, <1>4, <2>1, <3>3 DEF WhenObserving, Followers
      <4> QED  BY <1>1, <1>2, <2>1, <2>2, <3>1, <3>3, <4>1 DEF AsBefore, Rejoined
    <3> QED  BY <3>2, <3>3
  <2>5. WhenObserving'
    BY <1>1, <1>2, <2>1, <2>2, <2>4 DEF WhenObserving
  <2> QED  BY <1>1, <2>3, <2>5 DEF QInv
<1>5. CASE /\ mailbox' = [mailbox EXCEPT ![r] =
                [kind |-> Classify(lastSeen[r], disk[r]), base |-> lastSeen[r], baseGen |-> row[r].gen]]
           /\ UNCHANGED <<row, oos>>
  <2>1. /\ lastSeen[r] \in State /\ disk[r] \in State
        /\ mailbox'[r].kind = Classify(lastSeen[r], disk[r])
        /\ \A s \in Roots \ {r} : mailbox'[s] = mailbox[s]
    BY <1>1, <1>5 DEF TypeOK
  <2>2. Pending' = Pending \cup {r}
    BY <2>1, <1>1, ClassifyType DEF Pending, Kinds
  <2>3. mailbox'[r].kind = "delete" <=> disk'[r] = Absent
    BY <1>1, <2>1, ClassifyDelete
  <2>4. HubRowPlain'
    BY <1>5 DEF QInv, HubRowPlain
  <2>5. PendingShown'
    BY <1>1, <1>2, <2>1, <2>2, <2>3 DEF QInv, PendingShown, Pending
  <2>6. WhenObserving'
    BY <1>1, <1>2, <1>5, <2>2 DEF WhenObserving, Followers, AsBefore, Rejoined, Roots
  <2> QED  BY <1>1, <2>4, <2>5, <2>6 DEF QInv
<1> QED  BY <1>3, <1>4, <1>5 DEF Observe

\* Where apply begins, the roots that follow the hub agree with it.
LEMMA QuietStartApply == ASSUME QInv, StartApply, IInv' PROVE QInv'
<1>1. /\ pc' = "apply" /\ todo = {} /\ WhenObserving /\ HubRowPlain /\ Hub \in Roots
      /\ UNCHANGED <<disk, row, lastSeen, mailbox, oos>>
  BY DEF StartApply, QInv, Roots
<1>2. Pending' = Pending
  BY <1>1 DEF Pending
<1>3. WhenApplying'
  BY <1>1, <1>2
     DEF WhenApplying, WhenObserving, Followers, AsBefore, Rejoined, Agrees, HubRowPlain, Roots
<1> QED  BY <1>1, <1>2, <1>3 DEF QInv, HubRowPlain, PendingShown

\* Joining the hub's link, or losing, leaves the other roots and the hub's row alone.
LEMMA QuietJoin ==
  ASSUME QInv, NEW r \in Replicas, ApplyJoin(r), IInv'
  PROVE  QInv'
<1>1. /\ Take(r) /\ pc = "apply" /\ pc' = "apply" /\ WhenApplying /\ TypeOK /\ HubRowPlain
      /\ UNCHANGED disk /\ oos' = oos \ {r} /\ disk[r] = disk[Hub]
      /\ r \in Roots /\ Hub \in Roots /\ r # Hub
  BY DEF ApplyJoin, Take, Keep, SameLink, QInv, IInv, Roots
<1>2. /\ Pending' = Pending \ {r}
      /\ \A s \in Roots \ {r} : mailbox'[s] = mailbox[s]
  BY <1>1, TakenPending
<1>3. disk[Hub] \in State /\ row[Hub].gen \in Nat
  BY <1>1 DEF TypeOK, Rows
<1> DEFINE again == RowFor(disk[Hub], row[Hub].gen)
<1>4. /\ row'[Hub] = again /\ row'[r] = again
      /\ \A s \in Roots \ {Hub, r} : row'[s] = row[s]
      /\ \A s \in Roots : lastSeen'[s] = disk[s]
  BY <1>1 DEF ApplyJoin, WhenApplying
<1>5. again.state = disk[Hub] /\ RowFor(again.state, again.gen) = again
  <2>1. again.state = disk[Hub]
    BY <1>3, RowForType
  <2>2. RowFor(disk[Hub], again.gen) = again
    BY <1>3, RowForAgain
  <2> QED  BY <2>1, <2>2
<1> HIDE DEF again
<1>6. HubRowPlain'
  BY <1>4, <1>5 DEF HubRowPlain
<1>7. PendingShown'
  BY <1>1, <1>2, <1>4 DEF QInv, PendingShown, WhenApplying, Pending
<1>8. Hub \notin Pending => again = row[Hub]
  BY <1>1, <1>2 DEF WhenApplying, HubRowPlain, again
<1>9. WhenApplying'
  BY <1>1, <1>2, <1>4, <1>5, <1>8 DEF WhenApplying, Followers, Agrees, Roots
<1> QED  BY <1>1, <1>6, <1>7, <1>9 DEF QInv

\* The loser is isolated, and follows no more.
LEMMA QuietStaleBase ==
  ASSUME QInv, NEW r \in Replicas, ApplyStaleBase(r), IInv'
  PROVE  QInv'
<1>1. /\ Take(r) /\ pc = "apply" /\ pc' = "apply" /\ WhenApplying /\ TypeOK /\ HubRowPlain
      /\ UNCHANGED <<disk, lastSeen>> /\ oos' = oos \cup {r}
      /\ row' = [row EXCEPT ![r] = IsolatedRow(disk[r], row[r].gen)]
      /\ r \in Roots /\ Hub \in Roots /\ r # Hub
  BY DEF ApplyStaleBase, Isolate, Take, Keep, QInv, IInv, Roots
<1>2. /\ Pending' = Pending \ {r}
      /\ \A s \in Roots \ {r} : mailbox'[s] = mailbox[s]
  BY <1>1, TakenPending
<1>3. \A s \in Roots \ {r} : row'[s] = row[s]
  BY <1>1 DEF TypeOK
<1>4. HubRowPlain'
  BY <1>1, <1>3 DEF HubRowPlain
<1>5. PendingShown'
  BY <1>1, <1>2 DEF QInv, PendingShown, Pending
<1>6. WhenApplying'
  BY <1>1, <1>2, <1>3 DEF WhenApplying, Followers, Agrees, Roots
<1> QED  BY <1>1, <1>4, <1>5, <1>6 DEF QInv

\* A change that says there is a node finds it: only an isolated replica gets here.
LEMMA QuietNothing ==
  ASSUME QInv, NEW r \in Replicas, ApplyNothing(r), IInv'
  PROVE  QInv'
<1>1. /\ Take(r) /\ pc = "apply" /\ pc' = "apply" /\ WhenApplying /\ TypeOK /\ HubRowPlain
      /\ r \in Roots /\ Hub \in Roots /\ r # Hub /\ mailbox[r].kind # "delete"
      /\ UNCHANGED <<row, lastSeen, oos>>
  BY DEF ApplyNothing, Take, QInv, IInv, Roots
<1>2. /\ Pending' = Pending \ {r} /\ r \in Pending
      /\ \A s \in Roots \ {r} : mailbox'[s] = mailbox[s]
  BY <1>1, TakenPending
<1>3. disk[r] # Absent
  BY <1>1, <1>2 DEF QInv, PendingShown
<1>4. r \in oos /\ disk' = disk
  BY <1>3 DEF ApplyNothing
<1>5. PendingShown'
  BY <1>1, <1>2, <1>4 DEF QInv, PendingShown, Pending
<1>6. WhenApplying'
  BY <1>1, <1>2, <1>4 DEF WhenApplying, Followers, Agrees, Roots
<1> QED  BY <1>1, <1>5, <1>6 DEF QInv, HubRowPlain

\* Whatever the apply loop takes from a replica.
LEMMA QuietApply ==
  ASSUME QInv, NEW r \in Replicas, ApplyReplica(r), IInv'
  PROVE  QInv'
<1>1. r \in Roots /\ disk[r] \in State /\ disk[Hub] \in State /\ Absent \in State /\ TypeOK
  BY DEF QInv, IInv, TypeOK, Roots, State
<1>2. CASE ApplyDelete(r)
  <2>1. Take(r) /\ Commit(r, Absent, disk[Hub]) /\ mailbox[r].kind = "delete"
    BY <1>2 DEF ApplyDelete
  <2>2. r \in Pending /\ (r # Hub => disk[r] = Absent)
    BY <1>1, <2>1, TakenPending DEF QInv, PendingShown
  <2> QED  BY <1>1, <2>1, <2>2, QuietCommit
<1>3. CASE ApplyUpdate(r)
  <2>1. Take(r) /\ Commit(r, disk[r], disk[Hub])
    BY <1>3 DEF ApplyUpdate
  <2> QED  BY <1>1, <2>1, QuietCommit
<1> QED  BY <1>2, <1>3, QuietJoin, QuietStaleBase, QuietNothing DEF ApplyReplica

\* The hub's own change is one commit more.
LEMMA QuietHubSource == ASSUME QInv, ApplyHubSource, IInv' PROVE QInv'
<1> DEFINE hold == KindChangeHeld(disk[Hub])
           hubNow == IF hold = {} THEN disk[Hub] ELSE Absent
<1>1. Hub \in Roots /\ hubNow \in State /\ row[Hub].state \in State
  BY DEF QInv, IInv, TypeOK, Rows, Roots, State
<1>2. Take(Hub) /\ Commit(Hub, hubNow, row[Hub].state)
  BY DEF ApplyHubSource
<1> HIDE DEF hold, hubNow
<1> QED  BY <1>1, <1>2, QuietCommit

\* A replica that fan-out has passed shows the hub's version, or is left out.
LEMMA QuietFanOut ==
  ASSUME QInv, NEW r \in Replicas, FanOut(r), IInv'
  PROVE  QInv'
<1>1. /\ pc = "fanout" /\ WhenFanning /\ TypeOK /\ HubRowPlain /\ todo' = todo \ {r}
      /\ r \in Roots /\ Hub \in Roots /\ r # Hub /\ UNCHANGED <<mailbox, job>>
      /\ disk[Hub] = job.new /\ row[Hub] = RowFor(job.new, job.gen)
  BY DEF FanOut, FanOutSkip, FanOutJoin, FanOutMismatch, FanOutWrite, FanOutTo,
         QInv, IInv, WhenFanning, Roots
<1>2. Pending' = Pending
  BY <1>1 DEF Pending
<1>3. CASE FanOutSkip(r)
  <2>1. UNCHANGED <<disk, row, lastSeen, oos, pc>> /\ FanOutSkipped(r)
    BY <1>3 DEF FanOutSkip
  <2>2. WhenFanning'
    BY <1>1, <1>2, <2>1 DEF WhenFanning, Followers, Agrees, FanOutSkipped
  <2> QED  BY <1>1, <1>2, <2>1, <2>2 DEF QInv, HubRowPlain, PendingShown
<1>4. CASE FanOutMismatch(r)
  <2>1. /\ UNCHANGED <<disk, lastSeen, pc>> /\ oos' = oos \cup {r}
        /\ \A s \in Roots \ {r} : row'[s] = row[s]
    BY <1>4, <1>1 DEF FanOutMismatch, Isolate, TypeOK
  <2>2. WhenFanning'
    BY <1>1, <1>2, <2>1 DEF WhenFanning, Followers, Agrees, Roots
  <2> QED  BY <1>1, <1>2, <2>1, <2>2 DEF QInv, HubRowPlain, PendingShown
<1>5. CASE FanOutJoin(r) \/ FanOutWrite(r)
  <2>1. RecordCopy(r, job.new) /\ UNCHANGED <<oos, pc>> /\ r \notin Pending
    BY <1>1, <1>5 DEF FanOutJoin, FanOutJoins, FanOutWrite, FanOutSkipped
  <2>2. /\ disk'[r] = job.new /\ row'[r] = RowFor(job.new, job.gen) /\ lastSeen'[r] = job.new
        /\ \A s \in Roots \ {r} :
             disk'[s] = disk[s] /\ row'[s] = row[s] /\ lastSeen'[s] = lastSeen[s]
    BY <1>1, <2>1 DEF RecordCopy, TypeOK
  <2>3. WhenFanning'
    BY <1>1, <1>2, <2>1, <2>2 DEF WhenFanning, Followers, Agrees, Roots
  <2>4. HubRowPlain' /\ PendingShown'
    BY <1>1, <1>2, <2>1, <2>2 DEF QInv, HubRowPlain, PendingShown, Pending
  <2> QED  BY <1>1, <2>1, <2>3, <2>4 DEF QInv
<1> QED  BY <1>3, <1>4, <1>5 DEF FanOut

\* An isolated replica rejoins with the version that the hub has recorded.
LEMMA QuietRejoin == ASSUME QInv, Rejoin, IInv' PROVE QInv'
<1> DEFINE back == {r \in oos : disk[r] = job.new}
<1>1. /\ pc = "fanout" /\ pc' = "apply" /\ todo = {} /\ WhenFanning /\ TypeOK /\ HubRowPlain
      /\ oos \subseteq Replicas /\ Hub \notin oos /\ Hub \in Roots
      /\ disk[Hub] = job.new /\ row[Hub] = RowFor(job.new, job.gen)
      /\ job.new \in State /\ job.gen \in Nat
      /\ UNCHANGED <<disk, mailbox>> /\ oos' = oos \ back
  BY DEF Rejoin, QInv, IInv, TypeOK, WhenFanning, Roots, Jobs
<1>2. \A r \in Roots : row'[r] = IF r \in back THEN RowFor(disk[r], row[Hub].gen) ELSE row[r]
  BY DEF Rejoin
<1>3. row[Hub].state = job.new /\ \A r \in back : row'[r] = row[Hub]
  <2>1. row[Hub].state = job.new
    <3>1. RowFor(job.new, job.gen).state = job.new
      BY <1>1, RowForType
    <3> QED  BY <1>1, <3>1
  <2>2. RowFor(job.new, row[Hub].gen) = row[Hub]
    BY <1>1, RowForAgain
  <2>3. \A r \in back : r \in Roots /\ disk[r] = job.new
    BY <1>1 DEF Roots
  <2> QED  BY <1>2, <2>1, <2>2, <2>3
<1>4. row'[Hub] = row[Hub] /\ \A r \in Roots \ back : row'[r] = row[r]
  BY <1>1, <1>2
<1>5. \A r \in Roots : lastSeen'[r] = disk'[r] /\ lastSeen'[r] = lastSeen[r]
  BY <1>1 DEF Rejoin, WhenFanning
<1>6. Pending' = Pending
  BY <1>1 DEF Pending
<1>7. HubRowPlain' /\ PendingShown'
  BY <1>1, <1>4, <1>5, <1>6 DEF QInv, HubRowPlain, PendingShown, Pending
<1>8. \A r \in Followers' : Agrees(r)'
  BY <1>1, <1>3, <1>4, <1>6 DEF WhenFanning, Followers, Agrees, Roots
<1>9. WhenApplying'
  BY <1>1, <1>3, <1>4, <1>5, <1>8 DEF WhenApplying
<1> QED  BY <1>1, <1>7, <1>9 DEF QInv

\* Each step preserves it.
LEMMA QuietNext == ASSUME ~Racing, QInv, [Next]_vars PROVE QInv'
<1>1. IInv'
  BY NextInv DEF QInv
<1>2. CASE StartTick
  <2>1. /\ pc = "idle" /\ pc' = "observe" /\ todo' = Roots
        /\ UNCHANGED <<disk, row, lastSeen, mailbox, oos>>
    BY <1>2 DEF StartTick
  <2>2. Pending' = Pending
    BY <2>1 DEF Pending
  <2> QED  BY <1>1, <2>1, <2>2
           DEF QInv, HubRowPlain, PendingShown, WhenIdle, WhenObserving, Followers, AsBefore
<1>3. CASE TickDone
  <2>1. /\ pc = "apply" /\ pc' = "idle" /\ Pending = {}
        /\ UNCHANGED <<disk, row, lastSeen, mailbox, oos>>
    BY <1>3 DEF TickDone
  <2>2. Pending' = Pending
    BY <2>1 DEF Pending
  <2> QED  BY <1>1, <2>1, <2>2
           DEF QInv, HubRowPlain, PendingShown, WhenIdle, WhenApplying, Followers, AsBefore, Agrees, Roots
<1>4. CASE UNCHANGED vars
  <2>1. UNCHANGED <<disk, row, lastSeen, mailbox, oos, pc, todo, job>>
    BY <1>4 DEF vars
  <2>2. Pending' = Pending
    BY <2>1 DEF Pending
  <2> QED  BY <1>1, <2>1, <2>2
           DEF QInv, HubRowPlain, PendingShown, WhenIdle, WhenObserving, WhenApplying,
               WhenFanning, Followers, AsBefore, Agrees, Rejoined
<1> QED  BY <1>1, <1>2, <1>3, <1>4, QuietUser, QuietObserve, QuietStartApply, QuietApply,
            QuietHubSource, QuietFanOut, QuietRejoin DEF Next, Daemon

\* It is an invariant when no user writes during a tick.
LEMMA SpecQuiet == ASSUME ~Racing PROVE Spec => []QInv
BY QuietInit, QuietNext, PTL DEF Spec

\* When users let a tick run, a tick that saw every write leaves each replica
\* with the hub's bytes, or isolated (the observe, apply and fan-out of live.py).
THEOREM NoDriftUnmarked == ASSUME ~Racing PROVE Spec => []NoSilentDivergence
<1>1. QInv => NoSilentDivergence
  BY DEF QInv, WhenIdle, NoSilentDivergence, Settled, InSync, Followers, AsBefore, Roots
<1> QED  BY <1>1, SpecQuiet, PTL

\* The same for the rows: an in-sync replica's row names the hub's version, so
\* that the next compare-and-swap compares against what the hub has.
THEOREM RowsAgree == ASSUME ~Racing PROVE Spec => []InSyncRowsAgree
<1>1. QInv => InSyncRowsAgree
  BY DEF QInv, WhenIdle, InSyncRowsAgree, Followers, AsBefore
<1> QED  BY <1>1, SpecQuiet, PTL
-----------------------------------------------------------------------------
\* When only one root is ever written.

Alone(w) == \A r \in Roots \ {w} : edits[r] = 0

\* The others show what the hub has recorded until the change of w is fanned
\* out, and then what it replaces.
Solo(w) ==
  /\ oos = {} /\ Pending \subseteq {w}
  /\ pc \in {"idle", "observe"} =>
       \A r \in Roots \ {w} : disk[r] = lastSeen[r] /\ disk[r] = row[Hub].state
  /\ \A r \in Pending \ {Hub} : mailbox[r].base = row[Hub].state
  /\ pc = "apply" /\ Pending # {} => \A r \in Roots \ {w} : disk[r] = row[Hub].state
  /\ pc = "fanout" =>
       job.source = w /\ Pending = {} /\ \A r \in todo \ {w} : disk[r] = job.old

SoloInv == \A w \in Roots : Alone(w) => Solo(w)

\* At the start every root shows what the hub has recorded.
LEMMA SoloInit == Init => SoloInv
<1> SUFFICES ASSUME Init, NEW w \in Roots PROVE Solo(w)
  BY DEF SoloInv
<1>1. PICK s \in State :
        /\ disk = [r \in Roots |-> s]
        /\ row = [r \in Roots |-> RowFor(s, 0)]
        /\ lastSeen = [r \in Roots |-> s]
        /\ mailbox = [r \in Roots |-> NoChange]
        /\ pc = "idle" /\ oos = {}
  BY DEF Init, State
<1>2. Pending = {} /\ Hub \in Roots
  BY <1>1 DEF Pending, NoChange, Roots
<1>3. RowFor(s, 0).state = s
  BY RowForType
<1> QED  BY <1>1, <1>2, <1>3 DEF Solo

\* Whoever writes is the one.
LEMMA SoloUser ==
  ASSUME ~Racing, QInv, NEW w \in Roots, Solo(w), Alone(w)', User
  PROVE  Solo(w)'
<1>1. ASSUME NEW r \in Roots, NEW s \in Writable, UserWrite(r, s) PROVE Solo(w)'
  <2>1. /\ pc = "idle" /\ UNCHANGED <<row, lastSeen, mailbox, oos, pc>>
        /\ disk' = [disk EXCEPT ![r] = s] /\ edits' = [edits EXCEPT ![r] = @ + 1]
    BY <1>1 DEF UserWrite
  <2>2. r = w
    BY <2>1 DEF Alone, QInv, IInv, TypeOK
  <2>3. Pending' = Pending
    BY <2>1 DEF Pending
  <2> QED  BY <2>1, <2>2, <2>3 DEF Solo, QInv, IInv, TypeOK
<1>2. ASSUME NEW c \in Files, Resolve(c) PROVE Solo(w)'
  <2> DEFINE s == IF disk[Hub] \in Links THEN disk[Hub] ELSE c
  <2>1. s \in State /\ NewGen \in Nat /\ Hub \in Roots
    BY NewGenType DEF State, Content, Roots, QInv, IInv
  <2>2. /\ disk' = [r \in Roots |-> s]
        /\ row' = [r \in Roots |-> RowFor(s, NewGen)]
        /\ lastSeen' = [r \in Roots |-> s]
        /\ mailbox' = [r \in Roots |-> NoChange]
        /\ pc' = "idle" /\ oos' = {}
    BY <1>2 DEF Resolve
  <2> HIDE DEF s
  <2>3. Pending' = {}
    BY <2>2 DEF Pending, NoChange
  <2>4. RowFor(s, NewGen).state = s
    BY <2>1, RowForType
  <2> QED  BY <2>1, <2>2, <2>3, <2>4 DEF Solo
<1> QED  BY <1>1, <1>2 DEF User

\* Only w has changed since its last scan, and the change is against what the
\* hub has recorded.
LEMMA SoloObserve ==
  ASSUME QInv, NEW w \in Roots, Solo(w), NEW r \in Roots, Observe(r)
  PROVE  Solo(w)'
<1>1. /\ pc = "observe" /\ pc' = "observe" /\ WhenObserving /\ TypeOK /\ Hub \in Roots
      /\ r \in todo /\ UNCHANGED disk /\ oos = {} /\ r \notin Pending
      /\ lastSeen' = [lastSeen EXCEPT ![r] = disk[r]]
  BY DEF QInv, IInv, Observe, NextInLoop, Solo, WhenObserving, Roots
<1>2. \A s \in Roots \ {w} : lastSeen'[s] = disk[s]
  BY <1>1 DEF Solo, TypeOK
<1>3. CASE UNCHANGED <<row, mailbox, oos>>
  <2>1. Pending' = Pending
    BY <1>3 DEF Pending
  <2> QED  BY <1>1, <1>2, <1>3, <2>1 DEF Solo
<1>4. CASE /\ mailbox' = [mailbox EXCEPT ![r] =
                [kind |-> Classify(lastSeen[r], disk[r]), base |-> lastSeen[r], baseGen |-> row[r].gen]]
           /\ UNCHANGED <<row, oos>> /\ disk[r] # lastSeen[r]
  <2>1. r = w
    BY <1>1, <1>4 DEF Solo
  <2>2. /\ mailbox'[r].base = lastSeen[r]
        /\ \A s \in Roots \ {r} : mailbox'[s] = mailbox[s]
    BY <1>1, <1>4 DEF TypeOK
  <2>3. Pending' \subseteq {w}
    BY <2>1, <2>2 DEF Pending, Solo
  <2>4. w # Hub => lastSeen[w] = row[Hub].state
    <3> SUFFICES ASSUME w # Hub PROVE lastSeen[w] = row[Hub].state
      OBVIOUS
    <3>1. Hub \notin Pending /\ w \in Followers
      BY <1>1, <2>1 DEF Solo, Followers, Roots
    <3> QED  BY <1>1, <2>1, <3>1 DEF WhenObserving, AsBefore, Rejoined
  <2> QED  BY <1>1, <1>2, <1>4, <2>1, <2>2, <2>3, <2>4 DEF Solo
<1> QED  BY <1>1, <1>3, <1>4 DEF Observe

\* A commit of the only change finds the others at the bytes it replaces.
LEMMA SoloCommit ==
  ASSUME QInv, NEW w \in Roots, Solo(w),
         NEW r \in Roots, NEW hubNow \in State, NEW old \in State,
         Take(r), Commit(r, hubNow, old), old = row[Hub].state
  PROVE  Solo(w)'
<1>1. /\ TypeOK /\ pc = "apply" /\ pc' = "fanout" /\ todo' = Replicas /\ oos' = {}
      /\ job'.source = r /\ job'.old = old /\ Hub \in Roots
  BY DEF QInv, IInv, Take, Commit, Solo, Roots
<1>2. Pending' = Pending \ {r} /\ r \in Pending
  BY <1>1, TakenPending
<1>3. r = w /\ Pending' = {}
  BY <1>2 DEF Solo
<1>4. \A s \in Replicas \ {w} : disk'[s] = old
  BY <1>1, <1>2 DEF Commit, Solo, TypeOK, Roots
<1> QED  BY <1>1, <1>3, <1>4 DEF Solo

\* The only change wins: nobody else has touched the hub.
LEMMA SoloApply ==
  ASSUME QInv, NEW w \in Roots, Solo(w), NEW r \in Replicas, ApplyReplica(r)
  PROVE  Solo(w)'
<1>1. /\ Take(r) /\ pc = "apply" /\ TypeOK /\ WhenApplying /\ oos = {}
      /\ r \in Roots /\ Hub \in Roots /\ r # Hub
      /\ disk[r] \in State /\ disk[Hub] \in State /\ Absent \in State
  BY DEF ApplyReplica, ApplyJoin, ApplyDelete, ApplyStaleBase, ApplyNothing, ApplyUpdate,
         Take, QInv, IInv, Solo, TypeOK, Roots, State
<1>2. Pending' = Pending \ {r} /\ r \in Pending
  BY <1>1, TakenPending
<1>3. r = w /\ Pending' = {} /\ Hub \notin Pending
  BY <1>1, <1>2 DEF Solo
<1>4. disk[Hub] = row[Hub].state /\ mailbox[r].base = row[Hub].state
  BY <1>1, <1>2, <1>3 DEF WhenApplying, Solo
<1>5. CASE ApplyJoin(r)
  <2>1. pc' = "apply" /\ oos' = {}
    BY <1>1, <1>5 DEF ApplyJoin, Keep
  <2> QED  BY <1>3, <2>1 DEF Solo
<1>6. CASE ApplyDelete(r)
  BY <1>1, <1>4, <1>6, SoloCommit DEF ApplyDelete
<1>7. CASE ApplyStaleBase(r)
  BY <1>4, <1>7 DEF ApplyStaleBase
<1>8. CASE ApplyNothing(r)
  BY <1>1, <1>2, <1>8 DEF ApplyNothing, QInv, PendingShown
<1>9. CASE ApplyUpdate(r)
  BY <1>1, <1>4, <1>9, SoloCommit DEF ApplyUpdate
<1> QED  BY <1>5, <1>6, <1>7, <1>8, <1>9 DEF ApplyReplica

\* The hub's own change replaces what it has recorded, which the replicas show.
LEMMA SoloHubSource ==
  ASSUME QInv, NEW w \in Roots, Solo(w), ApplyHubSource
  PROVE  Solo(w)'
<1> DEFINE hold == KindChangeHeld(disk[Hub])
           hubNow == IF hold = {} THEN disk[Hub] ELSE Absent
<1>1. Hub \in Roots /\ hubNow \in State /\ row[Hub].state \in State
  BY DEF QInv, IInv, TypeOK, Rows, Roots, State
<1>2. Take(Hub) /\ Commit(Hub, hubNow, row[Hub].state)
  BY DEF ApplyHubSource
<1> HIDE DEF hold, hubNow
<1> QED  BY <1>1, <1>2, SoloCommit

\* Every replica that is left has the bytes the change expects.
LEMMA SoloFanOut ==
  ASSUME QInv, NEW w \in Roots, Solo(w), NEW r \in Replicas, FanOut(r)
  PROVE  Solo(w)'
<1>1. /\ pc = "fanout" /\ WhenFanning /\ TypeOK /\ todo' = todo \ {r} /\ r \in todo
      /\ r \in Roots /\ UNCHANGED <<mailbox, job>> /\ disk[Hub] = job.new
  BY DEF FanOut, FanOutSkip, FanOutJoin, FanOutMismatch, FanOutWrite, FanOutTo, NextInLoop,
         QInv, IInv, WhenFanning, Roots
<1>2. Pending' = Pending
  BY <1>1 DEF Pending
<1>3. ~FanOutMismatch(r)
  BY <1>1 DEF FanOutMismatch, FanOutSkipped, FanOutExpected, Solo
<1>4. pc' = pc /\ oos' = oos /\ \A s \in Roots \ {r} : disk'[s] = disk[s]
  BY <1>1, <1>3 DEF FanOut, FanOutSkip, FanOutJoin, FanOutWrite, RecordCopy, TypeOK
<1> QED  BY <1>1, <1>2, <1>4 DEF Solo, TypeOK

\* Each step preserves it for every root that could be the one.
LEMMA SoloNext ==
  ASSUME ~Racing, QInv, SoloInv, [Next]_vars
  PROVE  SoloInv'
<1> SUFFICES ASSUME NEW w \in Roots, Alone(w)' PROVE Solo(w)'
  BY DEF SoloInv
<1>1. TypeOK /\ \A r \in Roots : edits'[r] = edits[r] \/ edits'[r] = edits[r] + 1
  <2>1. TypeOK
    BY DEF QInv, IInv
  <2>2. edits' = edits \/ \E r \in Roots : edits' = [edits EXCEPT ![r] = @ + 1]
    BY DEF Next, User, Daemon, UserWrite, Resolve, StartTick, Observe, StartApply, TickDone,
           ApplyHubSource, ApplyReplica, ApplyJoin, ApplyDelete, ApplyStaleBase, ApplyNothing,
           ApplyUpdate, FanOut, FanOutSkip, FanOutJoin, FanOutMismatch, FanOutWrite, FanOutTo,
           Rejoin, vars, Roots
  <2> QED  BY <2>1, <2>2 DEF TypeOK
<1>2. Solo(w)
  BY <1>1 DEF SoloInv, Alone, TypeOK
<1>3. CASE StartTick
  <2>1. pc = "idle" /\ pc' = "observe" /\ UNCHANGED <<disk, row, lastSeen, mailbox, oos>>
    BY <1>3 DEF StartTick
  <2>2. Pending' = Pending
    BY <2>1 DEF Pending
  <2> QED  BY <1>2, <2>1, <2>2 DEF Solo
<1>4. CASE StartApply
  <2>1. pc = "observe" /\ pc' = "apply" /\ UNCHANGED <<disk, row, lastSeen, mailbox, oos>>
    BY <1>4 DEF StartApply
  <2>2. Pending' = Pending
    BY <2>1 DEF Pending
  <2> QED  BY <1>2, <2>1, <2>2 DEF Solo
<1>5. CASE TickDone
  <2>1. /\ pc = "apply" /\ pc' = "idle" /\ Pending = {} /\ WhenApplying
        /\ UNCHANGED <<disk, row, lastSeen, mailbox, oos>>
    BY <1>5 DEF TickDone, QInv
  <2>2. Pending' = Pending
    BY <2>1 DEF Pending
  <2>3. \A r \in Roots : disk[r] = lastSeen[r] /\ disk[r] = row[Hub].state
    BY <1>2, <2>1 DEF WhenApplying, Followers, Agrees, Solo, Roots
  <2> QED  BY <1>2, <2>1, <2>2, <2>3 DEF Solo
<1>6. CASE Rejoin
  <2>1. pc = "fanout" /\ pc' = "apply" /\ UNCHANGED mailbox /\ oos' = {}
    BY <1>2, <1>6 DEF Rejoin, Solo
  <2>2. Pending' = {}
    BY <1>2, <2>1 DEF Pending, Solo
  <2> QED  BY <2>1, <2>2 DEF Solo
<1>7. CASE UNCHANGED vars
  <2>1. UNCHANGED <<disk, row, lastSeen, mailbox, oos, pc, todo, job>>
    BY <1>7 DEF vars
  <2>2. Pending' = Pending
    BY <2>1 DEF Pending
  <2> QED  BY <1>2, <2>1, <2>2 DEF Solo
<1> QED  BY <1>2, <1>3, <1>4, <1>5, <1>6, <1>7, SoloUser, SoloObserve, SoloApply,
            SoloHubSource, SoloFanOut DEF Next, Daemon

\* It is an invariant too.
LEMMA SpecSolo == ASSUME ~Racing PROVE Spec => []SoloInv
BY QuietInit, SoloInit, QuietNext, SoloNext, PTL DEF Spec

\* Fewer than two writers are one root and the others, which nobody wrote.
LEMMA FewWriters ==
  ASSUME TypeOK, ~(Cardinality({r \in Roots : edits[r] > 0}) >= 2)
  PROVE  \E w \in Roots : Alone(w)
<1> DEFINE S == {r \in Roots : edits[r] > 0}
<1>1. IsFiniteSet(Roots) /\ Hub \in Roots
  BY FS_AddElement DEF Roots
<1>2. IsFiniteSet(S) /\ S \subseteq Roots
  BY <1>1, FS_Subset
<1>3. Cardinality(S) \in Nat
  BY <1>2, FS_CardinalityType
<1>4. CASE S = {}
  BY <1>1, <1>4 DEF Alone, TypeOK
<1>5. CASE \E w \in S : S = {w}
  BY <1>5 DEF Alone, TypeOK
<1>6. ASSUME S # {}, \A w \in S : S # {w} PROVE Cardinality(S) >= 2
  <2>1. PICK u \in S : TRUE
    BY <1>6
  <2>2. PICK v \in S : v # u
    BY <1>6, <2>1
  <2>3. Cardinality(S \ {u}) = Cardinality(S) - 1 /\ IsFiniteSet(S \ {u})
    BY <1>2, <2>1, FS_RemoveElement
  <2>4. S \ {u} # {}
    BY <2>2
  <2> HIDE DEF S
  <2>5. Cardinality(S \ {u}) \in Nat
    BY <2>3, FS_CardinalityType
  <2>6. Cardinality(S \ {u}) # 0
    BY <2>3, <2>4, FS_EmptySet
  <2> QED  BY <1>3, <2>3, <2>5, <2>6
<1> QED  BY <1>4, <1>5, <1>6

\* One writer alone never isolates anyone, whatever it writes and however the
\* roots are ordered.
THEOREM OneWriterIsolatesNobody == ASSUME ~Racing PROVE Spec => []IsolationNeedsTwoWriters
<1>1. ASSUME QInv, SoloInv PROVE IsolationNeedsTwoWriters
  BY <1>1, FewWriters DEF IsolationNeedsTwoWriters, SoloInv, Solo, QInv, IInv
<1> QED  BY <1>1, SpecQuiet, SpecSolo, PTL
-----------------------------------------------------------------------------
\* Deletes past the window.

\* Where no symlink is involved, a delete past the window takes the hub's bytes
\* away only into a held copy: users may write at any moment.
THEOREM DeleteHeldCorrect == ASSUME Links = {} PROVE Spec => DeletePastWindowHeld
<1>1. TypeOK /\ [Next]_vars => [DaemonStep /\ Lost(Hub) =>
               \A r \in Replicas :
                 /\ mailbox[r].kind = "delete"
                 /\ mailbox'[r].kind = "none"
                 /\ disk[Hub] # mailbox[r].base
                 => row[Hub].gen - mailbox[r].baseGen <= DELETE_WINDOW]_vars
  <2> SUFFICES ASSUME TypeOK, Next, DaemonStep, Lost(Hub), NEW s \in Replicas,
                      mailbox[s].kind = "delete", mailbox'[s].kind = "none",
                      disk[Hub] # mailbox[s].base
               PROVE  row[Hub].gen - mailbox[s].baseGen <= DELETE_WINDOW
    BY DEF vars
  <2>1. disk'[Hub] # disk[Hub] /\ Hub \in Roots /\ Hub \notin Replicas /\ s \in Roots
    BY DEF Lost, Roots
  <2>2. ~User
    BY UserIsNoDaemonStep
  <2>3. ~ApplyHubSource
    BY HubSourceDisk
  <2>4. ASSUME NEW r \in Replicas, ApplyReplica(r)
        PROVE  row[Hub].gen - mailbox[s].baseGen <= DELETE_WINDOW
    <3>1. r \in Roots /\ Take(r)
      BY <2>4 DEF ApplyReplica, ApplyJoin, ApplyDelete, ApplyStaleBase, ApplyNothing,
                  ApplyUpdate, Roots
    <3>2. s = r
      BY <2>1, <3>1, TakenPending
    <3> QED  BY <2>4, <3>2, ApplyDisk
  <2>5. ASSUME NEW r \in Replicas PROVE ~FanOut(r)
    BY <2>1, FanOutDisk
  <2> QED  BY <2>1, <2>2, <2>3, <2>4, <2>5, QuietDisk DEF Next, Daemon
<1> QED  BY <1>1, TypeCorrect, PTL DEF Spec, DeletePastWindowHeld
=============================================================================
