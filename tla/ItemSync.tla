----------------------------- MODULE ItemSync -----------------------------
(***************************************************************************)
(* daemon/live.py and daemon/catchup.py at the level of whole items: what  *)
(* one tick and one catch-up do to the copies of one declared item, as     *)
(* operators without state.  LiveSync models the same code one path and    *)
(* one step at a time, with the bytes; here a copy is there or not, every  *)
(* copy of an item has the same bytes, and a call is one step.             *)
(*                                                                         *)
(* An item record x holds sets of roots (the managed project h and its     *)
(* targets): where the item is on disk, where the baseline and the last    *)
(* scan have it, which replicas are isolated, which changes are pending;   *)
(* x.gone says that this tick deleted it (_deleted_rels).                  *)
(***************************************************************************)
EXTENDS Naturals, Sequences

CONSTANT Order   \* all roots, in the order of their path strings

Put(set, roots, present) == IF present THEN set \cup roots ELSE set \ roots

\* _record: baseline and last scan of these roots show what the argument says.
Record(x, roots, present) ==
  [x EXCEPT !.row = Put(@, roots, present), !.seen = Put(@, roots, present)]

\* _record of what the disk of each of these roots shows.
RecordDisk(x, roots) == Record(Record(x, roots \cap x.disk, TRUE), roots \ x.disk, FALSE)

\* _clear_oos
ClearOos(x, roots) == RecordDisk([x EXCEPT !.oos = @ \ roots], roots)

\* _mark_oos: the row takes what the disk has; the last scan is left alone.
MarkOos(x, roots) ==
  [x EXCEPT !.oos = @ \cup roots,
            !.row = (@ \ roots) \cup (roots \cap x.disk)]

-----------------------------------------------------------------------------
\* A tick: observe, then apply, for the watched roots W

\* observe: an isolated replica that shows what the hub shows rejoins; of its
\* other changes only a delete is queued.
Observe(x, h, W) ==
  LET changed == {r \in W : (r \in x.disk) # (r \in x.seen)}
      rejoins == {r \in changed \cap x.oos : (r \in x.disk) = (h \in x.disk)}
      queued  == {r \in changed \ rejoins : r \in x.oos => r \notin x.disk}
  IN  [ClearOos(x, rejoins) EXCEPT !.seen = (@ \ W) \cup (x.disk \cap W),
                                   !.box  = queued,
                                   !.gone = FALSE]

\* Mutant: a change reaches no other replica.
FanOutNowhere(x, h, r, W, old, new) == ClearOos(x, {q \in x.oos : (q \in x.disk) = new})

\* _fan_out of a change of root r, then _rejoin_equal_replicas.
FanOut(x, h, r, W, old, new) ==
  LET reached == W \ ({h, r} \cup x.oos \cup x.box)
      agree   == {q \in reached : (q \in x.disk) = old}
      written == Record([x EXCEPT !.disk = Put(@, agree, new)], agree, new)
      marked  == MarkOos(written, reached \ agree)
  IN  ClearOos(marked, {q \in marked.oos : (q \in marked.disk) = new})

\* _commit_hub_source
ApplyHub(x, h, W) ==
  LET new == h \in x.disk
  IN  FanOut([Record(x, {h}, new) EXCEPT !.gone = @ \/ ~new], h, h, W, h \in x.row, new)

\* _apply_one of a target's delete.
ApplyDelete(x, h, r, W) ==
  LET removed == [x EXCEPT !.disk = @ \ {h}, !.oos = @ \ {r}, !.gone = TRUE]
  IN  FanOut(Record(removed, {h, r}, FALSE), h, r, W, h \in x.disk, FALSE)

\* _apply_one of a target's create: it needs a hub without the item.
ApplyCreate(x, h, r, W) ==
  IF r \in x.oos THEN x
  ELSE IF h \in x.disk THEN MarkOos(x, {r})
  ELSE FanOut(Record([x EXCEPT !.disk = @ \cup {h}], {h, r}, TRUE), h, r, W, FALSE, TRUE)

\* _apply_one: the change of root r leaves the mailbox.
ApplyOne(x, h, r, W, isDelete) ==
  LET y == [x EXCEPT !.box = @ \ {r}]
  IN  IF r = h THEN ApplyHub(y, h, W)
      ELSE IF isDelete THEN ApplyDelete(y, h, r, W)
      ELSE ApplyCreate(y, h, r, W)

\* _apply_sort_key: the deletes by root, then the creates by root.
Rounds == Order \o Order

\* The n-th round takes its root's change, if that is pending and of its kind;
\* x is the item when apply began, y what the rounds before made of it.
Round(x, h, W, n, y) ==
  LET r        == Rounds[n]
      isDelete == n <= Len(Order)
  IN  IF r \in y.box /\ (isDelete <=> r \notin x.disk)
      THEN ApplyOne(y, h, r, W, isDelete) ELSE y

\* apply: one change at a time.
Apply(x, h, W) ==
  LET after[n \in 0 .. Len(Rounds)] ==
        IF n = 0 THEN x ELSE Round(x, h, W, n, after[n - 1])
  IN  after[Len(Rounds)]

Tick(x, h, W) == Apply(Observe(x, h, W), h, W)

-----------------------------------------------------------------------------
\* Catch-up

\* Mutant: a target that has no row is left without a copy.
SeedNever(x, h, T) == x

\* seed_item for the targets T that have no row, when the hub has the item.
Seed(x, h, T) ==
  LET new == {t \in T : t \notin x.row}
  IN  IF h \notin x.disk \/ new = {} THEN x
      ELSE Record([x EXCEPT !.disk = @ \cup new], new \cup {h}, TRUE)

\* install_fresh_item for the new targets T, after the tick; recorded says that
\* the hub had a row before it.
InstallFresh(x, h, T, recorded) ==
  LET y == [x EXCEPT !.disk = Put(@, T, h \in x.disk)]
  IN  IF h \in x.disk \/ recorded THEN RecordDisk(y, T) ELSE y

\* apply_frozen_mismatches for the watched targets T.
Unfreeze(x, h, T) ==
  LET frozen == {t \in T :
                   /\ (t \in x.disk) # (h \in x.disk)
                   /\ ~(t \in x.oos /\ (h \in x.disk \/ x.gone))
                   /\ (h \in x.disk) = (h \in x.row)
                   /\ (t \in x.disk) = (t \in x.row)}
  IN  Apply([x EXCEPT !.oos = @ \ frozen, !.box = frozen], h, T \cup {h})

\* catch_up_live with a baseline, for the targets T of the item; those in fresh
\* have no tree in the baseline.
CatchUpUpdate(x, h, T, fresh) ==
  LET seeded  == Seed(x, h, T \ fresh)
      ticked  == Tick(seeded, h, (T \ fresh) \cup {h})
  IN  Unfreeze(InstallFresh(ticked, h, T \cap fresh, h \in seeded.row), h, T)

\* _prune_unwatched: nothing is remembered of roots outside W.
Prune(x, W) ==
  [x EXCEPT !.row = @ \cap W, !.seen = @ \cap W, !.oos = @ \cap W]
=============================================================================
