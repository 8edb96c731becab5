---------------------------- MODULE ReloadProofs ----------------------------
(***************************************************************************)
(* Proofs about Reload.  TypeOK holds by the invariant Types, which also   *)
(* says where the threads are and which rows may exist at all.  Units-     *)
(* WatchSnapshot holds by Steady, what each phase of a start or reload     *)
(* leaves to be done.  DeletesWereSeen holds because a tick or a           *)
(* catch-up deletes nothing of an item that the hub has and whose rows and *)
(* last scan are, at the roots it watches, of copies on disk.              *)
(* FileRowsReadBack holds because what is saved of one unit writes no      *)
(* other's rows wrong: the baseline in memory has the rows of a unit that  *)
(* no reload is about, or none of them.  NoFrozenMismatch holds because    *)
(* every watched target is even with its hub, or one of the two was last   *)
(* seen different from its row (AccountedUnits), which needs that what a   *)
(* catch-up begins with is even (EvenToBuild): a target without a tree in  *)
(* the baseline has no rows and is isolated nowhere (Keyed).               *)
(***************************************************************************)
EXTENDS Reload, ItemSyncProofs, TLAPS

-----------------------------------------------------------------------------
\* Where things are

\* Rows and isolated replicas of item i: the hub, which is never isolated, and targets.
HeldRows(i) == [row : SUBSET Places(i), oos : SUBSET TargetsOf[Owner[i]]]

\* The places of an item are its hub and the targets of its project.
LEMMA Geography ==
  ASSUME NEW i \in Items
  PROVE  /\ Owner[i] \in Units /\ Owner[i] \in Places(i)
         /\ TargetsOf[Owner[i]] \subseteq Targets
         /\ TargetsOf[Owner[i]] \subseteq Places(i) \ {Owner[i]}
         /\ Places(i) \subseteq Roots
         /\ Places(i) \ {Owner[i]} = TargetsOf[Owner[i]]
<1>1. Owner[i] \in Units
  BY StructureAssumption
<1>2. TargetsOf[Owner[i]] \subseteq Targets
  BY <1>1 DEF Targets
<1>3. Owner[i] \notin TargetsOf[Owner[i]]
  BY <1>1, <1>2, StructureAssumption
<1> QED  BY <1>1, <1>2, <1>3 DEF Places, Roots

\* Rows of an item are rows, and none are rows of any item.
LEMMA HeldAreKept ==
  ASSUME NEW i \in Items
  PROVE  HeldRows(i) \subseteq Kept /\ NoRows \in HeldRows(i)
<1>1. Places(i) \subseteq Roots /\ TargetsOf[Owner[i]] \subseteq Roots
  BY Geography
<1> QED  BY <1>1 DEF HeldRows, Kept, NoRows

DiskIs(d) == d \in [Items -> SUBSET Roots] /\ \A i \in Items : d[i] \subseteq Places(i)
LiveIs(lv) ==
  lv \in [Items -> Live]
  /\ \A i \in Items : /\ lv[i].row \cup lv[i].seen \cup lv[i].oos \subseteq Places(i)
                      /\ lv[i].oos \subseteq TargetsOf[Owner[i]]
DocsAre(d) ==
  d \in [Items -> [own : Kept, files : Kept]]
  /\ \A i \in Items : d[i].own \in HeldRows(i) /\ d[i].files \in HeldRows(i)
TreesAre(t) == t \in Trees /\ \A i \in Items : t.rows[i] \in HeldRows(i)
MapIs(m) == m \in Mapping /\ \A i \in Items : m[i] \subseteq TargetsOf[Owner[i]]
ItemsAre(ys) ==
  \A i \in Items : ys[i] \in Item(Places(i), Places(i), Owner[i])

\* Mappings of the yaml file map items to targets of their project.
LEMMA MappingsAre ==
  ASSUME NEW m \in Mappings
  PROVE  MapIs(m)
BY StructureAssumption DEF MapIs

\* So do the parts of a mapping that are about some projects.
LEMMA OnlyIs ==
  ASSUME NEW m, MapIs(m), NEW us
  PROVE  MapIs(Only(m, us))
BY DEF MapIs, Only, Mapping

\* And the mapping of nothing.
LEMMA NoItemIs == MapIs(NoItem)
BY DEF MapIs, NoItem, Mapping

\* The watched places of an item.
LEMMA WatchedIs ==
  ASSUME NEW m, MapIs(m), NEW i \in Items
  PROVE  Watched(m, i) \in SUBSET Places(i) /\ Watched(m, i) \subseteq Roots
<1>1. m[i] \subseteq TargetsOf[Owner[i]]
  BY DEF MapIs
<1> QED  BY <1>1, Geography DEF Watched, Places

\* The roots of a unit in a mapping are its own and its targets.
LEMMA UnitRootsAre ==
  ASSUME NEW m, MapIs(m), NEW i \in Items
  PROVE  UnitRoots(m, Owner[i]) \subseteq Places(i)
<1>1. ASSUME NEW j \in UnitItems(Owner[i]) PROVE m[j] \subseteq TargetsOf[Owner[i]]
  BY <1>1 DEF UnitItems, MapIs
<1> QED  BY <1>1 DEF UnitRoots, UnitTargets, Places

-----------------------------------------------------------------------------
\* Rows stay rows

\* What a document keeps of a tree.
LEMMA KeptRowsAre ==
  ASSUME NEW t, TreesAre(t), NEW m, NEW i \in Items
  PROVE  KeptRows(t, m, i) \in HeldRows(i)
<1> DEFINE rows == t.rows[i].row \cap UnitRoots(m, Owner[i])
           oos  == t.rows[i].oos \cap rows
<1>1. KeptRows(t, m, i) = [row |-> rows, oos |-> oos]
  BY DEF KeptRows
<1>2. rows \in SUBSET Places(i) /\ oos \in SUBSET TargetsOf[Owner[i]]
  BY DEF TreesAre, HeldRows
<1> HIDE DEF rows, oos
<1> QED  BY <1>1, <1>2 DEF HeldRows

\* Two documents of an item that are rows of it.
DocIs(doc, i) == doc \in [own : Kept, files : Kept] /\ doc.own \in HeldRows(i) /\ doc.files \in HeldRows(i)

\* A document of rows.
LEMMA DocOfRows ==
  ASSUME NEW i \in Items, NEW own \in HeldRows(i), NEW fs \in HeldRows(i)
  PROVE  DocIs([own |-> own, files |-> fs], i)
BY HeldAreKept DEF DocIs

\* Documents, one item at a time.
LEMMA DocsOfDocs ==
  ASSUME NEW d, d = [i \in Items |-> d[i]], \A i \in Items : DocIs(d[i], i)
  PROVE  DocsAre(d)
<1>1. d \in [Items -> [own : Kept, files : Kept]]
  BY DEF DocIs
<1> QED  BY <1>1 DEF DocsAre, DocIs

\* What is saved.
LEMMA SavedDocsAre ==
  ASSUME DocsAre(docs), NEW d, NEW t, TreesAre(t), NEW m
  PROVE  DocsAre(SavedDocs(d, t, m))
<1> DEFINE kept(i)  == KeptRows(t, m, i)
           files(i) == m[i] # {} /\ InFiles(d, i)
           rewritten(u) == \E i \in UnitItems(u) : files(i) /\ kept(i).row # {}
           own(i) == IF m[i] # {} /\ ~InFiles(d, i) /\ kept(i).row # {} THEN kept(i) ELSE docs[i].own
           fs(i)  == IF ~rewritten(Owner[i]) THEN docs[i].files
                     ELSE IF files(i) THEN kept(i) ELSE NoRows
           new    == SavedDocs(d, t, m)
<1>1. new = [i \in Items |-> [own |-> own(i), files |-> fs(i)]]
  BY DEF SavedDocs
<1>2. ASSUME NEW i \in Items PROVE own(i) \in HeldRows(i) /\ fs(i) \in HeldRows(i)
  <2>1. kept(i) \in HeldRows(i)
    BY KeptRowsAre
  <2>2. docs[i].own \in HeldRows(i) /\ docs[i].files \in HeldRows(i)
    BY DEF DocsAre
  <2>3. NoRows \in HeldRows(i)
    BY HeldAreKept
  <2> HIDE DEF kept, files, rewritten
  <2> QED  BY <2>1, <2>2, <2>3
<1> HIDE DEF own, fs
<1>3. ASSUME NEW i \in Items PROVE DocIs([own |-> own(i), files |-> fs(i)], i)
  BY <1>2, DocOfRows
<1> HIDE DEF new
<1>4. \A i \in Items : DocIs(new[i], i)
  BY <1>1, <1>3
<1>5. DocsAre(new)
  BY <1>1, <1>4, DocsOfDocs
<1> QED  BY <1>5 DEF new

\* What is read.
LEMMA ReadDocsAre ==
  ASSUME DocsAre(docs)
  PROVE  TreesAre(ReadDocs)
<1> DEFINE rows == [i \in Items |-> [row |-> docs[i].own.row \cup docs[i].files.row,
                                     oos |-> docs[i].own.oos \cup docs[i].files.oos]]
           ks   == UNION {rows[i].row : i \in Items}
<1>1. ReadDocs = [keys |-> ks, rows |-> rows]
  BY DEF ReadDocs
<1>2. ASSUME NEW i \in Items PROVE rows[i] \in HeldRows(i)
  <2>1. docs[i].own \in HeldRows(i) /\ docs[i].files \in HeldRows(i)
    BY DEF DocsAre
  <2> QED  BY <2>1 DEF HeldRows
<1>3. rows \in [Items -> Kept]
  BY <1>2, HeldAreKept
<1>4. ks \in SUBSET Roots
  <2> SUFFICES ASSUME NEW i \in Items PROVE rows[i].row \subseteq Roots
    BY Zenon
  <2> HIDE DEF rows
  <2> QED  BY <1>3 DEF Kept
<1> HIDE DEF rows, ks
<1> QED  BY <1>1, <1>2, <1>3, <1>4 DEF TreesAre, Trees

\* What is loaded.
LEMMA LoadIs ==
  ASSUME DocsAre(docs), memory # None => TreesAre(memory)
  PROVE  LoadBaseline = None \/ TreesAre(LoadBaseline)
BY ReadDocsAre DEF LoadBaseline

\* What a prune leaves.
LEMMA PrunedAre ==
  ASSUME NEW t, TreesAre(t), NEW old, NEW new
  PROVE  TreesAre(Pruned(t, old, new))
<1> DEFINE lost == UNION {UnitTargets(old, u) \ UnitTargets(new, u) : u \in Units}
           gone(i) == lost \cup (old[i] \ new[i])
           rows == [i \in Items |-> [row |-> t.rows[i].row \ gone(i), oos |-> t.rows[i].oos \ gone(i)]]
           ks   == t.keys \ lost
<1>1. Pruned(t, old, new) = [keys |-> ks, rows |-> rows]
  BY DEF Pruned
<1>2. ASSUME NEW i \in Items PROVE rows[i] \in HeldRows(i)
  <2>1. t.rows[i] \in HeldRows(i)
    BY DEF TreesAre
  <2> HIDE DEF gone
  <2> QED  BY <2>1 DEF HeldRows
<1>3. rows \in [Items -> Kept]
  BY <1>2, HeldAreKept
<1>4. ks \in SUBSET Roots
  BY DEF TreesAre, Trees
<1> HIDE DEF rows, ks
<1> QED  BY <1>1, <1>2, <1>3, <1>4 DEF TreesAre, Trees

\* What a unit saves.
LEMMA UnitTreesAre ==
  ASSUME NEW lv, LiveIs(lv), NEW ks \in SUBSET Roots, NEW u
  PROVE  TreesAre(UnitTrees(u, lv, ks))
<1> DEFINE rows == [i \in Items |->
                      IF Owner[i] = u THEN [row |-> lv[i].row, oos |-> lv[i].oos \cap lv[i].row]
                      ELSE NoRows]
           own  == ks \cap ({u} \cup TargetsOf[u])
<1>1. UnitTrees(u, lv, ks) = [keys |-> own, rows |-> rows]
  BY DEF UnitTrees
<1>2. ASSUME NEW i \in Items PROVE rows[i] \in HeldRows(i)
  <2>1. lv[i].row \in SUBSET Places(i) /\ lv[i].oos \cap lv[i].row \in SUBSET TargetsOf[Owner[i]]
    BY DEF LiveIs
  <2>2. NoRows \in HeldRows(i)
    BY HeldAreKept
  <2> QED  BY <2>1, <2>2 DEF HeldRows
<1>3. rows \in [Items -> Kept]
  BY <1>2, HeldAreKept
<1> HIDE DEF rows
<1>4. own \in SUBSET Roots
  OBVIOUS
<1> HIDE DEF own
<1> QED  BY <1>1, <1>2, <1>3, <1>4 DEF TreesAre, Trees

-----------------------------------------------------------------------------
\* Items stay items

\* A record of an item.
LEMMA ItemOfIs ==
  ASSUME DiskIs(disk), NEW i \in Items, NEW lv,
         lv.row \in SUBSET Places(i), lv.seen \in SUBSET Places(i), lv.oos \in SUBSET TargetsOf[Owner[i]]
  PROVE  ItemOf(i, lv) \in Item(Places(i), Places(i), Owner[i])
<1>1. disk[i] \in SUBSET Places(i) /\ lv.oos \in SUBSET (Places(i) \ {Owner[i]})
  BY Geography DEF DiskIs
<1> QED  BY <1>1 DEF ItemOf, Item

\* What a unit remembers of an item.
LEMMA LiveOfIs ==
  ASSUME NEW ys, ItemsAre(ys)
  PROVE  LiveIs([i \in Items |-> LiveOf(ys[i])])
<1> DEFINE lv == [i \in Items |-> LiveOf(ys[i])]
<1>1. ASSUME NEW i \in Items
      PROVE  /\ lv[i].row = ys[i].row /\ lv[i].seen = ys[i].seen /\ lv[i].oos = ys[i].oos
             /\ ys[i].row \in SUBSET Places(i) /\ ys[i].seen \in SUBSET Places(i)
             /\ ys[i].oos \in SUBSET TargetsOf[Owner[i]]
             /\ lv[i] \in Live
  <2>1. ys[i] \in Item(Places(i), Places(i), Owner[i])
    BY DEF ItemsAre
  <2>2. /\ ys[i].row \in SUBSET Places(i) /\ ys[i].seen \in SUBSET Places(i)
        /\ ys[i].oos \in SUBSET (Places(i) \ {Owner[i]})
    BY <2>1 DEF Item
  <2>3. lv[i] = [row |-> ys[i].row, seen |-> ys[i].seen, oos |-> ys[i].oos]
    BY DEF LiveOf
  <2> HIDE DEF lv
  <2> QED  BY <2>2, <2>3, Geography DEF Live
<1>2. lv \in [Items -> Live]
  BY <1>1
<1>3. \A i \in Items : /\ lv[i].row \cup lv[i].seen \cup lv[i].oos \subseteq Places(i)
                       /\ lv[i].oos \subseteq TargetsOf[Owner[i]]
  <2> HIDE DEF lv
  <2>1. ASSUME NEW i \in Items
        PROVE  /\ lv[i].row \cup lv[i].seen \cup lv[i].oos \subseteq Places(i)
               /\ lv[i].oos \subseteq TargetsOf[Owner[i]]
    <3>1. lv[i].row = ys[i].row /\ lv[i].seen = ys[i].seen /\ lv[i].oos = ys[i].oos
      BY <1>1
    <3>2. TargetsOf[Owner[i]] \subseteq Places(i)
      BY Geography
    <3> QED  BY <1>1, <3>1, <3>2
  <2> QED  BY <2>1
<1> HIDE DEF lv
<1>4. LiveIs(lv)
  BY <1>2, <1>3 DEF LiveIs
<1> QED  BY <1>4 DEF lv

\* Where the items of a catch-up are.
LEMMA DisksAre ==
  ASSUME NEW ys, ItemsAre(ys)
  PROVE  DiskIs([i \in Items |-> ys[i].disk])
<1>1. ASSUME NEW i \in Items PROVE ys[i].disk \subseteq Places(i) /\ ys[i].disk \in SUBSET Roots
  <2>1. ys[i] \in Item(Places(i), Places(i), Owner[i])
    BY DEF ItemsAre
  <2> QED  BY <2>1, Geography DEF Item
<1> QED  BY <1>1 DEF DiskIs

\* The items a catch-up leaves.
LEMMA CaughtUpAre ==
  ASSUME DiskIs(disk), NEW m, MapIs(m), NEW t, t = None \/ TreesAre(t)
  PROVE  ItemsAre(CaughtUp(m, t))
<1> SUFFICES ASSUME NEW i \in Items
             PROVE  CaughtUp(m, t)[i] \in Item(Places(i), Places(i), Owner[i])
  BY DEF ItemsAre
<1>0. /\ m[i] \in SUBSET Places(i) /\ Owner[i] \in Places(i) /\ Places(i) \in SUBSET Places(i)
  BY Geography DEF MapIs
<1>o. Order \in Seq(Roots)
  BY OrderAssumption
<1>1. CASE t = None
  <2> DEFINE x == ItemOf(i, NotLive)
  <2>1. x \in Item(Places(i), Places(i), Owner[i])
    BY ItemOfIs DEF NotLive
  <2>2. Seed(x, Owner[i], m[i]) \in Item(Places(i), Places(i), Owner[i])
    <3> HIDE DEF x
    <3> QED  BY <1>0, <2>1, SeedType
  <2>3. CaughtUp(m, t)[i] = IF m[i] = {} THEN x ELSE Seed(x, Owner[i], m[i])
    BY <1>1 DEF CaughtUp
  <2> HIDE DEF x
  <2> QED  BY <2>1, <2>2, <2>3
<1>2. CASE t # None
  <2> DEFINE lv == FromTrees(t, i)
             x == ItemOf(i, lv)
             scanned == IF Owner[i] \in Present(m)
                        THEN {Owner[i]} \cup (UnitTargets(m, Owner[i]) \cap t.keys) ELSE {}
             less == [x EXCEPT !.row = @ \ (scanned \ disk[i])]
  <2>1. x \in Item(Places(i), Places(i), Owner[i])
    <3>1. t.rows[i] \in HeldRows(i)
      BY <1>2 DEF TreesAre
    <3>2. lv.row \in SUBSET Places(i) /\ lv.seen \in SUBSET Places(i)
          /\ lv.oos \in SUBSET TargetsOf[Owner[i]]
      BY <3>1 DEF FromTrees, HeldRows
    <3> HIDE DEF lv
    <3> QED  BY <3>2, ItemOfIs
  <2>2. CaughtUp(m, t)[i] = IF m[i] = {} THEN less ELSE CatchUpUpdate(x, Owner[i], m[i], m[i] \ t.keys)
    BY <1>2 DEF CaughtUp
  <2> HIDE DEF x, scanned
  <2>3. less \in Item(Places(i), Places(i), Owner[i])
    BY <2>1 DEF Item
  <2>4. CatchUpUpdate(x, Owner[i], m[i], m[i] \ t.keys) \in Item(Places(i), Places(i), Owner[i])
    BY <1>0, <1>o, <2>1, CatchUpType
  <2> HIDE DEF less
  <2> QED  BY <2>2, <2>3, <2>4
<1> QED  BY <1>1, <1>2

\* The trees it leaves.
LEMMA CaughtUpTreesAre ==
  ASSUME NEW m, MapIs(m), NEW t, t = None \/ TreesAre(t), NEW ys, ItemsAre(ys)
  PROVE  TreesAre(CaughtUpTrees(m, t, ys))
<1> DEFINE more(i) == IF m[i] = {} THEN {}
                      ELSE KeysOf(ItemOf(i, IF t = None THEN NotLive ELSE FromTrees(t, i)), ys[i], m, i)
           ks   == (IF t = None THEN {} ELSE t.keys) \cup UNION {more(i) : i \in Items}
           rows == [i \in Items |-> [row |-> ys[i].row, oos |-> ys[i].oos \cap ys[i].row]]
<1>1. CaughtUpTrees(m, t, ys) = [keys |-> ks, rows |-> rows]
  BY DEF CaughtUpTrees
<1>2. ASSUME NEW i \in Items PROVE rows[i] \in HeldRows(i)
  <2>1. ys[i] \in Item(Places(i), Places(i), Owner[i])
    BY DEF ItemsAre
  <2>2. ys[i].row \in SUBSET Places(i) /\ ys[i].oos \cap ys[i].row \in SUBSET TargetsOf[Owner[i]]
    BY <2>1, Geography DEF Item
  <2> QED  BY <2>2 DEF HeldRows
<1>3. rows \in [Items -> Kept]
  BY <1>2, HeldAreKept
<1> HIDE DEF rows
<1>4. ASSUME NEW i \in Items PROVE more(i) \subseteq Roots
  BY WatchedIs DEF KeysOf
<1> HIDE DEF more
<1>5. (IF t = None THEN {} ELSE t.keys) \subseteq Roots
  BY DEF TreesAre, Trees
<1>6. ks \in SUBSET Roots
  BY <1>4, <1>5
<1> HIDE DEF ks
<1> QED  BY <1>1, <1>2, <1>3, <1>6 DEF TreesAre, Trees

\* A catch-up leaves disks, documents and trees.
LEMMA CatchUpIs ==
  ASSUME DiskIs(disk), DocsAre(docs), memory # None => TreesAre(memory), NEW m, MapIs(m), CatchUp(m)
  PROVE  DiskIs(disk') /\ DocsAre(docs') /\ TreesAre(memory')
<1> DEFINE ys    == CaughtUp(m, LoadBaseline)
           trees == CaughtUpTrees(m, LoadBaseline, ys)
<1>1. LoadBaseline = None \/ TreesAre(LoadBaseline)
  BY LoadIs
<1>2. ItemsAre(ys)
  BY <1>1, CaughtUpAre
<1>3. /\ disk' = [i \in Items |-> ys[i].disk]
      /\ docs' = SavedDocs(disk', trees, m)
      /\ memory' = trees
  BY DEF CatchUp
<1> HIDE DEF ys
<1>4. TreesAre(trees)
  BY <1>1, <1>2, CaughtUpTreesAre
<1> HIDE DEF trees
<1>5. DiskIs(disk')
  BY <1>2, <1>3, DisksAre
<1>6. DocsAre(docs')
  BY <1>3, <1>4, SavedDocsAre
<1> QED  BY <1>3, <1>4, <1>5, <1>6

-----------------------------------------------------------------------------
\* The types, and what they need

\* The disks, the yaml file, the snapshot and the counters.
World ==
  /\ DiskIs(disk) /\ file \in Mappings /\ snapshot \in Mappings \cup {None}
  /\ writes \in Nat /\ edits \in Nat /\ faults \in Nat
  /\ erased \subseteq Items /\ clean \in BOOLEAN

\* The baseline on disk and in memory.
Stores == DocsAre(docs) /\ (memory # None => TreesAre(memory))

\* What the units remember.
Remembers == LiveIs(live) /\ keys \subseteq Roots /\ MapIs(watch)

\* The units, and the thread that starts or reloads.
UnitSets ==
  /\ running \subseteq Units /\ stopping \subseteq Units /\ unbuilt \subseteq Units
  /\ queued \subseteq running \cup stopping /\ running \cap stopping = {}
Thread ==
  /\ pc \in {"off", "serve", "retract", "prune", "drop", "units", "new",
             "wait", "direct", "catchup", "build"}
  /\ plan \in [old : Mapping, new : Mapping, reload : BOOLEAN]

\* Where the thread is, it says who runs, what is to do and what there is.  Units that
\* are to be caught up do not run and are not being stopped.
Phased ==
  /\ pc \in {"drop", "units", "direct", "new", "wait"} => plan.reload
  /\ pc \in {"off", "catchup", "serve"} => ~plan.reload
  /\ pc # "serve" /\ ~plan.reload => running = {} /\ stopping = {}
  /\ pc \in {"retract", "prune", "drop", "units", "direct"} => stopping = {}
  /\ pc = "direct" => running = {}
  /\ pc # "build" => unbuilt = {}
  /\ pc = "retract" => todo \subseteq Items \X Targets /\ plan.new \in Mappings
  /\ pc # "retract" => /\ todo \subseteq Units
                       /\ (todo \cup unbuilt) \cap (running \cup stopping) = {}
                       /\ todo \cap unbuilt = {}
  /\ pc \notin {"retract", "new"} /\ ~(pc = "build" /\ plan.reload) => todo = {}
  /\ pc \notin {"off", "catchup"} => snapshot \in Mappings

Built == pc = "build" => TreesAre(memory)

Control == UnitSets /\ Thread /\ Phased

Types == World /\ Stores /\ Remembers /\ Control /\ Built

\* They are what the type invariant says, and more.
LEMMA TypesImplyTypeOK == Types => TypeOK
<1> SUFFICES ASSUME Types PROVE TypeOK
  OBVIOUS
<1>1. /\ disk \in [Items -> SUBSET Roots] /\ \A i \in Items : disk[i] \subseteq Places(i)
      /\ file \in Mappings
      /\ snapshot \in Mappings \cup {None}
      /\ {writes, edits, faults} \subseteq Nat
      /\ erased \subseteq Items
      /\ clean \in BOOLEAN
  BY DEF Types, World, DiskIs
<1>2. /\ docs \in [Items -> [own : Kept, files : Kept]]
      /\ memory \in Trees \cup {None}
  BY DEF Types, Stores, DocsAre, TreesAre
<1>3. /\ live \in [Items -> Live]
      /\ \A i \in Items : live[i].row \cup live[i].seen \cup live[i].oos \subseteq Places(i)
      /\ keys \subseteq Roots
      /\ watch \in Mapping
  BY DEF Types, Remembers, LiveIs, MapIs
<1>4. /\ running \subseteq Units /\ stopping \subseteq Units /\ queued \subseteq Units
      /\ running \cap stopping = {} /\ queued \subseteq running \cup stopping /\ unbuilt \subseteq Units
  BY DEF Types, Control, UnitSets
<1>5. /\ pc \in {"off", "serve", "retract", "prune", "drop", "units", "new",
                 "wait", "direct", "catchup", "build"}
      /\ plan \in [old : Mapping, new : Mapping, reload : BOOLEAN]
      /\ todo \subseteq (Items \X Targets) \cup Units
  BY DEF Types, Control, Thread, Phased
<1> QED  BY <1>1, <1>2, <1>3, <1>4, <1>5 DEF TypeOK

\* No plan is a plan.
LEMMA NoPlanIs == NoPlan \in [old : Mapping, new : Mapping, reload : BOOLEAN] /\ ~NoPlan.reload
BY NoItemIs DEF NoPlan, MapIs

\* Nothing is remembered when nothing runs.
LEMMA NothingRemembered ==
  LiveIs([i \in Items |-> NotLive])
<1> DEFINE lv == [i \in Items |-> NotLive]
<1>1. \A i \in Items : lv[i] = NotLive
  OBVIOUS
<1>2. NotLive \in Live /\ NotLive.row = {} /\ NotLive.seen = {} /\ NotLive.oos = {}
  BY DEF NotLive, Live
<1>3. lv \in [Items -> Live]
  BY <1>2
<1> HIDE DEF lv
<1>4. LiveIs(lv)
  BY <1>1, <1>2, <1>3 DEF LiveIs
<1> QED  BY <1>4 DEF lv

\* At first.
LEMMA InitTypes == Init => Types
<1> SUFFICES ASSUME Init PROVE Types
  OBVIOUS
<1>1. World
  <2>1. disk = [i \in Items |-> {Owner[i]}]
    BY DEF Init
  <2>2. DiskIs(disk)
    BY <2>1, Geography DEF DiskIs
  <2> QED  BY <2>2, StructureAssumption DEF Init, World
<1>2. Stores
  <2>1. docs = [i \in Items |-> [own |-> NoRows, files |-> NoRows]] /\ memory = None
    BY DEF Init
  <2>2. \A i \in Items : DocIs([own |-> NoRows, files |-> NoRows], i)
    BY HeldAreKept, DocOfRows
  <2>3. \A i \in Items : DocIs(docs[i], i)
    BY <2>1, <2>2
  <2>4. docs = [i \in Items |-> docs[i]]
    BY <2>1
  <2> QED  BY <2>1, <2>3, <2>4, DocsOfDocs DEF Stores
<1>3. Remembers
  BY NothingRemembered, NoItemIs DEF Init, Remembers
<1>4. Control
  BY NoPlanIs DEF Init, Control, UnitSets, Thread, Phased
<1> QED  BY <1>1, <1>2, <1>3, <1>4 DEF Types, Built, Init

-----------------------------------------------------------------------------
\* Each step keeps the types

\* Users.
LEMMA WriteDiskTypes == ASSUME Types, WriteDisk PROVE Types'
<1>1. World'
  <2>1. PICK i \in Items : \E r \in Places(i) :
          \/ disk' = [disk EXCEPT ![i] = @ \ {r}] /\ erased' = erased \cup {i}
          \/ disk' = [disk EXCEPT ![i] = @ \cup {r}] /\ erased' = erased
    BY DEF WriteDisk
  <2>2. DiskIs(disk) /\ Places(i) \subseteq Roots /\ erased \subseteq Items
    BY Geography DEF Types, World
  <2>3. DiskIs(disk') /\ erased' \subseteq Items
    BY <2>1, <2>2 DEF DiskIs
  <2>4. /\ file' = file /\ snapshot' = snapshot /\ writes' = writes + 1 /\ edits' = edits
        /\ faults' = faults /\ clean' = clean
    BY DEF WriteDisk, stored
  <2> QED  BY <2>3, <2>4 DEF Types, World
<1>2. Stores' /\ Remembers'
  BY DEF Types, WriteDisk, stored, units, Stores, Remembers
<1>3. Control' /\ Built'
  BY DEF Types, WriteDisk, stored, units, ingest, Control, UnitSets, Thread, Phased, Built
<1> QED  BY <1>1, <1>2, <1>3 DEF Types

\* And of the yaml file.
LEMMA EditYamlTypes == ASSUME Types, EditYaml PROVE Types'
<1>1. World'
  BY DEF Types, World, EditYaml, stored, Control, Thread
<1>2. Stores' /\ Remembers'
  BY DEF Types, EditYaml, stored, units, Stores, Remembers
<1>3. Control' /\ Built'
  BY DEF Types, EditYaml, stored, units, ingest, Control, UnitSets, Thread, Phased, Built
<1> QED  BY <1>1, <1>2, <1>3 DEF Types

\* What a removal takes are copies at targets.
LEMMA RemovalsAre ==
  ASSUME NEW old, MapIs(old), NEW new
  PROVE  Removals(old, new) \subseteq Items \X Targets
<1> SUFFICES ASSUME NEW i \in Items PROVE {i} \X (old[i] \ new[i]) \subseteq Items \X Targets
  BY DEF Removals
<1>1. old[i] \subseteq Targets
  BY Geography DEF MapIs
<1> QED  BY <1>1

\* An ingest begins.
LEMMA IngestControl ==
  ASSUME Types, NEW reload \in BOOLEAN, Ingest(reload), UNCHANGED units, snapshot' = snapshot,
         snapshot \in Mappings, stopping = {}, unbuilt = {}, reload \/ running = {}
  PROVE  Control'
<1>1. MapIs(snapshot) /\ MapIs(file)
  BY MappingsAre DEF Types, World
<1>2. Removals(snapshot, file) \subseteq Items \X Targets
  BY <1>1, RemovalsAre
<1>3. /\ plan' = [old |-> snapshot, new |-> file, reload |-> reload]
      /\ todo' = Removals(snapshot, file)
      /\ pc' = "retract"
  BY DEF Ingest
<1>4. file \in Mappings /\ snapshot \in Mapping /\ file \in Mapping
  BY <1>1 DEF Types, World, MapIs
<1>5. UnitSets'
  BY DEF Types, Control, units, UnitSets
<1>6. Thread'
  BY <1>3, <1>4 DEF Thread
<1>7. plan'.reload = reload /\ plan'.new = file
  BY <1>3
<1>8. Phased'
  BY <1>2, <1>3, <1>4, <1>7 DEF units, Phased
<1> QED  BY <1>5, <1>6, <1>8 DEF Control

\* A start.
LEMMA StartTypes == ASSUME Types, Start PROVE Types'
<1>1. World' /\ Stores' /\ Remembers'
  BY DEF Types, Start, world, stored, units, World, Stores, Remembers
<1>2. pc = "off" /\ unbuilt = {} /\ running = {} /\ stopping = {} /\ ~plan.reload
  BY DEF Start, Types, Control, Phased
<1>3. UNCHANGED units /\ snapshot' = snapshot /\ memory' = memory
  BY DEF Start, stored
<1>4. CASE snapshot = None \/ snapshot = file
  <2>1. pc' = "catchup" /\ UNCHANGED <<plan, todo>>
    BY <1>4 DEF Start
  <2>2. Control'
    BY <1>2, <1>3, <2>1 DEF Types, units, Control, UnitSets, Thread, Phased
  <2> QED  BY <1>1, <2>1, <2>2 DEF Types, Built
<1>5. CASE ~(snapshot = None \/ snapshot = file)
  <2>1. Ingest(FALSE) /\ snapshot \in Mappings
    BY <1>5 DEF Start, Types, World
  <2>2. Control'
    BY <1>2, <1>3, <2>1, IngestControl
  <2> QED  BY <1>1, <2>1, <2>2 DEF Types, Built, Ingest
<1> QED  BY <1>4, <1>5

\* A reload.
LEMMA RequestReloadTypes == ASSUME Types, RequestReload PROVE Types'
<1>1. World' /\ Stores' /\ Remembers'
  BY DEF Types, RequestReload, world, stored, units, World, Stores, Remembers
<1>2. pc = "serve" /\ unbuilt = {} /\ stopping = {} /\ snapshot \in Mappings
  BY DEF RequestReload, Types, Control, Phased
<1>3. UNCHANGED units /\ snapshot' = snapshot /\ Ingest(TRUE)
  BY DEF RequestReload, stored
<1>4. Control'
  BY <1>2, <1>3, IngestControl
<1> QED  BY <1>1, <1>3, <1>4 DEF Types, Built, Ingest

\* A copy is retracted.
LEMMA RetractTypes == ASSUME Types, Retract PROVE Types'
<1>0. pc = "retract" /\ todo \subseteq Items \X Targets
  BY DEF Retract, Types, Control, Phased
<1>1. PICK p \in todo :
       /\ disk' = [disk EXCEPT ![p[1]] = @ \ {p[2]}]
       /\ todo' = todo \ {p}
  BY DEF Retract
<1>2. World'
  <2>1. p[1] \in Items
    BY <1>0
  <2>2. DiskIs(disk')
    BY <1>1, <2>1 DEF Types, World, DiskIs
  <2>3. /\ file' = file /\ snapshot' = snapshot /\ writes' = writes /\ edits' = edits
        /\ faults' = faults /\ erased' = erased /\ clean' = clean
    BY DEF Retract, stored
  <2> QED  BY <2>2, <2>3 DEF Types, World
<1>3. Stores' /\ Remembers' /\ Built'
  BY DEF Types, Retract, stored, units, Stores, Remembers, Built
<1>4. Control'
  <2>1. UNCHANGED <<units, pc, plan, snapshot>> /\ todo' \subseteq todo
    BY <1>1 DEF Retract, stored
  <2> QED  BY <1>0, <2>1 DEF Types, units, Control, UnitSets, Thread, Phased
<1> QED  BY <1>2, <1>3, <1>4 DEF Types

\* The snapshot is committed.
LEMMA SaveSnapshotTypes == ASSUME Types, SaveSnapshot PROVE Types'
<1>1. /\ pc = "retract" /\ todo = {} /\ snapshot' = plan.new /\ pc' = "prune"
      /\ UNCHANGED <<world, docs, memory, units, plan, todo, faults, erased, clean>>
  BY DEF SaveSnapshot
<1>2. plan.new \in Mappings /\ stopping = {} /\ unbuilt = {}
  BY <1>1 DEF Types, Control, Phased
<1>3. World' /\ Stores' /\ Remembers' /\ Built'
  BY <1>1, <1>2 DEF Types, world, units, World, Stores, Remembers, Built
<1>4. Control'
  BY <1>1, <1>2 DEF Types, units, Control, UnitSets, Thread, Phased
<1> QED  BY <1>3, <1>4 DEF Types

\* The baseline is pruned.
LEMMA PersistPrunedTypes == ASSUME Types, PersistPruned PROVE Types'
<1> DEFINE trees == LoadBaseline
           kept  == Pruned(trees, plan.old, plan.new)
<1>1. /\ pc = "prune" /\ pc' = IF plan.reload THEN "drop" ELSE "catchup"
      /\ UNCHANGED <<world, snapshot, units, plan, todo, faults, erased, clean>>
  BY DEF PersistPruned
<1>2. World' /\ Remembers' /\ Built'
  BY <1>1 DEF Types, world, units, World, Remembers, Built
<1>3. Control'
  BY <1>1 DEF Types, units, Control, UnitSets, Thread, Phased
<1>4. Stores'
  <2>1. Stores
    BY DEF Types
  <2>2. CASE UNCHANGED <<docs, memory>>
    BY <2>1, <2>2 DEF Stores
  <2>3. CASE ~UNCHANGED <<docs, memory>>
    <3>1. /\ trees # None /\ docs' = SavedDocs(disk, kept, plan.old)
          /\ memory' = IF plan.reload THEN kept ELSE None
      BY <2>3 DEF PersistPruned
    <3>2. TreesAre(trees)
      BY <2>1, <3>1, LoadIs DEF Stores
    <3> HIDE DEF trees
    <3>3. TreesAre(kept)
      BY <3>2, PrunedAre
    <3> HIDE DEF kept
    <3>4. DocsAre(docs')
      BY <2>1, <3>1, <3>3, SavedDocsAre DEF Stores
    <3> QED  BY <3>1, <3>3, <3>4 DEF Stores
  <2> QED  BY <2>2, <2>3
<1> QED  BY <1>2, <1>3, <1>4 DEF Types

\* Documents of projects that are mapped no more are dropped.
LEMMA DropDocsTypes == ASSUME Types, DropDocs PROVE Types'
<1>1. /\ pc = "drop" /\ pc' = "units"
      /\ UNCHANGED <<world, snapshot, memory, units, plan, todo, faults, erased, clean>>
      /\ docs' = [i \in Items |-> IF Owner[i] \in Present(plan.new) THEN docs[i]
                                  ELSE [own |-> NoRows, files |-> NoRows]]
  BY DEF DropDocs
<1>2. World' /\ Remembers' /\ Built'
  BY <1>1 DEF Types, world, units, World, Remembers, Built
<1>3. Control'
  BY <1>1 DEF Types, units, Control, UnitSets, Thread, Phased
<1>4. Stores'
  <2>1. DocsAre(docs) /\ (memory # None => TreesAre(memory))
    BY DEF Types, Stores
  <2>2. ASSUME NEW i \in Items PROVE DocIs(docs'[i], i)
    <3>1. DocIs(docs[i], i)
      BY <2>1 DEF DocsAre, DocIs
    <3>2. DocIs([own |-> NoRows, files |-> NoRows], i)
      BY HeldAreKept, DocOfRows
    <3> QED  BY <1>1, <3>1, <3>2
  <2>3. docs' = [i \in Items |-> docs'[i]]
    BY <1>1
  <2>4. DocsAre(docs')
    BY <2>2, <2>3, DocsOfDocs
  <2> QED  BY <1>1, <2>1, <2>4 DEF Stores
<1> QED  BY <1>2, <1>3, <1>4 DEF Types

\* A start catches up.
LEMMA StartCatchUpTypes == ASSUME Types, StartCatchUp PROVE Types'
<1> DEFINE m == IF snapshot = None THEN file ELSE snapshot
<1>1. /\ pc = "catchup" /\ pc' = "build" /\ plan' = NoPlan
      /\ CatchUp(m) /\ snapshot' = m /\ watch' = m /\ unbuilt' = Present(m)
      /\ UNCHANGED <<file, writes, edits, live, keys, running, stopping, queued, todo,
                     faults, erased, clean>>
  BY DEF StartCatchUp
<1>2. m \in Mappings
  BY DEF Types, World
<1> HIDE DEF m
<1>3. MapIs(m)
  BY <1>2, MappingsAre
<1>4. DiskIs(disk') /\ DocsAre(docs') /\ TreesAre(memory')
  BY <1>1, <1>3, CatchUpIs DEF Types, World, Stores
<1>5. World'
  BY <1>1, <1>2, <1>4 DEF Types, World
<1>6. Stores' /\ Built'
  BY <1>4 DEF Stores, Built
<1>7. Remembers'
  BY <1>1, <1>3 DEF Types, Remembers
<1>8. Control'
  <2>1. Present(m) \subseteq Units
    BY Geography DEF Present
  <2>2. todo = {} /\ running = {} /\ stopping = {}
    BY <1>1 DEF Types, Control, Phased
  <2> QED  BY <1>1, <1>2, <2>1, <2>2, NoPlanIs DEF Types, Control, UnitSets, Thread, Phased
<1> QED  BY <1>5, <1>6, <1>7, <1>8 DEF Types

\* Observers of units that caught up are built.
LEMMA BuildUnitsTypes == ASSUME Types, BuildUnits PROVE Types'
<1> DEFINE kept(i) == memory.rows[i].row \cap UnitRoots(watch, Owner[i])
           new(i)  == [row |-> kept(i), seen |-> disk[i] \cap Watched(watch, i),
                       oos |-> memory.rows[i].oos \cap kept(i)]
<1>1. /\ pc = "build"
      /\ live' = [i \in Items |-> IF Owner[i] \notin unbuilt THEN live[i] ELSE new(i)]
      /\ keys' = keys \cup (memory.keys \cap UNION {UnitRoots(watch, u) : u \in unbuilt})
      /\ running' = running \cup unbuilt
      /\ unbuilt' = {}
      /\ pc' = IF plan.reload THEN "new" ELSE "serve"
      /\ UNCHANGED <<world, stored, memory, watch, stopping, queued, plan, todo, faults,
                     erased, clean>>
  BY DEF BuildUnits
<1>2. World' /\ Stores' /\ Built'
  BY <1>1 DEF Types, world, stored, World, Stores, Built
<1>3. TreesAre(memory) /\ DiskIs(disk) /\ LiveIs(live) /\ MapIs(watch)
  BY <1>1 DEF Types, Built, World, Remembers
<1>4. ASSUME NEW i \in Items
      PROVE  /\ live'[i] \in Live /\ live'[i].row \cup live'[i].seen \cup live'[i].oos \subseteq Places(i)
             /\ live'[i].oos \subseteq TargetsOf[Owner[i]]
  <2>1. Places(i) \subseteq Roots /\ TargetsOf[Owner[i]] \subseteq Places(i)
    BY Geography
  <2>2. CASE Owner[i] \notin unbuilt
    <3>1. live'[i] = live[i]
      BY <1>1, <2>2
    <3> QED  BY <1>3, <3>1 DEF LiveIs
  <2>3. CASE Owner[i] \in unbuilt
    <3>1. kept(i) \subseteq Places(i)
      BY <1>3, UnitRootsAre
    <3>2. memory.rows[i].oos \subseteq TargetsOf[Owner[i]]
      BY <1>3 DEF TreesAre, HeldRows
    <3>3. disk[i] \subseteq Places(i)
      BY <1>3 DEF DiskIs
    <3>4. live'[i] = new(i)
      BY <1>1, <2>3
    <3> HIDE DEF kept
    <3>5. /\ live'[i].row = kept(i) /\ live'[i].seen = disk[i] \cap Watched(watch, i)
          /\ live'[i].oos = memory.rows[i].oos \cap kept(i)
      BY <3>4
    <3> QED  BY <2>1, <3>1, <3>2, <3>3, <3>4, <3>5 DEF Live
  <2> QED  BY <2>2, <2>3
<1> HIDE DEF new, kept
<1>5. live' \in [Items -> Live]
  <2>1. live' = [i \in Items |-> live'[i]]
    BY <1>1
  <2> QED  BY <1>4, <2>1
<1>6. Remembers'
  <2>1. LiveIs(live')
    BY <1>4, <1>5 DEF LiveIs
  <2>2. keys' \subseteq Roots
    BY <1>1, <1>3 DEF Types, Remembers, TreesAre, Trees
  <2> QED  BY <1>1, <1>3, <2>1, <2>2 DEF Remembers
<1>7. Control'
  <2>1. UnitSets'
    BY <1>1 DEF Types, Control, UnitSets, Phased
  <2>2. Thread'
    BY <1>1 DEF Types, Control, Thread
  <2>3. Phased'
    BY <1>1 DEF Types, Control, UnitSets, Thread, Phased, stored
  <2> QED  BY <2>1, <2>2, <2>3 DEF Control
<1> QED  BY <1>2, <1>6, <1>7 DEF Types

\* Units are stopped, told to catch up or listed.
LEMMA ReloadUnitsTypes == ASSUME Types, ReloadUnits PROVE Types'
<1>1. pc = "units" /\ UNCHANGED <<world, stored, memory, live, keys, watch, unbuilt, plan, faults, erased, clean>>
  BY DEF ReloadUnits
<1>2. World' /\ Stores' /\ Remembers'
  BY <1>1 DEF Types, world, stored, World, Stores, Remembers
<1>3. stopping = {} /\ unbuilt = {} /\ todo = {} /\ plan.reload /\ snapshot \in Mappings
  BY <1>1 DEF Types, Control, Phased
<1>4. CASE running = {}
  <2>1. pc' = "direct" /\ UNCHANGED <<running, stopping, queued, todo>>
    BY <1>4 DEF ReloadUnits
  <2>2. UnitSets' /\ Thread'
    BY <1>1, <2>1 DEF Types, Control, UnitSets, Thread
  <2>3. Phased'
    BY <1>1, <1>3, <1>4, <2>1 DEF stored, Phased
  <2> QED  BY <1>2, <2>1, <2>2, <2>3 DEF Types, Control, Built
<1>5. CASE running # {}
  <2> DEFINE present == Present(snapshot)
             changed == Affected(plan.old, plan.new) \cap present
  <2>1. /\ stopping' = stopping \cup (running \ present)
        /\ running' = running \cap present
        /\ queued' = queued \cup (changed \cap running)
        /\ todo' = changed \ running
        /\ pc' = "new"
    BY <1>5 DEF ReloadUnits
  <2>2. present \subseteq Units
    BY Geography DEF Present
  <2>3. changed \subseteq present
    OBVIOUS
  <2> HIDE DEF present, changed
  <2>4. UnitSets'
    BY <1>1, <2>1, <2>2, <2>3 DEF Types, Control, UnitSets
  <2>5. Thread'
    BY <1>1, <2>1 DEF Types, Control, Thread
  <2>6. Phased'
    BY <1>1, <1>3, <2>1, <2>2, <2>3 DEF Phased, stored
  <2> QED  BY <1>2, <2>1, <2>4, <2>5, <2>6 DEF Types, Control, Built
<1> QED  BY <1>4, <1>5

\* A new unit is caught up.
LEMMA NewUnitTypes == ASSUME Types, NewUnit PROVE Types'
<1>1. pc = "new" /\ pc' = "build"
      /\ UNCHANGED <<file, writes, edits, snapshot, live, keys, running, stopping, queued, plan,
                     faults, erased, clean>>
  BY DEF NewUnit
<1>2. PICK u \in todo :
       /\ CatchUp(Only(snapshot, {u}))
       /\ watch' = [i \in Items |-> IF Owner[i] = u THEN snapshot[i] ELSE watch[i]]
       /\ unbuilt' = {u}
       /\ todo' = todo \ {u}
  BY DEF NewUnit
<1>3. /\ snapshot \in Mappings /\ plan.reload /\ u \in Units /\ unbuilt = {}
      /\ todo \subseteq Units /\ todo \cap (running \cup stopping) = {}
  BY <1>1, <1>2 DEF Types, Control, Phased
<1>4. MapIs(snapshot) /\ MapIs(Only(snapshot, {u}))
  BY <1>3, MappingsAre, OnlyIs
<1>5. DiskIs(disk') /\ DocsAre(docs') /\ TreesAre(memory')
  BY <1>2, <1>4, CatchUpIs DEF Types, World, Stores
<1>6. World'
  BY <1>1, <1>5 DEF Types, World
<1>7. Stores' /\ Built'
  BY <1>5 DEF Stores, Built
<1>8. Remembers'
  <2>1. MapIs(watch')
    BY <1>2, <1>4 DEF Types, Remembers, MapIs, Mapping
  <2> QED  BY <1>1, <2>1 DEF Types, Remembers
<1>9. Control'
  <2>1. UnitSets' /\ Thread'
    BY <1>1, <1>2, <1>3 DEF Types, Control, UnitSets, Thread
  <2>2. Phased'
    BY <1>1, <1>2, <1>3 DEF Phased
  <2> QED  BY <2>1, <2>2 DEF Control
<1> QED  BY <1>6, <1>7, <1>8, <1>9 DEF Types

\* Steps of the thread that change nothing but where it is and what it has to do.
LEMMA ThreadTypes ==
  ASSUME Types, NewUnitFails \/ ReloadWaits \/ ReloadDone
  PROVE  Types'
<1>0. /\ UNCHANGED <<world, stored, memory, units, erased>>
      /\ faults' \in {faults, faults + 1} /\ clean' \in {clean, FALSE}
      /\ pc' \in {"serve", "wait"}
  BY DEF NewUnitFails, ReloadWaits, ReloadDone
<1>1. World' /\ Stores' /\ Remembers' /\ Built'
  <2>1. World'
    <3>1. faults' \in Nat
      BY <1>0 DEF Types, World
    <3>2. clean' \in BOOLEAN
      BY <1>0 DEF Types, World
    <3> QED  BY <1>0, <3>1, <3>2 DEF Types, world, stored, World
  <2> QED  BY <1>0, <2>1 DEF Types, stored, units, Stores, Remembers, Built
<1>2. Control'
  BY NoPlanIs DEF Types, NewUnitFails, ReloadWaits, ReloadDone, stored, units, Control, UnitSets, Thread,
         Phased
<1> QED  BY <1>1, <1>2 DEF Types

\* A reload without a unit that runs.
LEMMA DirectReloadTypes == ASSUME Types, DirectReload PROVE Types'
<1> DEFINE m == Only(file, Affected(plan.old, plan.new))
<1>1. /\ pc = "direct" /\ pc' = "serve" /\ plan' = NoPlan
      /\ UNCHANGED <<file, writes, edits, snapshot, units, todo, faults, erased>>
      /\ \/ UNCHANGED <<disk, docs, memory, clean>>
         \/ CatchUp(m) /\ clean' = FALSE
  BY DEF DirectReload
<1>2. MapIs(m)
  BY MappingsAre, OnlyIs DEF Types, World
<1> HIDE DEF m
<1>3. DiskIs(disk') /\ DocsAre(docs') /\ (memory' # None => TreesAre(memory')) /\ clean' \in BOOLEAN
  <2>1. CASE UNCHANGED <<disk, docs, memory, clean>>
    BY <2>1 DEF Types, World, Stores
  <2>2. CASE CatchUp(m) /\ clean' = FALSE
    <3>1. DiskIs(disk') /\ DocsAre(docs') /\ TreesAre(memory')
      BY <1>2, <2>2, CatchUpIs DEF Types, World, Stores
    <3> QED  BY <2>2, <3>1
  <2> QED  BY <1>1, <2>1, <2>2
<1>4. World' /\ Stores'
  BY <1>1, <1>3 DEF Types, World, Stores
<1>5. Remembers' /\ Built'
  BY <1>1 DEF Types, units, Remembers, Built
<1>6. Control'
  BY <1>1, NoPlanIs DEF Types, units, Control, UnitSets, Thread, Phased
<1> QED  BY <1>4, <1>5, <1>6 DEF Types

-----------------------------------------------------------------------------
\* A unit's thread keeps them

\* The items of a unit become others.
LEMMA UnitBecomesIs ==
  ASSUME DiskIs(disk), LiveIs(live), NEW ys, ItemsAre(ys), NEW u, NEW ks, UnitBecomes(u, ys, ks)
  PROVE  DiskIs(disk') /\ LiveIs(live')
<1> DEFINE d == [i \in Items |-> ys[i].disk]
           l == [i \in Items |-> LiveOf(ys[i])]
<1>1. DiskIs(d) /\ LiveIs(l)
  BY DisksAre, LiveOfIs
<1>2. /\ disk' = [i \in Items |-> IF Owner[i] = u THEN d[i] ELSE disk[i]]
      /\ live' = [i \in Items |-> IF Owner[i] = u THEN l[i] ELSE live[i]]
  BY DEF UnitBecomes
<1> HIDE DEF d, l
<1>3. DiskIs(disk')
  BY <1>1, <1>2 DEF DiskIs
<1>4. LiveIs(live')
  BY <1>1, <1>2 DEF LiveIs
<1> QED  BY <1>3, <1>4

\* What a unit saves after that.
LEMMA UnitSaves ==
  ASSUME DocsAre(docs), LiveIs(live'), keys' \in SUBSET Roots, NEW u, NEW m,
         docs' = SavedDocs(disk', UnitTrees(u, live', keys'), m),
         memory' = UnitTrees(u, live', keys')
  PROVE  DocsAre(docs') /\ TreesAre(memory')
<1> DEFINE lv == live'
           ks == keys'
           t  == UnitTrees(u, lv, ks)
<1>1. LiveIs(lv) /\ ks \in SUBSET Roots
  BY DEF LiveIs
<1>2. docs' = SavedDocs(disk', t, m) /\ memory' = t
  OBVIOUS
<1> HIDE DEF lv, ks
<1>3. TreesAre(t)
  BY <1>1, UnitTreesAre
<1> HIDE DEF t
<1>4. DocsAre(SavedDocs(disk', t, m))
  BY <1>3, SavedDocsAre
<1> QED  BY <1>2, <1>3, <1>4

\* The record of an item whose unit runs.
LEMMA LiveItemIs ==
  ASSUME DiskIs(disk), LiveIs(live), NEW i \in Items
  PROVE  ItemOf(i, live[i]) \in Item(Places(i), Places(i), Owner[i])
<1>1. /\ live[i].row \in SUBSET Places(i) /\ live[i].seen \in SUBSET Places(i)
      /\ live[i].oos \in SUBSET TargetsOf[Owner[i]]
  BY DEF LiveIs
<1> QED  BY <1>1, ItemOfIs

\* A catch-up job of a reload.
LEMMA CatchUpJobTypes == ASSUME Types, NEW u \in Units, CatchUpJob(u) PROVE Types'
<1> DEFINE m     == Only(file, {u})
           x(i)  == Prune(ItemOf(i, live[i]), Watched(m, i))
           ks    == keys \ (({u} \cup TargetsOf[u]) \ UnitRoots(m, u))
           ys    == [i \in Items |-> IF m[i] = {} THEN x(i)
                                     ELSE CatchUpUpdate(x(i), u, m[i], m[i] \ ks)]
           after == ks \cup UNION {KeysOf(x(i), ys[i], m, i) : i \in UnitItems(u)}
<1>1. /\ u \in queued /\ queued' = queued \ {u}
      /\ UNCHANGED <<file, writes, edits, snapshot, running, stopping, unbuilt, ingest,
                     faults, erased, clean>>
      /\ \/ UNCHANGED <<disk, docs, memory, live, keys, watch>>
         \/ /\ UnitBecomes(u, ys, after)
            /\ watch' = [i \in Items |-> IF Owner[i] = u THEN file[i] ELSE watch[i]]
            /\ docs' = SavedDocs(disk', UnitTrees(u, live', keys'), m)
            /\ memory' = UnitTrees(u, live', keys')
  BY DEF CatchUpJob
<1>2. Control'
  BY <1>1 DEF Types, ingest, Control, UnitSets, Thread, Phased
<1>3. CASE UNCHANGED <<disk, docs, memory, live, keys, watch>>
  <2>1. World' /\ Stores' /\ Remembers' /\ Built'
    BY <1>1, <1>3 DEF Types, ingest, World, Stores, Remembers, Built
  <2> QED  BY <1>2, <2>1 DEF Types
<1>4. CASE /\ UnitBecomes(u, ys, after)
           /\ watch' = [i \in Items |-> IF Owner[i] = u THEN file[i] ELSE watch[i]]
           /\ docs' = SavedDocs(disk', UnitTrees(u, live', keys'), m)
           /\ memory' = UnitTrees(u, live', keys')
  <2>0. DiskIs(disk) /\ DocsAre(docs) /\ LiveIs(live) /\ keys \subseteq Roots /\ MapIs(watch) /\ MapIs(file)
    BY MappingsAre DEF Types, World, Stores, Remembers
  <2>1. MapIs(m)
    BY <2>0, OnlyIs
  <2> HIDE DEF m
  <2>2. ASSUME NEW i \in Items PROVE x(i) \in Item(Places(i), Places(i), Owner[i])
    BY <2>0, LiveItemIs, PruneType
  <2> HIDE DEF x
  <2>3. \A i \in Items : m[i] # {} => Owner[i] = u
    BY DEF m, Only
  <2>4. ItemsAre(ys)
    <3>1. ASSUME NEW i \in Items PROVE ys[i] \in Item(Places(i), Places(i), Owner[i])
      <4>1. CASE m[i] = {}
        BY <2>2, <4>1
      <4>2. CASE m[i] # {}
        <5>1. m[i] \in SUBSET Places(i) /\ Owner[i] \in Places(i) /\ Places(i) \in SUBSET Places(i)
          BY <2>1, Geography DEF MapIs
        <5>2. Order \in Seq(Roots)
          BY OrderAssumption
        <5>3. CatchUpUpdate(x(i), Owner[i], m[i], m[i] \ ks) \in Item(Places(i), Places(i), Owner[i])
          BY <2>2, <5>1, <5>2, CatchUpType
        <5> QED  BY <2>3, <4>2, <5>3
      <4> QED  BY <4>1, <4>2
    <3> HIDE DEF ys
    <3> QED  BY <3>1 DEF ItemsAre
  <2> HIDE DEF ys
  <2>5. ks \subseteq Roots
    BY <2>0
  <2> HIDE DEF ks
  <2>6. after \in SUBSET Roots
    <3>1. ASSUME NEW i \in UnitItems(u) PROVE KeysOf(x(i), ys[i], m, i) \subseteq Roots
      BY <2>1, <3>1, WatchedIs DEF KeysOf, UnitItems
    <3> QED  BY <2>5, <3>1
  <2> HIDE DEF after
  <2>7. DiskIs(disk') /\ LiveIs(live')
    BY <1>4, <2>0, <2>4, UnitBecomesIs
  <2>8. keys' \in SUBSET Roots
    BY <1>4, <2>6 DEF UnitBecomes
  <2>9. DocsAre(docs') /\ TreesAre(memory')
    BY <1>4, <2>0, <2>7, <2>8, UnitSaves
  <2>10. MapIs(watch')
    BY <1>4, <2>0 DEF MapIs, Mapping
  <2>11. World'
    BY <1>1, <2>7 DEF Types, World
  <2>12. Stores' /\ Remembers' /\ Built'
    BY <2>7, <2>8, <2>9, <2>10 DEF Stores, Remembers, Built
  <2> QED  BY <1>2, <2>11, <2>12 DEF Types
<1> QED  BY <1>1, <1>3, <1>4

\* A tick.
LEMMA IdleTypes == ASSUME Types, NEW u \in Units, Idle(u) PROVE Types'
<1> DEFINE x(i)  == ItemOf(i, live[i])
           ys    == [i \in Items |-> IF Owner[i] = u THEN Tick(x(i), u, Watched(watch, i)) ELSE x(i)]
           after == keys \cup UNION {KeysOf(x(i), ys[i], watch, i) : i \in UnitItems(u)}
<1>1. /\ UnitBecomes(u, ys, after)
      /\ \/ UNCHANGED <<docs, memory>>
         \/ /\ docs' = SavedDocs(disk', UnitTrees(u, live', keys'), Only(watch, {u}))
            /\ memory' = UnitTrees(u, live', keys')
      /\ erased' \subseteq erased
      /\ UNCHANGED <<file, writes, edits, snapshot, watch, running, stopping, queued, unbuilt,
                     ingest, faults, clean>>
  BY DEF Idle
<1>2. Control'
  BY <1>1 DEF Types, ingest, Control, UnitSets, Thread, Phased
<1>3. DiskIs(disk) /\ DocsAre(docs) /\ LiveIs(live) /\ keys \subseteq Roots /\ MapIs(watch)
  BY DEF Types, World, Stores, Remembers
<1>4. ASSUME NEW i \in Items PROVE x(i) \in Item(Places(i), Places(i), Owner[i])
  BY <1>3, LiveItemIs
<1> HIDE DEF x
<1>5. ItemsAre(ys)
  <2>1. ASSUME NEW i \in Items PROVE ys[i] \in Item(Places(i), Places(i), Owner[i])
    <3>1. Watched(watch, i) \in SUBSET Places(i)
      BY <1>3, WatchedIs
    <3>2. Order \in Seq(Roots)
      BY OrderAssumption
    <3>3. Owner[i] \in Places(i) /\ Places(i) \in SUBSET Places(i)
      BY Geography
    <3>4. Tick(x(i), Owner[i], Watched(watch, i)) \in Item(Places(i), Places(i), Owner[i])
      BY <1>4, <3>1, <3>2, <3>3, TickType
    <3> QED  BY <1>4, <3>4
  <2> HIDE DEF ys
  <2> QED  BY <2>1 DEF ItemsAre
<1> HIDE DEF ys
<1>6. after \in SUBSET Roots
  <2>1. ASSUME NEW i \in UnitItems(u) PROVE KeysOf(x(i), ys[i], watch, i) \subseteq Roots
    BY <1>3, <2>1, WatchedIs DEF KeysOf, UnitItems
  <2> QED  BY <1>3, <2>1
<1> HIDE DEF after
<1>7. DiskIs(disk') /\ LiveIs(live')
  BY <1>1, <1>3, <1>5, UnitBecomesIs
<1>8. keys' \in SUBSET Roots
  BY <1>1, <1>6 DEF UnitBecomes
<1>9. World' /\ Remembers'
  BY <1>1, <1>3, <1>7, <1>8 DEF Types, World, Remembers
<1>10. Stores' /\ Built'
  <2>1. CASE UNCHANGED <<docs, memory>>
    BY <1>1, <2>1 DEF Types, ingest, Stores, Built
  <2>2. CASE /\ docs' = SavedDocs(disk', UnitTrees(u, live', keys'), Only(watch, {u}))
             /\ memory' = UnitTrees(u, live', keys')
    <3>1. DocsAre(docs') /\ TreesAre(memory')
      BY <1>3, <1>7, <1>8, <2>2, UnitSaves
    <3> QED  BY <3>1 DEF Stores, Built
  <2> QED  BY <1>1, <2>1, <2>2
<1> QED  BY <1>2, <1>9, <1>10 DEF Types

\* The end of a thread.
LEMMA ExitTypes == ASSUME Types, NEW u \in Units, Exit(u) PROVE Types'
<1>1. /\ u \notin queued /\ stopping' = stopping \ {u}
      /\ live' = [i \in Items |-> IF Owner[i] = u THEN NotLive ELSE live[i]]
      /\ keys' = keys \ ({u} \cup TargetsOf[u])
      /\ watch' = [i \in Items |-> IF Owner[i] = u THEN {} ELSE watch[i]]
      /\ UNCHANGED <<world, stored, memory, running, queued, unbuilt, ingest, faults, erased, clean>>
  BY DEF Exit
<1>2. World' /\ Stores' /\ Built'
  BY <1>1 DEF Types, world, stored, ingest, World, Stores, Built
<1>3. Control'
  BY <1>1 DEF Types, stored, ingest, Control, UnitSets, Thread, Phased
<1>4. Remembers'
  <2> DEFINE nothing == [i \in Items |-> NotLive]
  <2>1. LiveIs(nothing) /\ LiveIs(live)
    BY NothingRemembered DEF Types, Remembers
  <2>2. live' = [i \in Items |-> IF Owner[i] = u THEN nothing[i] ELSE live[i]]
    BY <1>1
  <2> HIDE DEF nothing
  <2>3. LiveIs(live')
    BY <2>1, <2>2 DEF LiveIs
  <2>4. MapIs(watch')
    BY <1>1 DEF Types, Remembers, MapIs, Mapping
  <2> QED  BY <1>1, <2>3, <2>4 DEF Types, Remembers
<1> QED  BY <1>2, <1>3, <1>4 DEF Types

\* The end of the process.
LEMMA CrashTypes == ASSUME Types, Crash PROVE Types'
<1>1. /\ faults' = faults + 1 /\ memory' = None
      /\ live' = [i \in Items |-> NotLive] /\ keys' = {} /\ watch' = NoItem
      /\ running' = {} /\ stopping' = {} /\ queued' = {} /\ unbuilt' = {}
      /\ pc' = "off" /\ plan' = NoPlan /\ todo' = {}
      /\ clean' = TRUE
      /\ UNCHANGED <<world, stored, erased>>
  BY DEF Crash
<1>2. World' /\ Stores' /\ Built'
  BY <1>1 DEF Types, world, stored, World, Stores, Built
<1>3. Remembers'
  BY <1>1, NothingRemembered, NoItemIs DEF Remembers
<1>4. Control'
  BY <1>1, NoPlanIs DEF Control, UnitSets, Thread, Phased
<1> QED  BY <1>2, <1>3, <1>4 DEF Types

\* Every step.
LEMMA NextTypes == Types /\ [Next]_vars => Types'
<1>1. ASSUME Types, UNCHANGED vars PROVE Types'
  BY <1>1 DEF vars, Types, World, Stores, Remembers, Control, UnitSets, Thread, Phased, Built
<1>2. ASSUME Types, Next PROVE Types'
  BY <1>2, WriteDiskTypes, EditYamlTypes, StartTypes, RequestReloadTypes, RetractTypes,
     SaveSnapshotTypes, PersistPrunedTypes, DropDocsTypes, StartCatchUpTypes, BuildUnitsTypes,
     ReloadUnitsTypes, NewUnitTypes, ThreadTypes, DirectReloadTypes, CatchUpJobTypes, IdleTypes,
     ExitTypes, CrashTypes
     DEF Next, IngestSteps, CatchUpSteps, ReloadSteps
<1> QED  BY <1>1, <1>2

\* Whatever is stopped, killed, edited or raced, the state stays one the types describe:
\* what the units and the baseline know of an item is about its places, no unit runs that
\* is being stopped, and no job is left behind.
THEOREM TypeCorrect == Spec => []TypeOK
<1>1. Spec => []Types
  BY InitTypes, NextTypes, PTL DEF Spec
<1> QED  BY <1>1, TypesImplyTypeOK, PTL

-----------------------------------------------------------------------------
\* What the units watch

\* The units watch what a mapping says.
AsMapped(us, m) == \A u \in us : \A i \in UnitItems(u) : watch[i] = m[i]

\* While no reload was raced by an edit or failed: between reloads the units are those of
\* the snapshot and watch it; a reload finds them so, with the old snapshot, until it
\* stops some and queues and lists the others, and what is neither queued nor listed
\* watches the new one.
Resting == pc = "serve" => queued = {} /\ running = Present(snapshot) /\ AsMapped(running, snapshot)
Planned == plan.reload => file = plan.new /\ (pc # "retract" => snapshot = plan.new)
Before  == plan.reload /\ pc \in {"retract", "prune", "drop", "units"} =>
             queued = {} /\ running = Present(plan.old) /\ AsMapped(running, plan.old)
Unmanned == pc = "direct" => running = {} /\ Present(plan.old) = {}
During  == plan.reload /\ pc \in {"new", "build", "wait"} =>
             /\ running \cup todo \cup unbuilt = Present(snapshot)
             /\ AsMapped((running \ queued) \cup unbuilt, snapshot)
AtStart == ~plan.reload /\ pc = "build" => unbuilt = Present(snapshot) /\ AsMapped(unbuilt, snapshot)

Steady == clean => Resting /\ Planned /\ Before /\ Unmanned /\ During /\ AtStart

\* It says what units watch between reloads.
LEMMA SteadyUnits == Steady => UnitsWatchSnapshot
BY DEF Steady, Resting, UnitsWatchSnapshot, Quiet, AsMapped

\* Steps that change neither units nor the thread.
LEMMA SteadyStays ==
  ASSUME Steady, UNCHANGED <<file, snapshot, watch, running, queued, unbuilt, pc, plan, todo, clean>>
  PROVE  Steady'
BY DEF Steady, Resting, Planned, Before, Unmanned, During, AtStart, AsMapped

\* An edit of the yaml file races a reload, or is none of its business.
LEMMA EditYamlSteady == ASSUME Steady, Types, EditYaml PROVE Steady'
<1>1. /\ clean' = (clean /\ ~plan.reload)
      /\ UNCHANGED <<snapshot, watch, running, queued, unbuilt, pc, plan, todo>>
  BY DEF EditYaml, stored, units, ingest
<1> QED  BY <1>1 DEF Steady, Resting, Planned, Before, Unmanned, During, AtStart, AsMapped

\* A start begins, or a reload.
LEMMA BeginSteady == ASSUME Steady, Types, Start \/ RequestReload PROVE Steady'
<1>1. CASE Start
  <2>1. /\ pc = "off" /\ ~plan.reload
        /\ UNCHANGED <<file, snapshot, watch, running, queued, unbuilt, clean>>
    BY <1>1 DEF Start, world, stored, units, Types, Control, Phased
  <2>2. pc' \in {"catchup", "retract"} /\ ~plan'.reload
    BY <1>1, <2>1 DEF Start, Ingest
  <2> QED  BY <2>1, <2>2 DEF Steady, Resting, Planned, Before, Unmanned, During, AtStart
<1>2. CASE RequestReload
  <2>1. /\ pc = "serve"
        /\ UNCHANGED <<file, snapshot, watch, running, queued, unbuilt, clean>>
    BY <1>2 DEF RequestReload, world, stored, units
  <2>2. pc' = "retract" /\ plan'.reload /\ plan'.old = snapshot /\ plan'.new = file
    BY <1>2 DEF RequestReload, Ingest
  <2> QED  BY <2>1, <2>2 DEF Steady, Resting, Planned, Before, Unmanned, During, AtStart, AsMapped
<1> QED  BY <1>1, <1>2

\* The snapshot, the disks and the baseline are brought up to date.
LEMMA IngestSteady == ASSUME Steady, Types, IngestSteps PROVE Steady'
<1>1. CASE Retract
  <2>1. UNCHANGED <<file, snapshot, watch, running, queued, unbuilt, pc, plan, clean>> /\ pc = "retract"
    BY <1>1 DEF Retract, stored, units
  <2> QED  BY <2>1 DEF Steady, Resting, Planned, Before, Unmanned, During, AtStart, AsMapped
<1>2. CASE SaveSnapshot
  <2>1. /\ UNCHANGED <<file, watch, running, queued, unbuilt, plan, todo, clean>>
        /\ pc = "retract" /\ pc' = "prune" /\ snapshot' = plan.new
    BY <1>2 DEF SaveSnapshot, world, units
  <2> QED  BY <2>1 DEF Steady, Resting, Planned, Before, Unmanned, During, AtStart, AsMapped
<1>3. CASE PersistPruned
  <2>1. /\ UNCHANGED <<file, snapshot, watch, running, queued, unbuilt, plan, todo, clean>>
        /\ pc = "prune" /\ pc' = IF plan.reload THEN "drop" ELSE "catchup"
    BY <1>3 DEF PersistPruned, world, units
  <2> QED  BY <2>1 DEF Steady, Resting, Planned, Before, Unmanned, During, AtStart, AsMapped
<1>4. CASE DropDocs
  <2>1. /\ UNCHANGED <<file, snapshot, watch, running, queued, unbuilt, plan, todo, clean>>
        /\ pc = "drop" /\ pc' = "units"
    BY <1>4 DEF DropDocs, world, units
  <2> QED  BY <2>1 DEF Steady, Resting, Planned, Before, Unmanned, During, AtStart, AsMapped
<1> QED  BY <1>1, <1>2, <1>3, <1>4 DEF IngestSteps

\* Units of a start are built on the mapping it caught up.
LEMMA StartCatchUpSteady == ASSUME Steady, Types, StartCatchUp PROVE Steady'
<1>1. /\ pc' = "build" /\ ~plan'.reload
      /\ watch' = snapshot' /\ unbuilt' = Present(snapshot') /\ clean' = clean
  BY NoPlanIs DEF StartCatchUp
<1> QED  BY <1>1 DEF Steady, Resting, Planned, Before, Unmanned, During, AtStart, AsMapped

\* Then they run.
LEMMA BuildUnitsSteady == ASSUME Steady, Types, BuildUnits PROVE Steady'
<1>1. /\ pc = "build" /\ running' = running \cup unbuilt /\ unbuilt' = {}
      /\ pc' = IF plan.reload THEN "new" ELSE "serve"
      /\ UNCHANGED <<file, snapshot, watch, queued, plan, todo, clean>>
  BY DEF BuildUnits, world, stored
<1>2. CASE plan.reload
  BY <1>1, <1>2 DEF Steady, Resting, Planned, Before, Unmanned, During, AtStart, AsMapped
<1>3. CASE ~plan.reload
  <2>1. running = {} /\ queued = {}
    BY <1>1, <1>3 DEF Types, Control, UnitSets, Phased
  <2> QED  BY <1>1, <1>3, <2>1 DEF Steady, Resting, Planned, Before, Unmanned, During, AtStart, AsMapped
<1> QED  BY <1>2, <1>3

\* A unit that is mapped and not affected watched the same before; one that is mapped
\* and did not run is affected.
LEMMA AffectedIs ==
  ASSUME NEW old, NEW new, NEW u \in Units
  PROVE  /\ u \notin Affected(old, new) => \A i \in UnitItems(u) : old[i] = new[i]
         /\ u \in Present(new) \ Present(old) => u \in Affected(old, new)
<1>1. u \notin Affected(old, new) => \A i \in UnitItems(u) : old[i] = new[i]
  BY DEF Affected, UnitItems
<1>2. ASSUME u \in Present(new), u \notin Present(old) PROVE u \in Affected(old, new)
  <2>1. PICK i \in Items : Owner[i] = u /\ new[i] # {}
    BY <1>2 DEF Present
  <2>2. old[i] = {}
    BY <1>2, <2>1 DEF Present
  <2> QED  BY <2>1, <2>2 DEF Affected
<1> QED  BY <1>1, <1>2

\* Units are stopped, told to catch up or listed.
LEMMA ReloadUnitsSteady == ASSUME Steady, Types, ReloadUnits PROVE Steady'
<1>1. pc = "units" /\ UNCHANGED <<file, snapshot, watch, unbuilt, plan, clean>>
  BY DEF ReloadUnits, world, stored
<1>2. plan.reload /\ unbuilt = {}
  BY <1>1 DEF Types, Control, Phased
<1> SUFFICES ASSUME clean PROVE Steady'
  BY <1>1 DEF Steady
<1>3. /\ file = plan.new /\ snapshot = plan.new
      /\ queued = {} /\ running = Present(plan.old) /\ AsMapped(running, plan.old)
  BY <1>1, <1>2 DEF Steady, Planned, Before
<1>4. CASE running = {}
  <2>1. pc' = "direct" /\ running' = {}
    BY <1>4 DEF ReloadUnits
  <2> QED  BY <1>1, <1>3, <1>4, <2>1 DEF Steady, Resting, Planned, Before, Unmanned, During, AtStart
<1>5. CASE running # {}
  <2> DEFINE present == Present(snapshot)
             changed == Affected(plan.old, plan.new) \cap present
  <2>1. /\ running' = running \cap present
        /\ queued' = queued \cup (changed \cap running)
        /\ todo' = changed \ running
        /\ pc' = "new"
    BY <1>5 DEF ReloadUnits
  <2>2. present \subseteq Units
    BY Geography DEF Present
  <2>3. \A u \in present \ running : u \in changed
    BY <1>3, <2>2, AffectedIs
  <2>4. running' \cup todo' \cup unbuilt' = present
    BY <1>1, <1>2, <2>1, <2>3
  <2>5. ASSUME NEW u \in (running' \ queued') \cup unbuilt', NEW i \in UnitItems(u)
        PROVE  watch'[i] = snapshot'[i]
    <3>1. u \in running /\ u \in present /\ u \notin changed
      BY <1>1, <1>2, <2>1
    <3>2. u \notin Affected(plan.old, plan.new) /\ u \in Units
      BY <2>2, <3>1
    <3>3. plan.old[i] = plan.new[i]
      BY <3>2, AffectedIs
    <3> QED  BY <1>1, <1>3, <3>1, <3>3 DEF AsMapped
  <2> HIDE DEF present, changed
  <2>6. During'
    <3>1. present = Present(snapshot)'
      BY <1>1 DEF present
    <3> QED  BY <2>4, <2>5, <3>1 DEF During, AsMapped, UnitItems
  <2> QED  BY <1>1, <1>2, <1>3, <2>1, <2>6 DEF Steady, Resting, Planned, Before, Unmanned, AtStart
<1> QED  BY <1>4, <1>5

\* New units are caught up and built.
LEMMA NewUnitSteady == ASSUME Steady, Types, NewUnit PROVE Steady'
<1>1. pc = "new" /\ pc' = "build" /\ UNCHANGED <<file, snapshot, running, queued, plan, clean>>
  BY DEF NewUnit
<1>2. PICK u \in todo :
       /\ watch' = [i \in Items |-> IF Owner[i] = u THEN snapshot[i] ELSE watch[i]]
       /\ unbuilt' = {u}
       /\ todo' = todo \ {u}
  BY DEF NewUnit
<1>3. plan.reload /\ unbuilt = {}
  BY <1>1 DEF Types, Control, Phased
<1> SUFFICES ASSUME clean PROVE Steady'
  BY <1>1 DEF Steady
<1>4. /\ running \cup todo \cup unbuilt = Present(snapshot)
      /\ AsMapped((running \ queued) \cup unbuilt, snapshot)
  BY <1>1, <1>3 DEF Steady, During
<1>5. running' \cup todo' \cup unbuilt' = Present(snapshot)'
  BY <1>1, <1>2, <1>3, <1>4
<1>6. AsMapped((running \ queued) \cup unbuilt, snapshot)'
  <2> SUFFICES ASSUME NEW v \in (running \ queued) \cup {u}, NEW i \in UnitItems(v)
               PROVE  watch'[i] = snapshot[i]
    BY <1>1, <1>2 DEF AsMapped, UnitItems
  <2>1. Owner[i] = v /\ i \in Items
    BY DEF UnitItems
  <2> QED  BY <1>2, <1>4, <2>1 DEF AsMapped
<1>7. During'
  BY <1>5, <1>6 DEF During
<1> QED  BY <1>1, <1>3, <1>7 DEF Steady, Resting, Planned, Before, Unmanned, AtStart

\* The reload ends.
LEMMA ThreadSteady == ASSUME Steady, Types, NewUnitFails \/ ReloadWaits \/ ReloadDone PROVE Steady'
<1>1. CASE NewUnitFails
  BY <1>1 DEF NewUnitFails, Steady
<1>2. CASE ReloadWaits
  <2>1. /\ pc = "new" /\ pc' = "wait" /\ plan.reload
        /\ UNCHANGED <<file, snapshot, watch, running, queued, unbuilt, plan, todo, clean>>
    BY <1>2 DEF ReloadWaits, world, stored, units, Types, Control, Phased
  <2> QED  BY <2>1 DEF Steady, Resting, Planned, Before, Unmanned, During, AtStart, AsMapped
<1>3. CASE ReloadDone
  <2>1. /\ pc = "wait" /\ pc' = "serve" /\ queued = {} /\ ~plan'.reload /\ plan.reload
        /\ todo = {} /\ unbuilt = {}
        /\ UNCHANGED <<snapshot, watch, running, queued, clean>>
    BY <1>3, NoPlanIs DEF ReloadDone, world, stored, units, Types, Control, Phased
  <2> QED  BY <2>1 DEF Steady, Resting, Planned, Before, Unmanned, During, AtStart, AsMapped
<1> QED  BY <1>1, <1>2, <1>3

\* With no unit before and nothing to catch up, there is none after.
LEMMA DirectReloadSteady == ASSUME Steady, Types, DirectReload PROVE Steady'
<1> DEFINE m == Only(file, Affected(plan.old, plan.new))
<1>1. /\ pc = "direct" /\ pc' = "serve" /\ ~plan'.reload /\ plan.reload
      /\ UNCHANGED <<file, snapshot, watch, running, queued, unbuilt>>
      /\ clean' => clean /\ m = NoItem
  BY NoPlanIs DEF DirectReload, units, Types, Control, Phased
<1> SUFFICES ASSUME clean' PROVE Steady'
  BY DEF Steady
<1>2. /\ running = {} /\ Present(plan.old) = {} /\ file = plan.new /\ snapshot = plan.new
      /\ m = NoItem
  BY <1>1 DEF Steady, Unmanned, Planned
<1>3. queued = {}
  BY <1>1, <1>2 DEF Types, Control, UnitSets, Phased
<1>4. Present(snapshot) = {}
  <2> SUFFICES ASSUME NEW u \in Present(plan.new) PROVE FALSE
    BY <1>2
  <2>1. PICK i \in Items : Owner[i] = u /\ plan.new[i] # {}
    BY DEF Present
  <2>2. u \in Affected(plan.old, plan.new)
    BY <1>2, <2>1, Geography, AffectedIs
  <2>3. m[i] = file[i] /\ m[i] = {}
    BY <1>2, <2>1, <2>2 DEF Only, NoItem
  <2> QED  BY <1>2, <2>1, <2>3
<1> HIDE DEF m
<1> QED  BY <1>1, <1>2, <1>3, <1>4
         DEF Steady, Resting, Planned, Before, Unmanned, During, AtStart, AsMapped

\* A queued job is one of a reload whose units were told.
LEMMA QueuedDuring ==
  ASSUME Types, Steady, clean, queued # {}
  PROVE  plan.reload /\ pc \in {"new", "build", "wait"}
<1>1. queued \subseteq running \cup stopping
  BY DEF Types, Control, UnitSets
<1>2. pc # "serve"
  BY DEF Steady, Resting
<1>3. plan.reload
  BY <1>1, <1>2 DEF Types, Control, Phased
<1>4. pc \notin {"retract", "prune", "drop", "units"}
  BY <1>3 DEF Steady, Before
<1>5. pc # "direct"
  BY <1>1 DEF Steady, Unmanned, Types, Control, Phased
<1>6. pc \notin {"off", "catchup"}
  BY <1>3 DEF Types, Control, Phased
<1> QED  BY <1>2, <1>3, <1>4, <1>5, <1>6 DEF Types, Control, Thread

\* A queued catch-up reads the yaml file, which is what the snapshot says.
LEMMA CatchUpJobSteady == ASSUME Steady, Types, NEW u \in Units, CatchUpJob(u) PROVE Steady'
<1> DEFINE m == Only(file, {u})
<1>1. /\ u \in queued /\ queued' = queued \ {u}
      /\ UNCHANGED <<file, snapshot, running, unbuilt, pc, plan, todo, clean>>
      /\ \/ m = NoItem /\ watch' = watch
         \/ watch' = [i \in Items |-> IF Owner[i] = u THEN file[i] ELSE watch[i]]
  BY DEF CatchUpJob, ingest
<1> SUFFICES ASSUME clean PROVE Steady'
  BY <1>1 DEF Steady
<1>2. plan.reload /\ pc \in {"new", "build", "wait"}
  BY <1>1, QueuedDuring
<1>3. /\ file = snapshot
      /\ running \cup todo \cup unbuilt = Present(snapshot)
      /\ AsMapped((running \ queued) \cup unbuilt, snapshot)
  BY <1>2 DEF Steady, Planned, During
<1>4. ASSUME NEW v \in (running \ queued') \cup unbuilt, NEW i \in UnitItems(v)
      PROVE  watch'[i] = snapshot[i]
  <2>1. Owner[i] = v /\ i \in Items
    BY DEF UnitItems
  <2>2. CASE v # u
    <3>1. watch'[i] = watch[i]
      BY <1>1, <2>1, <2>2
    <3> QED  BY <1>1, <1>3, <2>2, <3>1 DEF AsMapped
  <2>3. CASE v = u /\ m = NoItem
    <3>1. PICK j \in Items : Owner[j] = u /\ snapshot[j] # {}
      BY <1>3, <2>3 DEF Present
    <3>2. m[j] = snapshot[j] /\ m[j] = {}
      BY <1>3, <2>3, <3>1 DEF Only, NoItem
    <3> QED  BY <3>1, <3>2
  <2>4. CASE v = u /\ m # NoItem
    BY <1>1, <1>3, <2>1, <2>4
  <2> QED  BY <2>2, <2>3, <2>4
<1> HIDE DEF m
<1>5. AsMapped((running \ queued) \cup unbuilt, snapshot)'
  BY <1>1, <1>4 DEF AsMapped, UnitItems
<1>6. During'
  BY <1>1, <1>3, <1>5 DEF During
<1> QED  BY <1>1, <1>2, <1>3, <1>6 DEF Steady, Resting, Planned, Before, Unmanned, AtStart

\* A unit that exits was stopped, and is no unit of the snapshot.
LEMMA ExitSteady == ASSUME Steady, Types, NEW u \in Units, Exit(u) PROVE Steady'
<1>1. /\ u \in stopping
      /\ watch' = [i \in Items |-> IF Owner[i] = u THEN {} ELSE watch[i]]
      /\ UNCHANGED <<file, snapshot, running, queued, unbuilt, pc, plan, todo, clean>>
  BY DEF Exit, world, stored, ingest
<1>2. u \notin running /\ u \notin unbuilt
  BY <1>1 DEF Types, Control, UnitSets, Phased
<1>3. \A v \in running \cup unbuilt : \A i \in UnitItems(v) : watch'[i] = watch[i]
  BY <1>1, <1>2 DEF UnitItems
<1> HIDE <1>1
<1>4. UNCHANGED <<file, snapshot, running, queued, unbuilt, pc, plan, todo, clean>>
  BY <1>1
<1> QED  BY <1>3, <1>4 DEF Steady, Resting, Planned, Before, Unmanned, During, AtStart, AsMapped, UnitItems

\* Every step.
LEMMA NextSteady == ASSUME Steady, Types, [Next]_vars PROVE Steady'
<1>1. CASE UNCHANGED vars
  BY <1>1, SteadyStays DEF vars
<1>2. CASE WriteDisk
  BY <1>2, SteadyStays DEF WriteDisk, stored, units, ingest
<1>3. CASE Crash
  <2>1. pc' = "off" /\ ~plan'.reload
    BY <1>3, NoPlanIs DEF Crash
  <2> QED  BY <2>1 DEF Steady, Resting, Planned, Before, Unmanned, During, AtStart
<1>4. ASSUME NEW u \in Units, Idle(u) PROVE Steady'
  BY <1>4, SteadyStays DEF Idle, ingest
<1>5. CASE Next
  BY <1>2, <1>3, <1>4, <1>5, EditYamlSteady, BeginSteady, IngestSteady, StartCatchUpSteady,
     BuildUnitsSteady, ReloadUnitsSteady, NewUnitSteady, ThreadSteady, DirectReloadSteady,
     CatchUpJobSteady, ExitSteady
     DEF Next, CatchUpSteps, ReloadSteps
<1> QED  BY <1>1, <1>5

\* After every start, and after every reload that was not raced by an edit and did not
\* fail, the units are those of the snapshot and watch what it maps.
THEOREM UnitsWatchCorrect == Spec => []UnitsWatchSnapshot
<1>1. Init => Steady
  BY NoPlanIs DEF Init, Steady, Resting, Planned, Before, Unmanned, During, AtStart
<1>2. Spec => []Types
  BY InitTypes, NextTypes, PTL DEF Spec
<1>3. Types /\ Steady /\ [Next]_vars => Steady'
  BY NextSteady
<1> QED  BY <1>1, <1>2, <1>3, SteadyUnits, PTL DEF Spec

-----------------------------------------------------------------------------
\* Deletes that were seen

\* A set of watched roots is in the order of the roots.
LEMMA PlacesOrdered ==
  ASSUME NEW i \in Items, NEW W \in SUBSET Places(i)
  PROVE  W \subseteq {Order[n] : n \in 1 .. Len(Order)}
<1>1. W \subseteq Roots
  BY Geography
<1> QED  BY <1>1, OrderAssumption

\* A catch-up of one item deletes no copy of it if the hub has it and no watched root has
\* lost one; it writes no disk of an item its mapping does not have.
LEMMA CaughtUpSpares ==
  ASSUME DiskIs(disk), NEW i \in Items, NEW m, MapIs(m), NEW t,
         t # None => TreesAre(t) /\ t.rows[i].row \cap Watched(m, i) \subseteq disk[i],
         Owner[i] \in disk[i]
  PROVE  disk[i] \subseteq CaughtUp(m, t)[i].disk
<1> DEFINE V == Watched(m, i)
<1>0. /\ m[i] \in SUBSET Places(i) /\ Owner[i] \in Places(i) /\ Places(i) \in SUBSET Places(i)
      /\ m[i] \cup {Owner[i]} \subseteq {Order[n] : n \in 1 .. Len(Order)}
  <2>1. m[i] \in SUBSET Places(i) /\ Owner[i] \in Places(i)
    BY Geography DEF MapIs
  <2>2. m[i] \cup {Owner[i]} \in SUBSET Places(i)
    BY <2>1
  <2> QED  BY <2>1, <2>2, PlacesOrdered
<1>o. Order \in Seq(Roots)
  BY OrderAssumption
<1>w. m[i] # {} => m[i] \cup {Owner[i]} \subseteq V /\ m[i] \subseteq V
  BY DEF Watched
<1> HIDE DEF V
<1>1. CASE t = None
  <2> DEFINE x == ItemOf(i, NotLive)
             z == Seed(x, Owner[i], m[i])
  <2>1. x \in Item(Places(i), Places(i), Owner[i])
    BY ItemOfIs DEF NotLive
  <2>2. x.disk = disk[i] /\ x.row = {} /\ x.seen = {}
    BY DEF ItemOf, NotLive
  <2>3. CaughtUp(m, t)[i] = IF m[i] = {} THEN x ELSE z
    BY <1>1 DEF CaughtUp
  <2> HIDE DEF x
  <2>4. Shown(x, m[i]) /\ Owner[i] \in x.disk
    BY <2>2 DEF Shown
  <2>5. x.disk \cup m[i] \subseteq z.disk /\ Shown(z, m[i])
    BY <1>0, <2>1, <2>4, SeedSpares
  <2> HIDE DEF z
  <2> QED  BY <2>2, <2>3, <2>5
<1>2. CASE t # None
  <2> DEFINE lv == FromTrees(t, i)
             x == ItemOf(i, lv)
             scanned == IF Owner[i] \in Present(m)
                        THEN {Owner[i]} \cup (UnitTargets(m, Owner[i]) \cap t.keys) ELSE {}
             less == [x EXCEPT !.row = @ \ (scanned \ disk[i])]
             z == CatchUpUpdate(x, Owner[i], m[i], m[i] \ t.keys)
  <2>1. lv.row = t.rows[i].row /\ lv.seen = t.rows[i].row /\ lv.oos = t.rows[i].oos
    BY DEF FromTrees
  <2>2. t.rows[i] \in HeldRows(i) /\ t.rows[i].row \cap V \subseteq disk[i]
    BY <1>2 DEF TreesAre, V
  <2> HIDE DEF lv
  <2>3. x \in Item(Places(i), Places(i), Owner[i])
    BY <2>1, <2>2, ItemOfIs DEF HeldRows
  <2>4. x.disk = disk[i] /\ x.row = lv.row /\ x.seen = lv.seen
    BY DEF ItemOf
  <2>5. CaughtUp(m, t)[i] = IF m[i] = {} THEN less ELSE z
    BY <1>2 DEF CaughtUp, lv
  <2> HIDE DEF x, scanned
  <2>6. less.disk = x.disk
    BY <2>3 DEF Item
  <2>7. Shown(x, V) /\ Owner[i] \in x.disk
    BY <2>1, <2>2, <2>4 DEF Shown
  <2>8. m[i] # {} => x.disk \subseteq z.disk /\ Shown(z, V)
    BY <1>0, <1>o, <1>w, <2>3, <2>7, CatchUpSpares
  <2> HIDE DEF less, z
  <2> QED  BY <2>4, <2>5, <2>6, <2>8
<1> QED  BY <1>1, <1>2

\* What the baseline that is loaded says of item i shows a loss at the roots m watches.
LoadLost(m, i) ==
  LoadBaseline # None /\ (LoadBaseline.rows[i].row \cap Watched(m, i)) \ disk[i] # {}

\* A catch-up of units that run no thread.
LEMMA CatchUpStepDeletes ==
  ASSUME Types, NEW m, MapIs(m), CatchUp(m), NEW i \in Items, disk[i] \ disk'[i] # {}
  PROVE  m[i] # {} /\ (Owner[i] \notin disk[i] \/ LoadLost(m, i))
<1> DEFINE b     == LoadBaseline
           ys    == CaughtUp(m, b)
<1>1. disk' = [k \in Items |-> ys[k].disk]
  BY DEF CatchUp
<1>2. disk'[i] = ys[i].disk
  BY <1>1
<1>3. b = None \/ TreesAre(b)
  BY LoadIs DEF Types, Stores
<1>4. DiskIs(disk)
  BY DEF Types, World
<1>5. Owner[i] \notin disk[i] \/ LoadLost(m, i)
  <2> SUFFICES ASSUME Owner[i] \in disk[i], ~LoadLost(m, i) PROVE FALSE
    OBVIOUS
  <2>1. b # None => TreesAre(b) /\ b.rows[i].row \cap Watched(m, i) \subseteq disk[i]
    BY <1>3 DEF LoadLost
  <2>2. disk[i] \subseteq ys[i].disk
    BY <1>4, <2>1, CaughtUpSpares
  <2> HIDE DEF ys
  <2> QED  BY <1>2, <2>2
<1>6. m[i] # {}
  <2> SUFFICES ASSUME m[i] = {} PROVE ys[i].disk = disk[i]
    BY <1>2
  <2>1. CASE b = None
    <3>1. ys[i] = ItemOf(i, NotLive)
      BY <2>1 DEF CaughtUp
    <3> QED  BY <3>1 DEF ItemOf
  <2>2. CASE b # None
    <3> DEFINE x == ItemOf(i, FromTrees(b, i))
               scanned == IF Owner[i] \in Present(m)
                          THEN {Owner[i]} \cup (UnitTargets(m, Owner[i]) \cap b.keys) ELSE {}
               less == [x EXCEPT !.row = @ \ (scanned \ disk[i])]
    <3>1. ys[i] = less
      BY <2>2 DEF CaughtUp
    <3>2. x = [disk |-> disk[i], row |-> b.rows[i].row, seen |-> b.rows[i].row,
               oos |-> b.rows[i].oos, box |-> {}, gone |-> FALSE]
      BY DEF ItemOf, FromTrees
    <3> HIDE DEF scanned, x, ys, b
    <3>3. less.disk = disk[i]
      BY <3>2
    <3> QED  BY <3>1, <3>3
  <2> QED  BY <2>1, <2>2
<1> QED  BY <1>5, <1>6

\* Its unit runs no thread, so that it is what is recorded of the item.
LEMMA LoadLostSeen ==
  ASSUME NEW m, NEW n, NEW i \in Items, m[i] = n[i], Owner[i] \notin running \cup stopping,
         Owner[i] \notin disk[i] \/ LoadLost(m, i)
  PROVE  LossSeen(n, i)
<1>1. Watched(m, i) = Watched(n, i)
  BY DEF Watched
<1>2. LoadBaseline # None => Recorded(i) = LoadBaseline.rows[i].row
  BY DEF Recorded
<1> QED  BY <1>1, <1>2 DEF LossSeen, LoadLost

\* The item was deleted where a loss was seen.
Justified(i) == disk[i] \ disk'[i] # {} => LossSeen(watch', i) \/ (pc = "direct" /\ LossSeen(file, i))

\* The end of a catch-up, whoever does it.
LEMMA CatchUpsJustified ==
  ASSUME Types, StartCatchUp \/ NewUnit \/ DirectReload, NEW i \in Items
  PROVE  Justified(i)
<1> SUFFICES ASSUME disk[i] \ disk'[i] # {}
             PROVE  LossSeen(watch', i) \/ (pc = "direct" /\ LossSeen(file, i))
  BY DEF Justified
<1>0. Phased /\ file \in Mappings
  BY DEF Types, Control, World
<1>1. CASE StartCatchUp
  <2> DEFINE m == IF snapshot = None THEN file ELSE snapshot
  <2>1. CatchUp(m) /\ watch' = m /\ pc = "catchup"
    BY <1>1 DEF StartCatchUp
  <2>2. MapIs(m)
    BY MappingsAre DEF Types, World
  <2> HIDE DEF m
  <2>3. Owner[i] \notin disk[i] \/ LoadLost(m, i)
    BY <2>1, <2>2, CatchUpStepDeletes
  <2>4. running \cup stopping = {}
    BY <1>0, <2>1 DEF Phased
  <2> QED  BY <2>1, <2>3, <2>4, LoadLostSeen
<1>2. CASE NewUnit
  <2>1. PICK u \in todo :
          /\ CatchUp(Only(snapshot, {u}))
          /\ watch' = [k \in Items |-> IF Owner[k] = u THEN snapshot[k] ELSE watch[k]]
    BY <1>2 DEF NewUnit
  <2> DEFINE m == Only(snapshot, {u})
  <2>2. snapshot \in Mappings /\ pc = "new" /\ u \notin running \cup stopping
    BY <1>0, <1>2 DEF NewUnit, Phased
  <2>3. MapIs(m)
    BY <2>2, MappingsAre, OnlyIs
  <2>4. m[i] # {} /\ (Owner[i] \notin disk[i] \/ LoadLost(m, i))
    BY <2>1, <2>3, CatchUpStepDeletes
  <2>5. Owner[i] = u /\ m[i] = snapshot[i]
    BY <2>4 DEF Only
  <2>6. watch'[i] = m[i]
    BY <2>1, <2>5
  <2> HIDE DEF m
  <2>7. \A n : m[i] = n[i] => LossSeen(n, i)
    BY <2>2, <2>4, <2>5, LoadLostSeen
  <2> QED  BY <2>6, <2>7
<1>3. CASE DirectReload
  <2> DEFINE m == Only(file, Affected(plan.old, plan.new))
  <2>1. MapIs(m)
    BY <1>0, MappingsAre, OnlyIs
  <2>2. pc = "direct" /\ (disk' = disk \/ CatchUp(m))
    BY <1>3 DEF DirectReload
  <2>3. CatchUp(m)
    BY <2>2
  <2>4. m[i] # {} /\ (Owner[i] \notin disk[i] \/ LoadLost(m, i))
    BY <2>1, <2>3, CatchUpStepDeletes
  <2>5. m[i] = file[i]
    BY <2>4 DEF Only
  <2>6. running \cup stopping = {}
    BY <1>0, <2>2 DEF Phased
  <2> HIDE DEF m
  <2> QED  BY <2>2, <2>4, <2>5, <2>6, LoadLostSeen
<1> QED  BY <1>1, <1>2, <1>3

\* The records of a unit's item, as its thread has them, where no watched root has lost
\* a copy.
LEMMA ItemShown ==
  ASSUME NEW i \in Items, NEW m, Owner[i] \in running \cup stopping, ~LossSeen(m, i)
  PROVE  LET x == ItemOf(i, live[i])
         IN  Shown(x, Watched(m, i)) /\ Owner[i] \in x.disk /\ x.disk = disk[i]
BY DEF ItemOf, LossSeen, Recorded, Shown

\* A tick.
LEMMA IdleJustified ==
  ASSUME Types, NEW u \in Units, Idle(u), NEW i \in Items
  PROVE  Justified(i)
<1> DEFINE x(k)  == ItemOf(k, live[k])
           ys    == [k \in Items |-> IF Owner[k] = u THEN Tick(x(k), u, Watched(watch, k)) ELSE x(k)]
<1>1. /\ disk' = [k \in Items |-> IF Owner[k] = u THEN ys[k].disk ELSE disk[k]]
      /\ watch' = watch /\ u \in running \cup stopping
  BY DEF Idle, UnitBecomes
<1> SUFFICES ASSUME disk[i] \ disk'[i] # {}, ~LossSeen(watch, i) PROVE FALSE
  BY <1>1 DEF Justified
<1>2. Owner[i] = u /\ disk'[i] = Tick(x(i), u, Watched(watch, i)).disk
  BY <1>1
<1>3. DiskIs(disk) /\ LiveIs(live) /\ MapIs(watch)
  BY DEF Types, World, Remembers
<1>4. x(i) \in Item(Places(i), Places(i), Owner[i])
  BY <1>3, LiveItemIs
<1>5. Shown(x(i), Watched(watch, i)) /\ x(i).disk = disk[i]
  BY <1>1, <1>2, ItemShown
<1> HIDE DEF x, ys
<1>6. Watched(watch, i) \in SUBSET Places(i)
  BY <1>3, WatchedIs
<1>7. Watched(watch, i) \subseteq {Order[n] : n \in 1 .. Len(Order)} /\ Order \in Seq(Roots)
  BY <1>6, PlacesOrdered, OrderAssumption
<1>8. Owner[i] \in Places(i) /\ Places(i) \in SUBSET Places(i)
  BY Geography
<1>9. CASE Watched(watch, i) # {}
  <2>1. Watched(watch, i) \cup {Owner[i]} \subseteq Watched(watch, i)
    BY <1>9 DEF Watched
  <2>2. TickAdds(x(i), Owner[i], Watched(watch, i), Tick(x(i), Owner[i], Watched(watch, i)),
                 Watched(watch, i))
    BY <1>4, <1>5, <1>6, <1>7, <1>8, <2>1, TickGrows
  <2> QED  BY <1>2, <1>5, <2>2 DEF TickAdds
<1>10. CASE Watched(watch, i) = {}
  <2>1. Untouched(x(i), Tick(x(i), Owner[i], {}))
    BY <1>4, <1>7, <1>8, TickOfNone
  <2> QED  BY <1>2, <1>5, <1>10, <2>1 DEF Untouched
<1> QED  BY <1>9, <1>10

\* A catch-up job, whose unit forgets the roots it no longer watches.
LEMMA CatchUpJobJustified ==
  ASSUME Types, NEW u \in Units, CatchUpJob(u), NEW i \in Items
  PROVE  Justified(i)
<1> DEFINE m     == Only(file, {u})
           V     == Watched(m, i)
           x(k)  == Prune(ItemOf(k, live[k]), Watched(m, k))
           ks    == keys \ (({u} \cup TargetsOf[u]) \ UnitRoots(m, u))
           ys    == [k \in Items |-> IF m[k] = {} THEN x(k)
                                     ELSE CatchUpUpdate(x(k), u, m[k], m[k] \ ks)]
           after == ks \cup UNION {KeysOf(x(k), ys[k], m, k) : k \in UnitItems(u)}
           z     == CatchUpUpdate(x(i), Owner[i], m[i], m[i] \ ks)
<1>1. /\ u \in running \cup stopping
      /\ disk' = disk \/ ( /\ UnitBecomes(u, ys, after)
                           /\ watch' = [k \in Items |-> IF Owner[k] = u THEN file[k] ELSE watch[k]])
  BY DEF CatchUpJob, Types, Control, UnitSets
<1> SUFFICES ASSUME disk[i] \ disk'[i] # {}, ~LossSeen(watch', i) PROVE FALSE
  BY DEF Justified
<1>2. /\ disk' = [k \in Items |-> IF Owner[k] = u THEN ys[k].disk ELSE disk[k]]
      /\ watch' = [k \in Items |-> IF Owner[k] = u THEN file[k] ELSE watch[k]]
  BY <1>1 DEF UnitBecomes
<1>3. Owner[i] = u /\ disk'[i] = ys[i].disk /\ watch'[i] = file[i] /\ m[i] = file[i]
  BY <1>2 DEF Only
<1>4. V = Watched(watch', i)
  BY <1>3 DEF Watched
<1>5. DiskIs(disk) /\ LiveIs(live) /\ MapIs(m)
  BY MappingsAre, OnlyIs DEF Types, World, Remembers
<1>6. ItemOf(i, live[i]) \in Item(Places(i), Places(i), Owner[i])
  BY <1>5, LiveItemIs
<1>7. x(i) \in Item(Places(i), Places(i), Owner[i])
  BY <1>6, PruneType
<1>8. /\ Shown(ItemOf(i, live[i]), V) /\ Owner[i] \in disk[i]
      /\ ItemOf(i, live[i]).disk = disk[i]
  BY <1>1, <1>3, <1>4, ItemShown
<1>9. Shown(x(i), V) /\ x(i).disk = disk[i]
  <2> DEFINE y == ItemOf(i, live[i])
  <2>1. /\ x(i).row \subseteq y.row /\ x(i).seen \subseteq y.seen /\ x(i).disk = y.disk
    <3> HIDE DEF V, y, m
    <3> QED  BY <1>6 DEF Prune, Item, y
  <2> HIDE DEF x, y, V
  <2> QED  BY <1>8, <2>1 DEF Shown, y
<1>10. m[i] # {} => m[i] \cup {Owner[i]} \subseteq V
  BY DEF Watched
<1>11. ys[i] = IF m[i] = {} THEN x(i) ELSE z
  BY <1>3
<1> HIDE DEF x, ys, after, m, V
<1>12. m[i] \in SUBSET Places(i) /\ Owner[i] \in Places(i) /\ Places(i) \in SUBSET Places(i)
  BY <1>5, Geography DEF MapIs
<1>13. m[i] \cup {Owner[i]} \in SUBSET Places(i)
  BY <1>12
<1>14. m[i] \cup {Owner[i]} \subseteq {Order[n] : n \in 1 .. Len(Order)} /\ Order \in Seq(Roots)
  BY <1>13, PlacesOrdered, OrderAssumption
<1>15. m[i] # {} => x(i).disk \subseteq z.disk /\ Shown(z, V)
  BY <1>7, <1>8, <1>9, <1>10, <1>12, <1>14, CatchUpSpares
<1> HIDE DEF z
<1> QED  BY <1>3, <1>9, <1>11, <1>15

\* Every step but a user's write and a retraction.
LEMMA StepJustified ==
  ASSUME Types, [Next]_vars, ~WriteDisk, ~Retract, NEW i \in Items
  PROVE  Justified(i)
<1>1. CASE disk' = disk
  BY <1>1 DEF Justified
<1>2. CASE EditYaml \/ Start \/ RequestReload \/ SaveSnapshot \/ PersistPruned \/ DropDocs \/ BuildUnits
  <2>1. disk' = disk
    BY <1>2 DEF EditYaml, Start, RequestReload, SaveSnapshot, PersistPruned, DropDocs, BuildUnits,
                Ingest, world
  <2> QED  BY <1>1, <2>1
<1>3. CASE ReloadUnits \/ NewUnitFails \/ ReloadWaits \/ ReloadDone \/ Crash
  <2>1. disk' = disk
    BY <1>3 DEF ReloadUnits, NewUnitFails, ReloadWaits, ReloadDone, Crash, world
  <2> QED  BY <1>1, <2>1
<1>4. ASSUME NEW u \in Units, Exit(u) PROVE Justified(i)
  <2>1. disk' = disk
    BY <1>4 DEF Exit, world
  <2> QED  BY <1>1, <2>1
<1>5. CASE UNCHANGED vars
  BY <1>1, <1>5 DEF vars
<1>6. CASE Next
  BY <1>2, <1>3, <1>4, <1>6, CatchUpsJustified, IdleJustified, CatchUpJobJustified
     DEF Next, IngestSteps, CatchUpSteps, ReloadSteps
<1> QED  BY <1>5, <1>6

\* Apart from the copies an ingest retracts, the daemon deletes a copy only where a watched
\* root that is recorded to have one has lost it, or the hub has none: no start, reload,
\* catch-up or tick takes a missing row, a row of another root or unit, or a copy not made
\* yet for a delete, whatever was deleted and mapped before.
THEOREM DeletesWereSeenCorrect == Spec => DeletesWereSeen
<1>1. Spec => []Types
  BY InitTypes, NextTypes, PTL DEF Spec
<1> DEFINE Seen == ByUser \/ Retract \/
       \A i \in Items : disk[i] \ disk'[i] # {} =>
         LossSeen(watch', i) \/ (pc = "direct" /\ LossSeen(file, i))
<1>2. Types /\ [Next]_vars => [Seen]_vars
  <2> SUFFICES ASSUME Types, [Next]_vars PROVE Seen
    OBVIOUS
  <2>1. CASE WriteDisk
    BY <2>1 DEF WriteDisk, ByUser, Types, World
  <2>2. CASE Retract
    BY <2>2
  <2>3. CASE ~WriteDisk /\ ~Retract
    BY <2>3, StepJustified DEF Justified
  <2> QED  BY <2>1, <2>2, <2>3
<1> QED  BY <1>1, <1>2, PTL DEF Spec, DeletesWereSeen

-----------------------------------------------------------------------------
\* What a unit remembers is about the roots it watches

Rooted ==
  \A i \in Items : Owner[i] \in running =>
    live[i].row \cup live[i].seen \cup live[i].oos \subseteq UnitRoots(watch, Owner[i])

\* There is a baseline in memory while units run or are to be built.
Held == running \cup unbuilt # {} => memory # None

\* The roots of a unit are those of its items' mapping.
LEMMA RootsSame ==
  ASSUME NEW u, NEW m, NEW n, \A i \in UnitItems(u) : m[i] = n[i]
  PROVE  UnitTargets(m, u) = UnitTargets(n, u) /\ UnitRoots(m, u) = UnitRoots(n, u)
BY DEF UnitRoots, UnitTargets

\* An item is watched at roots of its unit.
LEMMA WatchedInRoots ==
  ASSUME NEW m, NEW i \in Items
  PROVE  Watched(m, i) \subseteq UnitRoots(m, Owner[i])
BY DEF Watched, UnitRoots, UnitTargets, UnitItems

\* Trees are not None.
LEMMA TreesAreSome ==
  ASSUME NEW t, TreesAre(t)
  PROVE  t # None
BY StructureAssumption DEF TreesAre

\* An item of which only some roots are known.
LEMMA Narrowed ==
  ASSUME NEW i \in Items, NEW R, NEW x \in Item(Places(i), Places(i), Owner[i]),
         x.row \cup x.seen \cup x.oos \cup x.box \subseteq R
  PROVE  x \in Item(Places(i), R, Owner[i])
BY DEF Item

\* A prune leaves what is watched.
LEMMA PruneNarrows ==
  ASSUME NEW i \in Items, NEW x \in Item(Places(i), Places(i), Owner[i]), x.box = {}, NEW W
  PROVE  Prune(x, W) \in Item(Places(i), Places(i) \cap W, Owner[i])
BY DEF Prune, Item

\* Steps of units that stay as they are.
LEMMA RootedStays ==
  ASSUME Rooted,
         \A i \in Items : Owner[i] \in running' =>
           /\ Owner[i] \in running
           /\ live'[i] = live[i]
           /\ \A j \in UnitItems(Owner[i]) : watch'[j] = watch[j]
  PROVE  Rooted'
<1> SUFFICES ASSUME NEW i \in Items, Owner[i] \in running'
             PROVE  live'[i].row \cup live'[i].seen \cup live'[i].oos \subseteq UnitRoots(watch', Owner[i])
  BY DEF Rooted, UnitRoots, UnitTargets, UnitItems
<1>1. UnitRoots(watch', Owner[i]) = UnitRoots(watch, Owner[i])
  BY RootsSame
<1> QED  BY <1>1 DEF Rooted

\* A tick.
LEMMA IdleItem ==
  ASSUME Types, Rooted, NEW i \in Items, Owner[i] \in running
  PROVE  LET R == UnitRoots(watch, Owner[i])
             x == ItemOf(i, live[i])
             W == Watched(watch, i)
         IN  /\ R \in SUBSET Places(i) /\ Owner[i] \in R /\ W \in SUBSET R
             /\ x \in Item(Places(i), R, Owner[i])
             /\ Tick(x, Owner[i], W) \in Item(Places(i), R, Owner[i])
<1> DEFINE R == UnitRoots(watch, Owner[i])
           x == ItemOf(i, live[i])
           W == Watched(watch, i)
<1>1. MapIs(watch) /\ DiskIs(disk) /\ LiveIs(live)
  BY DEF Types, Remembers, World
<1>2. R \in SUBSET Places(i) /\ Owner[i] \in R /\ W \in SUBSET R
  BY <1>1, UnitRootsAre, WatchedInRoots DEF UnitRoots
<1>3. x \in Item(Places(i), Places(i), Owner[i])
  BY <1>1, LiveItemIs
<1>4. x.row \cup x.seen \cup x.oos \cup x.box \subseteq R
  BY DEF ItemOf, Rooted
<1> HIDE DEF x, W, R
<1>5. x \in Item(Places(i), R, Owner[i])
  BY <1>3, <1>4, Narrowed
<1>6. Tick(x, Owner[i], W) \in Item(Places(i), R, Owner[i])
  BY <1>2, <1>5, OrderAssumption, TickType
<1> QED  BY <1>2, <1>5, <1>6 DEF x, W, R

\* A tick of a unit.
LEMMA IdleRooted == ASSUME Types, Rooted, NEW u \in Units, Idle(u) PROVE Rooted'
<1> DEFINE x(i)  == ItemOf(i, live[i])
           ys    == [i \in Items |-> IF Owner[i] = u THEN Tick(x(i), u, Watched(watch, i)) ELSE x(i)]
           after == keys \cup UNION {KeysOf(x(i), ys[i], watch, i) : i \in UnitItems(u)}
<1>1. UnitBecomes(u, ys, after) /\ UNCHANGED <<watch, running>>
  BY DEF Idle
<1> HIDE DEF after
<1> SUFFICES ASSUME NEW i \in Items, Owner[i] \in running
             PROVE  live'[i].row \cup live'[i].seen \cup live'[i].oos \subseteq UnitRoots(watch, Owner[i])
  BY <1>1 DEF Rooted
<1>2. CASE Owner[i] = u
  <2> DEFINE z == Tick(x(i), Owner[i], Watched(watch, i))
  <2>1. live'[i] = LiveOf(z)
    BY <1>1, <1>2 DEF UnitBecomes
  <2>2. z \in Item(Places(i), UnitRoots(watch, Owner[i]), Owner[i])
    BY IdleItem
  <2> HIDE DEF z
  <2> QED  BY <2>1, <2>2 DEF LiveOf, Item
<1>3. CASE Owner[i] # u
  <2>1. live'[i] = live[i]
    BY <1>1, <1>3 DEF UnitBecomes
  <2> QED  BY <2>1 DEF Rooted
<1> QED  BY <1>2, <1>3

\* What a catch-up job makes of an item is about the roots where it is now watched.
LEMMA CatchUpJobItem ==
  ASSUME Types, NEW i \in Items, NEW m, MapIs(m), NEW fresh
  PROVE  LET x == Prune(ItemOf(i, live[i]), Watched(m, i))
             y == IF m[i] = {} THEN x ELSE CatchUpUpdate(x, Owner[i], m[i], fresh)
         IN  y.row \cup y.seen \cup y.oos \subseteq UnitRoots(m, Owner[i])
<1> DEFINE W == Watched(m, i)
           x == Prune(ItemOf(i, live[i]), W)
           z == CatchUpUpdate(x, Owner[i], m[i], fresh)
<1>1. DiskIs(disk) /\ LiveIs(live)
  BY DEF Types, Remembers, World
<1>2. W \in SUBSET Places(i) /\ W \subseteq UnitRoots(m, Owner[i])
  BY WatchedIs, WatchedInRoots
<1>3. ItemOf(i, live[i]) \in Item(Places(i), Places(i), Owner[i]) /\ ItemOf(i, live[i]).box = {}
  BY <1>1, LiveItemIs DEF ItemOf
<1>4. m[i] # {} => Owner[i] \in W /\ m[i] \in SUBSET W
  BY DEF Watched
<1> HIDE DEF W
<1>5. x \in Item(Places(i), W, Owner[i])
  <2>1. Places(i) \cap W = W
    BY <1>2
  <2> QED  BY <1>3, <2>1, PruneNarrows
<1> HIDE DEF x
<1>6. m[i] # {} => z \in Item(Places(i), W, Owner[i])
  BY <1>2, <1>4, <1>5, OrderAssumption, CatchUpType
<1> HIDE DEF z
<1>7. x.row \cup x.seen \cup x.oos \subseteq W /\ (m[i] # {} => z.row \cup z.seen \cup z.oos \subseteq W)
  BY <1>5, <1>6 DEF Item
<1> QED  BY <1>2, <1>7 DEF x, z, W

\* A catch-up job of a unit.
LEMMA CatchUpJobRooted == ASSUME Types, Rooted, NEW u \in Units, CatchUpJob(u) PROVE Rooted'
<1> DEFINE m     == Only(file, {u})
           x(i)  == Prune(ItemOf(i, live[i]), Watched(m, i))
           ks    == keys \ (({u} \cup TargetsOf[u]) \ UnitRoots(m, u))
           y(i)  == IF m[i] = {} THEN x(i) ELSE CatchUpUpdate(x(i), u, m[i], m[i] \ ks)
           ys    == [i \in Items |-> y(i)]
           after == ks \cup UNION {KeysOf(x(i), ys[i], m, i) : i \in UnitItems(u)}
<1>1. /\ running' = running
      /\ \/ UNCHANGED <<live, watch>>
         \/ /\ UnitBecomes(u, ys, after)
            /\ watch' = [i \in Items |-> IF Owner[i] = u THEN file[i] ELSE watch[i]]
  BY DEF CatchUpJob
<1> HIDE DEF after
<1>2. CASE UNCHANGED <<live, watch>>
  BY <1>1, <1>2 DEF Rooted
<1>3. CASE /\ UnitBecomes(u, ys, after)
           /\ watch' = [i \in Items |-> IF Owner[i] = u THEN file[i] ELSE watch[i]]
  <2> SUFFICES ASSUME NEW i \in Items, Owner[i] \in running
               PROVE  live'[i].row \cup live'[i].seen \cup live'[i].oos \subseteq UnitRoots(watch', Owner[i])
    BY <1>1 DEF Rooted, UnitRoots, UnitTargets, UnitItems
  <2>1. CASE Owner[i] = u
    <3>1. live'[i] = LiveOf(y(i))
      BY <1>3, <2>1 DEF UnitBecomes
    <3>2. MapIs(m)
      BY MappingsAre, OnlyIs DEF Types, World
    <3>3. \A j \in UnitItems(u) : watch'[j] = m[j]
      BY <1>3 DEF UnitItems, Only
    <3>4. UnitRoots(watch', u) = UnitRoots(m, u)
      BY <3>3, RootsSame
    <3> HIDE DEF m, ks
    <3>5. y(i).row \cup y(i).seen \cup y(i).oos \subseteq UnitRoots(m, u)
      BY <2>1, <3>2, CatchUpJobItem
    <3> HIDE DEF y
    <3> QED  BY <2>1, <3>1, <3>4, <3>5 DEF LiveOf
  <2>2. CASE Owner[i] # u
    <3>1. live'[i] = live[i]
      BY <1>3, <2>2 DEF UnitBecomes
    <3>2. \A j \in UnitItems(Owner[i]) : watch'[j] = watch[j]
      BY <1>3, <2>2 DEF UnitItems
    <3>3. UnitRoots(watch', Owner[i]) = UnitRoots(watch, Owner[i])
      BY <3>2, RootsSame
    <3> QED  BY <3>1, <3>3 DEF Rooted
  <2> QED  BY <2>1, <2>2
<1> QED  BY <1>1, <1>2, <1>3

\* New observers.
LEMMA BuildUnitsRooted == ASSUME Types, Rooted, BuildUnits PROVE Rooted'
<1> DEFINE kept(i) == memory.rows[i].row \cap UnitRoots(watch, Owner[i])
<1>1. /\ live' = [i \in Items |->
                    IF Owner[i] \notin unbuilt THEN live[i]
                    ELSE [row |-> kept(i), seen |-> disk[i] \cap Watched(watch, i),
                          oos |-> memory.rows[i].oos \cap kept(i)]]
      /\ running' = running \cup unbuilt
      /\ watch' = watch
  BY DEF BuildUnits
<1> SUFFICES ASSUME NEW i \in Items, Owner[i] \in running'
             PROVE  live'[i].row \cup live'[i].seen \cup live'[i].oos \subseteq UnitRoots(watch, Owner[i])
  BY <1>1 DEF Rooted
<1>2. CASE Owner[i] \in unbuilt
  <2>1. kept(i) \subseteq UnitRoots(watch, Owner[i]) /\ Watched(watch, i) \subseteq UnitRoots(watch, Owner[i])
    BY WatchedInRoots
  <2> HIDE DEF kept
  <2>2. live'[i] = [row |-> kept(i), seen |-> disk[i] \cap Watched(watch, i),
                    oos |-> memory.rows[i].oos \cap kept(i)]
    BY <1>1, <1>2
  <2> QED  BY <2>1, <2>2
<1>3. CASE Owner[i] \notin unbuilt
  BY <1>1, <1>3 DEF Rooted
<1> QED  BY <1>2, <1>3

\* A unit that is caught up does not run yet.
LEMMA NewUnitRooted == ASSUME Types, Rooted, NewUnit PROVE Rooted'
<1>1. PICK u \in todo : watch' = [i \in Items |-> IF Owner[i] = u THEN snapshot[i] ELSE watch[i]]
  BY DEF NewUnit
<1>2. UNCHANGED <<live, running>> /\ pc = "new"
  BY DEF NewUnit
<1>3. u \notin running
  BY <1>1, <1>2 DEF Types, Control, Phased
<1>4. \A i \in Items : Owner[i] \in running =>
         live'[i] = live[i] /\ \A j \in UnitItems(Owner[i]) : watch'[j] = watch[j]
  BY <1>1, <1>2, <1>3 DEF UnitItems
<1> QED  BY <1>2, <1>4, RootedStays

\* Every step.
LEMMA NextRooted == ASSUME Types, Rooted, [Next]_vars PROVE Rooted'
<1>1. ASSUME UNCHANGED <<live, watch, running>> PROVE Rooted'
  BY <1>1 DEF Rooted
<1>2. CASE UNCHANGED vars \/ WriteDisk \/ EditYaml \/ Start \/ RequestReload \/ IngestSteps
           \/ NewUnitFails \/ ReloadWaits \/ ReloadDone \/ DirectReload
  <2>1. UNCHANGED <<live, watch, running>>
    BY <1>2 DEF vars, WriteDisk, EditYaml, Start, RequestReload, IngestSteps, Retract, SaveSnapshot,
                PersistPruned, DropDocs, NewUnitFails, ReloadWaits, ReloadDone, DirectReload, units
  <2> QED  BY <1>1, <2>1
<1>3. CASE StartCatchUp
  <2>1. pc = "catchup" /\ running' = running
    BY <1>3 DEF StartCatchUp
  <2>2. running = {}
    BY <2>1 DEF Types, Control, Phased
  <2> QED  BY <2>1, <2>2 DEF Rooted
<1>4. CASE ReloadUnits
  <2>1. UNCHANGED <<live, watch>> /\ running' \subseteq running
    BY <1>4 DEF ReloadUnits
  <2> QED  BY <2>1 DEF Rooted
<1>5. ASSUME NEW u \in Units, Exit(u) PROVE Rooted'
  <2>1. /\ u \in stopping /\ running' = running
        /\ live' = [i \in Items |-> IF Owner[i] = u THEN NotLive ELSE live[i]]
        /\ watch' = [i \in Items |-> IF Owner[i] = u THEN {} ELSE watch[i]]
    BY <1>5 DEF Exit
  <2>2. u \notin running
    BY <2>1 DEF Types, Control, UnitSets
  <2>3. \A i \in Items : Owner[i] \in running =>
           live'[i] = live[i] /\ \A j \in UnitItems(Owner[i]) : watch'[j] = watch[j]
    BY <2>1, <2>2 DEF UnitItems
  <2> QED  BY <2>1, <2>3, RootedStays
<1>6. CASE Crash
  <2>1. running' = {}
    BY <1>6 DEF Crash
  <2> QED  BY <2>1 DEF Rooted
<1> QED  BY <1>2, <1>3, <1>4, <1>5, <1>6, BuildUnitsRooted, NewUnitRooted, IdleRooted, CatchUpJobRooted
         DEF Next, CatchUpSteps, ReloadSteps

\* What a catch-up leaves in memory is a baseline.
LEMMA CatchUpHeld == ASSUME Types, NEW m, MapIs(m), CatchUp(m) PROVE memory' # None
<1>1. TreesAre(memory')
  BY CatchUpIs DEF Types, World, Stores
<1> QED  BY <1>1, TreesAreSome

\* What a unit leaves there, too.
LEMMA UnitHeld ==
  ASSUME Types, [Next]_vars, NEW u \in Units, CatchUpJob(u) \/ Idle(u)
  PROVE  memory' \in {memory, UnitTrees(u, live', keys')} /\ (memory' # memory => memory' # None)
<1>1. memory' \in {memory, UnitTrees(u, live', keys')}
  BY DEF CatchUpJob, Idle
<1>2. Types'
  BY NextTypes
<1>3. TreesAre(UnitTrees(u, live', keys'))
  BY <1>2, UnitTreesAre DEF Types, Remembers
<1> QED  BY <1>1, <1>3, TreesAreSome

\* Every step.
LEMMA NextHeld == ASSUME Types, Held, [Next]_vars PROVE Held'
<1>1. ASSUME UNCHANGED <<memory, running, unbuilt>> PROVE Held'
  BY <1>1 DEF Held
<1>2. CASE UNCHANGED vars \/ WriteDisk \/ EditYaml \/ Start \/ RequestReload \/ Retract \/ SaveSnapshot
           \/ DropDocs \/ NewUnitFails \/ ReloadWaits \/ ReloadDone
  <2>1. UNCHANGED <<memory, running, unbuilt>>
    BY <1>2 DEF vars, WriteDisk, EditYaml, Start, RequestReload, Retract, SaveSnapshot,
                DropDocs, NewUnitFails, ReloadWaits, ReloadDone, units
  <2> QED  BY <1>1, <2>1
<1>3. CASE PersistPruned
  <2>1. UNCHANGED <<running, unbuilt>> /\ pc = "prune"
    BY <1>3 DEF PersistPruned, units
  <2>2. unbuilt = {} /\ (~plan.reload => running = {})
    BY <2>1 DEF Types, Control, Phased
  <2>3. CASE memory' = memory
    BY <2>1, <2>3 DEF Held
  <2>4. CASE plan.reload /\ memory' # memory
    <3>1. LoadBaseline # None /\ memory' = Pruned(LoadBaseline, plan.old, plan.new)
      BY <1>3, <2>4 DEF PersistPruned
    <3>2. TreesAre(LoadBaseline)
      BY <3>1, LoadIs DEF Types, Stores
    <3>3. TreesAre(memory')
      BY <3>1, <3>2, PrunedAre
    <3> QED  BY <3>3, TreesAreSome DEF Held
  <2> QED  BY <2>1, <2>2, <2>3, <2>4 DEF Held
<1>4. CASE StartCatchUp
  <2>1. CatchUp(IF snapshot = None THEN file ELSE snapshot)
    BY <1>4 DEF StartCatchUp
  <2>2. MapIs(IF snapshot = None THEN file ELSE snapshot)
    BY MappingsAre DEF Types, World
  <2> QED  BY <2>1, <2>2, CatchUpHeld DEF Held
<1>5. CASE NewUnit
  <2>1. PICK u \in todo : CatchUp(Only(snapshot, {u}))
    BY <1>5 DEF NewUnit
  <2>2. pc = "new"
    BY <1>5 DEF NewUnit
  <2>3. MapIs(Only(snapshot, {u}))
    BY <2>2, MappingsAre, OnlyIs DEF Types, Control, Phased
  <2> QED  BY <2>1, <2>3, CatchUpHeld DEF Held
<1>6. CASE BuildUnits
  <2>1. memory' = memory /\ running' \cup unbuilt' = running \cup unbuilt
    BY <1>6 DEF BuildUnits
  <2> QED  BY <2>1 DEF Held
<1>7. CASE ReloadUnits
  <2>1. memory' = memory /\ unbuilt' = unbuilt /\ running' \subseteq running
    BY <1>7 DEF ReloadUnits
  <2> QED  BY <2>1 DEF Held
<1>8. CASE DirectReload
  <2> DEFINE m == Only(file, Affected(plan.old, plan.new))
  <2>1. UNCHANGED <<running, unbuilt>> /\ (memory' = memory \/ CatchUp(m))
    BY <1>8 DEF DirectReload, units
  <2>2. MapIs(m)
    BY MappingsAre, OnlyIs DEF Types, World
  <2> HIDE DEF m
  <2> QED  BY <2>1, <2>2, CatchUpHeld DEF Held
<1>9. ASSUME NEW u \in Units, CatchUpJob(u) \/ Idle(u) PROVE Held'
  <2>1. UNCHANGED <<running, unbuilt>>
    BY <1>9 DEF CatchUpJob, Idle
  <2>2. memory' # memory => memory' # None
    BY <1>9, UnitHeld
  <2> QED  BY <2>1, <2>2 DEF Held
<1>10. ASSUME NEW u \in Units, Exit(u) PROVE Held'
  BY <1>10 DEF Exit, Held
<1>11. CASE Crash
  BY <1>11 DEF Crash, Held
<1> QED  BY <1>2, <1>3, <1>4, <1>5, <1>6, <1>7, <1>8, <1>9, <1>10, <1>11
         DEF Next, IngestSteps, CatchUpSteps, ReloadSteps

-----------------------------------------------------------------------------
\* What is stored and loaded of files

FileItems(m, u) == {i \in UnitItems(u) \ DirItems : m[i] # {}}
RowsOf(i) == [row |-> live[i].row, oos |-> live[i].oos \cap live[i].row]

\* Units that no reload has anything to do for.
Settled ==
  running \ (queued \cup IF pc \in {"retract", "prune", "drop", "units"}
                         THEN Affected(plan.old, plan.new) ELSE {})

\* The document of the file items says what the unit remembers.
Written(u) == \A i \in FileItems(watch, u) : live[i].row # {} => docs[i].files = RowsOf(i)

\* So does the baseline in memory, or it has nothing of the unit.
Loaded(u) ==
  \/ \A i \in UnitItems(u) : memory.rows[i].row = {}
  \/ \A i \in FileItems(watch, u) : KeptRows(memory, watch, i) = RowsOf(i)

\* What a new observer will remember is written.
ToBuild ==
  pc = "build" => \A u \in unbuilt : \A i \in FileItems(watch, u) :
    KeptRows(memory, watch, i).row # {} => docs[i].files = KeptRows(memory, watch, i)

Saved == clean => (\A u \in Settled : Written(u) /\ Loaded(u)) /\ ToBuild

\* Without a reload in progress every unit is settled.
LEMMA SavedReadBack == Saved => FileRowsReadBack
<1> SUFFICES ASSUME Saved, Quiet, clean, NEW u \in running, NEW i \in UnitItems(u) \ DirItems,
                    watch[i] # {}, live[i].row # {}
             PROVE  docs[i].files = RowsOf(i)
  BY DEF FileRowsReadBack, RowsOf
<1>1. u \in Settled
  BY DEF Settled, Quiet
<1> QED  BY <1>1 DEF Saved, Written, FileItems

\* The rows that count, from the same rows and for the same mapping of the unit.
LEMMA KeptRowsSame ==
  ASSUME NEW i \in Items, NEW t, NEW m, NEW n, \A j \in UnitItems(Owner[i]) : m[j] = n[j]
  PROVE  KeptRows(t, m, i) = KeptRows(t, n, i)
<1>1. UnitRoots(m, Owner[i]) = UnitRoots(n, Owner[i])
  BY RootsSame
<1> QED  BY <1>1 DEF KeptRows

\* What a save does to the rows of a file item that is mapped.
LEMMA SavedFile ==
  ASSUME NEW i \in Items \ DirItems, NEW d, NEW t, NEW m, m[i] # {}
  PROVE  \/ /\ SavedDocs(d, t, m)[i].files = docs[i].files
            /\ KeptRows(t, m, i).row = {}
         \/ /\ SavedDocs(d, t, m)[i].files = KeptRows(t, m, i)
            /\ \E j \in UnitItems(Owner[i]) : KeptRows(t, m, j).row # {}
<1> DEFINE kept(k)  == KeptRows(t, m, k)
           files(k) == m[k] # {} /\ InFiles(d, k)
           rewritten(u) == \E k \in UnitItems(u) : files(k) /\ kept(k).row # {}
           own(k) == IF m[k] # {} /\ ~InFiles(d, k) /\ kept(k).row # {} THEN kept(k) ELSE docs[k].own
           fs(k)  == IF ~rewritten(Owner[k]) THEN docs[k].files
                     ELSE IF files(k) THEN kept(k) ELSE NoRows
           new    == SavedDocs(d, t, m)
<1>1. new = [k \in Items |-> [own |-> own(k), files |-> fs(k)]]
  BY DEF SavedDocs
<1>2. files(i) /\ i \in UnitItems(Owner[i])
  BY DEF InFiles, UnitItems
<1>3. rewritten(Owner[i]) => \E j \in UnitItems(Owner[i]) : kept(j).row # {}
  OBVIOUS
<1>4. ~rewritten(Owner[i]) => kept(i).row = {}
  BY <1>2
<1> HIDE DEF kept, files, rewritten
<1>5. IF rewritten(Owner[i]) THEN fs(i) = kept(i) ELSE fs(i) = docs[i].files
  BY <1>2
<1> HIDE DEF own, fs, new
<1>6. new[i].files = fs(i)
  BY <1>1
<1> HIDE <1>1
<1>7. \/ new[i].files = docs[i].files /\ kept(i).row = {}
      \/ new[i].files = kept(i) /\ \E j \in UnitItems(Owner[i]) : kept(j).row # {}
  BY <1>3, <1>4, <1>5, <1>6
<1> QED  BY <1>7 DEF new, kept

\* And to those of a unit it does not map.
LEMMA SavedOther ==
  ASSUME NEW i \in Items, NEW d, NEW t, NEW m, \A j \in UnitItems(Owner[i]) : m[j] = {}
  PROVE  SavedDocs(d, t, m)[i].files = docs[i].files
BY DEF SavedDocs

\* A unit of which nothing changes that counts.
LEMMA UnitStays ==
  ASSUME NEW v, Written(v), Loaded(v),
         \A i \in UnitItems(v) : /\ RowsOf(i)' = RowsOf(i) /\ watch'[i] = watch[i]
                                 /\ docs'[i].files = docs[i].files,
         \/ memory' = memory
         \/ \A i \in UnitItems(v) : memory'.rows[i].row = {}
         \/ \A i \in UnitItems(v) : /\ memory'.rows[i].row = memory.rows[i].row
                                    /\ memory'.rows[i].oos = memory.rows[i].oos \cap memory.rows[i].row
  PROVE  Written(v)' /\ Loaded(v)'
<1>1. FileItems(watch, v)' = FileItems(watch, v) /\ UnitItems(v)' = UnitItems(v)
  BY DEF FileItems, UnitItems
<1>2. \A i \in UnitItems(v) : live'[i].row = live[i].row
  BY DEF RowsOf
<1>3. Written(v)'
  BY <1>1, <1>2 DEF Written, FileItems
<1>4. ASSUME NEW i \in UnitItems(v), KeptRows(memory, watch, i) = RowsOf(i),
             \/ memory' = memory
             \/ /\ memory'.rows[i].row = memory.rows[i].row
                /\ memory'.rows[i].oos = memory.rows[i].oos \cap memory.rows[i].row
      PROVE  KeptRows(memory', watch', i) = RowsOf(i)'
  <2>1. i \in Items /\ Owner[i] = v
    BY DEF UnitItems
  <2>2. KeptRows(memory', watch', i) = KeptRows(memory', watch, i)
    BY <2>1, KeptRowsSame
  <2>3. KeptRows(memory', watch, i) = KeptRows(memory, watch, i)
    BY <1>4 DEF KeptRows
  <2> QED  BY <1>4, <2>2, <2>3
<1>5. Loaded(v)'
  <2>1. CASE \A i \in UnitItems(v) : memory'.rows[i].row = {}
    BY <1>1, <2>1 DEF Loaded
  <2>2. CASE /\ \A i \in UnitItems(v) : memory.rows[i].row = {}
             /\ \A i \in UnitItems(v) : memory'.rows[i].row = memory.rows[i].row
    BY <1>1, <2>2 DEF Loaded
  <2>3. CASE /\ \A i \in FileItems(watch, v) : KeptRows(memory, watch, i) = RowsOf(i)
             /\ \/ memory' = memory
                \/ \A i \in UnitItems(v) : /\ memory'.rows[i].row = memory.rows[i].row
                                           /\ memory'.rows[i].oos = memory.rows[i].oos \cap memory.rows[i].row
    <3>1. \A i \in FileItems(watch, v) : i \in UnitItems(v)
      BY DEF FileItems
    <3>2. \A i \in FileItems(watch, v) : KeptRows(memory', watch', i) = RowsOf(i)'
      BY <1>4, <2>3, <3>1
    <3> QED  BY <1>1, <3>2 DEF Loaded
  <2> QED  BY <2>1, <2>2, <2>3 DEF Loaded
<1> QED  BY <1>3, <1>5

\* A save of a unit leaves nothing of the others in memory and their documents alone.
LEMMA UnitSavesAlone ==
  ASSUME NEW u, NEW m, \A i \in Items : Owner[i] # u => m[i] = {},
         docs' = SavedDocs(disk', UnitTrees(u, live', keys'), m), memory' = UnitTrees(u, live', keys'),
         NEW i \in Items, Owner[i] # u
  PROVE  docs'[i].files = docs[i].files /\ memory'.rows[i].row = {}
<1> DEFINE t == UnitTrees(u, live', keys')
<1>1. \A j \in UnitItems(Owner[i]) : m[j] = {}
  BY DEF UnitItems
<1>2. t.rows[i] = NoRows
  BY DEF UnitTrees
<1>3. docs' = SavedDocs(disk', t, m) /\ memory' = t
  OBVIOUS
<1> HIDE DEF t
<1> QED  BY <1>1, <1>2, <1>3, SavedOther DEF NoRows

\* A unit saves what it remembers.
LEMMA UnitSavesFiles ==
  ASSUME NEW u \in running', Rooted', NEW m,
         \A i \in Items : m[i] = IF Owner[i] = u THEN watch'[i] ELSE {},
         docs' = SavedDocs(disk', UnitTrees(u, live', keys'), m), memory' = UnitTrees(u, live', keys')
  PROVE  Written(u)' /\ Loaded(u)'
<1> DEFINE t == UnitTrees(u, live', keys')
<1>1. ASSUME NEW i \in UnitItems(u)
      PROVE  KeptRows(t, watch', i) = RowsOf(i)' /\ KeptRows(t, m, i) = RowsOf(i)'
  <2>1. i \in Items /\ Owner[i] = u
    BY DEF UnitItems
  <2>2. t.rows[i] = [row |-> live'[i].row, oos |-> live'[i].oos \cap live'[i].row]
    BY <2>1 DEF UnitTrees
  <2>3. live'[i].row \subseteq UnitRoots(watch', u)
    BY <2>1 DEF Rooted, UnitRoots, UnitTargets, UnitItems
  <2>4. KeptRows(t, m, i) = KeptRows(t, watch', i)
    <3>1. \A j \in UnitItems(Owner[i]) : m[j] = watch'[j]
      BY <2>1 DEF UnitItems
    <3> QED  BY <2>1, <3>1, KeptRowsSame
  <2> HIDE DEF t
  <2>5. KeptRows(t, watch', i) = [row |-> live'[i].row, oos |-> live'[i].oos \cap live'[i].row]
    <3> DEFINE row == live'[i].row
               oos == live'[i].oos \cap row
               R   == UnitRoots(watch', u)
    <3>1. KeptRows(t, watch', i) = [row |-> t.rows[i].row \cap R, oos |-> t.rows[i].oos \cap (t.rows[i].row \cap R)]
      BY <2>1 DEF KeptRows
    <3>2. t.rows[i].row = row /\ t.rows[i].oos = oos
      BY <2>2
    <3>3. row \cap R = row /\ oos \cap row = oos
      BY <2>3
    <3> HIDE DEF row, oos, R
    <3>4. KeptRows(t, watch', i) = [row |-> row, oos |-> oos]
      BY <3>1, <3>2, <3>3
    <3> QED  BY <3>4 DEF row, oos
  <2> QED  BY <2>4, <2>5 DEF RowsOf
<1>2. docs' = SavedDocs(disk', t, m) /\ memory' = t
  OBVIOUS
<1> HIDE DEF t
<1>3. FileItems(watch', u) \subseteq UnitItems(u) /\ FileItems(watch, u)' = FileItems(watch', u)
  BY DEF FileItems, UnitItems
<1>4. Loaded(u)'
  BY <1>1, <1>2, <1>3 DEF Loaded
<1>5. ASSUME NEW i \in FileItems(watch', u), live'[i].row # {}
      PROVE  docs'[i].files = RowsOf(i)'
  <2>1. i \in Items \ DirItems /\ Owner[i] = u /\ m[i] # {} /\ i \in UnitItems(u)
    BY DEF FileItems, UnitItems
  <2>2. KeptRows(t, m, i) = RowsOf(i)'
    BY <1>1, <2>1
  <2>3. KeptRows(t, m, i).row # {}
    BY <1>5, <2>2 DEF RowsOf
  <2> QED  BY <1>2, <2>1, <2>2, <2>3, SavedFile
<1>6. Written(u)'
  BY <1>3, <1>5 DEF Written
<1> QED  BY <1>4, <1>6

\* A catch-up on the thread writes the file items it maps and leaves other units alone.
LEMMA CatchUpFiles ==
  ASSUME NEW m, CatchUp(m), NEW i \in Items
  PROVE  /\ i \notin DirItems /\ m[i] # {} /\ KeptRows(memory', m, i).row # {}
              => docs'[i].files = KeptRows(memory', m, i)
         /\ memory # None /\ (\A j \in UnitItems(Owner[i]) : m[j] = {})
              => /\ docs'[i].files = docs[i].files
                 /\ memory'.rows[i].row = memory.rows[i].row
                 /\ memory'.rows[i].oos = memory.rows[i].oos \cap memory.rows[i].row
<1> DEFINE b     == LoadBaseline
           ys    == CaughtUp(m, b)
           trees == CaughtUpTrees(m, b, ys)
<1>1. docs' = SavedDocs(disk', trees, m) /\ memory' = trees
  BY DEF CatchUp
<1>2. trees.rows[i] = [row |-> ys[i].row, oos |-> ys[i].oos \cap ys[i].row]
  BY DEF CaughtUpTrees
<1>3. ASSUME memory # None, \A j \in UnitItems(Owner[i]) : m[j] = {}
      PROVE  /\ docs'[i].files = docs[i].files
             /\ memory'.rows[i].row = memory.rows[i].row
             /\ memory'.rows[i].oos = memory.rows[i].oos \cap memory.rows[i].row
  <2> DEFINE lv == FromTrees(memory, i)
             x  == ItemOf(i, lv)
             scanned == IF Owner[i] \in Present(m)
                        THEN {Owner[i]} \cup (UnitTargets(m, Owner[i]) \cap memory.keys) ELSE {}
  <2>1. b = memory /\ m[i] = {}
    BY <1>3 DEF LoadBaseline, UnitItems
  <2>2. scanned = {}
    BY <1>3 DEF Present, UnitItems
  <2>3. ys[i] = [x EXCEPT !.row = @ \ (scanned \ disk[i])]
    BY <1>3, <2>1 DEF CaughtUp
  <2> HIDE DEF scanned
  <2>4. x.row = memory.rows[i].row /\ x.oos = memory.rows[i].oos
    BY DEF ItemOf, FromTrees
  <2>5. x = [disk |-> disk[i], row |-> lv.row, seen |-> lv.seen, oos |-> lv.oos, box |-> {}, gone |-> FALSE]
    BY DEF ItemOf
  <2> HIDE DEF x, lv
  <2>6. ys[i].row = x.row /\ ys[i].oos = x.oos
    BY <2>2, <2>3, <2>5
  <2> HIDE DEF ys, trees
  <2>7. docs'[i].files = docs[i].files
    BY <1>1, <1>3, SavedOther
  <2> QED  BY <1>1, <1>2, <2>4, <2>6, <2>7
<1> HIDE DEF ys, trees
<1>4. ASSUME i \notin DirItems, m[i] # {}, KeptRows(memory', m, i).row # {}
      PROVE  docs'[i].files = KeptRows(memory', m, i)
  BY <1>1, <1>4, SavedFile
<1> QED  BY <1>3, <1>4

\* Steps in which units that are settled were, and nothing of them changes.
LEMMA SavedStays ==
  ASSUME Saved, clean' => clean, Settled' \subseteq Settled, UNCHANGED <<live, watch, docs, memory>>,
         pc' = "build" => pc = "build" /\ unbuilt' = unbuilt
  PROVE  Saved'
<1> SUFFICES ASSUME clean' PROVE (\A u \in Settled' : Written(u)' /\ Loaded(u)') /\ ToBuild'
  BY DEF Saved
<1>1. \A u : (Written(u)' <=> Written(u)) /\ (Loaded(u)' <=> Loaded(u))
  BY DEF Written, Loaded, FileItems, UnitItems, RowsOf, KeptRows, UnitRoots, UnitTargets
<1>2. ToBuild'
  BY DEF Saved, ToBuild, FileItems, UnitItems, KeptRows, UnitRoots, UnitTargets
<1> QED  BY <1>1, <1>2 DEF Saved

\* What is to be built is as before.
LEMMA ToBuildStays ==
  ASSUME ToBuild, pc' = pc, unbuilt' = unbuilt,
         pc = "build" => \A i \in Items : Owner[i] \in unbuilt =>
           /\ watch'[i] = watch[i] /\ docs'[i].files = docs[i].files
           /\ memory'.rows[i].row = {} \/ memory' = memory
  PROVE  ToBuild'
<1> SUFFICES ASSUME pc = "build", NEW u \in unbuilt, NEW i \in FileItems(watch', u),
                    KeptRows(memory', watch', i).row # {}
             PROVE  docs'[i].files = KeptRows(memory', watch', i)
  BY DEF ToBuild, FileItems, UnitItems
<1>1. i \in Items \ DirItems /\ Owner[i] = u /\ watch'[i] # {}
  BY DEF FileItems, UnitItems
<1>2. \A j \in UnitItems(Owner[i]) : watch'[j] = watch[j]
  BY <1>1 DEF UnitItems
<1>3. KeptRows(memory', watch', i) = KeptRows(memory', watch, i)
  BY <1>1, <1>2, KeptRowsSame
<1>4. memory'.rows[i].row # {}
  BY DEF KeptRows
<1>5. memory' = memory /\ docs'[i].files = docs[i].files /\ i \in FileItems(watch, u)
  BY <1>1, <1>4 DEF FileItems, UnitItems
<1> QED  BY <1>3, <1>5 DEF ToBuild

\* A save of a unit that runs or is being stopped.
LEMMA UnitSaved ==
  ASSUME Types, Saved, clean, Rooted', NEW u \in running \cup stopping, NEW m,
         \A i \in Items : m[i] = IF Owner[i] = u THEN watch'[i] ELSE {},
         docs' = SavedDocs(disk', UnitTrees(u, live', keys'), m), memory' = UnitTrees(u, live', keys'),
         \A i \in Items : Owner[i] # u => live'[i] = live[i] /\ watch'[i] = watch[i],
         UNCHANGED <<running, unbuilt, pc>>, Settled' \subseteq Settled \cup {u}
  PROVE  (\A v \in Settled' : Written(v)' /\ Loaded(v)') /\ ToBuild'
<1>1. (\A v \in Settled : Written(v) /\ Loaded(v)) /\ ToBuild
  BY DEF Saved
<1>2. ASSUME NEW i \in Items, Owner[i] # u
      PROVE  docs'[i].files = docs[i].files /\ memory'.rows[i].row = {}
  BY <1>2, UnitSavesAlone
<1>3. ASSUME NEW v \in Settled, v # u PROVE Written(v)' /\ Loaded(v)'
  <2>1. \A i \in UnitItems(v) : /\ docs'[i].files = docs[i].files /\ memory'.rows[i].row = {}
                                /\ RowsOf(i)' = RowsOf(i) /\ watch'[i] = watch[i]
    BY <1>2, <1>3 DEF UnitItems, RowsOf
  <2> QED  BY <1>1, <1>3, <2>1, UnitStays
<1>4. u \in Settled' => Written(u)' /\ Loaded(u)'
  <2>1. u \in Settled' => u \in running'
    BY DEF Settled
  <2> QED  BY <2>1, UnitSavesFiles
<1>5. ToBuild'
  <2>1. pc = "build" => \A i \in Items : Owner[i] \in unbuilt => Owner[i] # u
    BY DEF Types, Control, Phased
  <2> QED  BY <1>1, <1>2, <2>1, ToBuildStays
<1> QED  BY <1>3, <1>4, <1>5

\* A tick.
LEMMA IdleSaved ==
  ASSUME Types, Rooted, Saved, NEW u \in Units, Idle(u)
  PROVE  Saved'
<1> DEFINE x(i)  == ItemOf(i, live[i])
           W(i)  == Watched(watch, i)
           y(i)  == Tick(x(i), u, W(i))
           ys    == [i \in Items |-> IF Owner[i] = u THEN y(i) ELSE x(i)]
           after == keys \cup UNION {KeysOf(x(i), ys[i], watch, i) : i \in UnitItems(u)}
           m     == Only(watch, {u})
           t     == UnitTrees(u, live', keys')
<1>1. /\ UnitBecomes(u, ys, after)
      /\ \/ /\ docs' = SavedDocs(disk', t, m) /\ memory' = t
         \/ /\ UNCHANGED <<docs, memory>>
            /\ \A i \in UnitItems(u) : Observe(x(i), u, W(i)).box = {} /\ ys[i].oos = live[i].oos
      /\ UNCHANGED <<watch, running, queued, unbuilt, pc, plan, clean>>
      /\ u \in running \cup stopping
  BY DEF Idle, ingest
<1>r. Rooted'
  BY IdleRooted
<1>2. Settled' = Settled /\ Settled \subseteq running
  BY <1>1 DEF Settled, Affected
<1>4. \A i \in Items : live'[i] = IF Owner[i] = u THEN LiveOf(ys[i]) ELSE live[i]
  BY <1>1 DEF UnitBecomes
<1> HIDE DEF after
<1> SUFFICES ASSUME clean PROVE (\A v \in Settled : Written(v)' /\ Loaded(v)') /\ ToBuild'
  BY <1>1, <1>2 DEF Saved
<1>5. (\A v \in Settled : Written(v) /\ Loaded(v)) /\ ToBuild
  BY DEF Saved
<1>6. ASSUME NEW v, v # u, NEW i \in UnitItems(v)
      PROVE  RowsOf(i)' = RowsOf(i) /\ watch'[i] = watch[i]
  <2>1. live'[i] = live[i]
    BY <1>4, <1>6 DEF UnitItems
  <2> QED  BY <1>1, <2>1 DEF RowsOf
<1>7. CASE docs' = SavedDocs(disk', t, m) /\ memory' = t
  <2>1. \A i \in Items : m[i] = IF Owner[i] = u THEN watch'[i] ELSE {}
    BY <1>1 DEF Only
  <2>2. \A i \in Items : Owner[i] # u => live'[i] = live[i] /\ watch'[i] = watch[i]
    BY <1>1, <1>4
  <2> HIDE DEF m, ys
  <2> QED  BY <1>1, <1>2, <1>7, <1>r, <2>1, <2>2, UnitSaved
<1>8. CASE /\ UNCHANGED <<docs, memory>>
           /\ \A i \in UnitItems(u) : Observe(x(i), u, W(i)).box = {} /\ ys[i].oos = live[i].oos
  <2>1. ASSUME NEW i \in UnitItems(u), u \in running PROVE RowsOf(i)' = RowsOf(i)
    <3> DEFINE R == UnitRoots(watch, u)
               V == W(i)
               p == x(i)
               q == Tick(p, u, V)
    <3>1. i \in Items /\ Owner[i] = u
      BY DEF UnitItems
    <3>2. R \in SUBSET Places(i) /\ u \in R /\ V \in SUBSET R /\ p \in Item(Places(i), R, u)
      BY <2>1, <3>1, IdleItem
    <3>3. ys[i] = q
      BY <3>1
    <3>4. p.oos = live[i].oos /\ p.row = live[i].row
      BY DEF ItemOf
    <3>5. Observe(p, u, V).box = {} /\ q.oos = p.oos
      BY <1>8, <3>3, <3>4
    <3>6. live'[i] = LiveOf(q)
      BY <1>4, <3>1, <3>3
    <3>7. Order \in Seq(Roots)
      BY OrderAssumption
    <3> HIDE DEF R, p, V
    <3>8. QuietKeeps(p, u, V)
      BY <3>2, <3>7, QuietTick
    <3> HIDE DEF q
    <3>9. q.row = p.row
      BY <3>5, <3>8 DEF q, QuietKeeps
    <3>10. live'[i].row = live[i].row /\ live'[i].oos = live[i].oos
      BY <3>4, <3>5, <3>6, <3>9 DEF LiveOf
    <3> QED  BY <3>10 DEF RowsOf
  <2>2. ASSUME NEW v \in Settled PROVE Written(v)' /\ Loaded(v)'
    <3>1. \A i \in UnitItems(v) : RowsOf(i)' = RowsOf(i) /\ watch'[i] = watch[i] /\ docs'[i].files = docs[i].files
      BY <1>1, <1>2, <1>6, <1>8, <2>1, <2>2
    <3> QED  BY <1>5, <1>8, <2>2, <3>1, UnitStays
  <2>3. ToBuild'
    BY <1>1, <1>5, <1>8, ToBuildStays
  <2> QED  BY <2>2, <2>3
<1> QED  BY <1>1, <1>7, <1>8

\* A catch-up job of a unit.
LEMMA CatchUpJobSaved ==
  ASSUME Types, Steady, Rooted, Saved, NEW u \in Units, CatchUpJob(u)
  PROVE  Saved'
<1> DEFINE m     == Only(file, {u})
           x(i)  == Prune(ItemOf(i, live[i]), Watched(m, i))
           ks    == keys \ (({u} \cup TargetsOf[u]) \ UnitRoots(m, u))
           ys    == [i \in Items |-> IF m[i] = {} THEN x(i)
                                     ELSE CatchUpUpdate(x(i), u, m[i], m[i] \ ks)]
           after == ks \cup UNION {KeysOf(x(i), ys[i], m, i) : i \in UnitItems(u)}
<1>1. /\ u \in queued /\ queued' = queued \ {u}
      /\ UNCHANGED <<file, snapshot, running, unbuilt, pc, plan, clean>>
      /\ \/ m = NoItem /\ UNCHANGED <<live, watch, docs, memory>>
         \/ /\ UnitBecomes(u, ys, after)
            /\ watch' = [i \in Items |-> IF Owner[i] = u THEN file[i] ELSE watch[i]]
            /\ docs' = SavedDocs(disk', UnitTrees(u, live', keys'), m)
            /\ memory' = UnitTrees(u, live', keys')
  BY DEF CatchUpJob, ingest
<1> HIDE DEF ys, after
<1> SUFFICES ASSUME clean PROVE Saved'
  BY <1>1 DEF Saved
<1>2. plan.reload /\ pc \in {"new", "build", "wait"}
  BY <1>1, QueuedDuring
<1>3. file = snapshot /\ running \subseteq Present(snapshot)
  BY <1>2 DEF Steady, Planned, During
<1>4. Settled = running \ queued /\ Settled' = running \ queued'
  BY <1>1, <1>2 DEF Settled
<1>5. CASE m = NoItem /\ UNCHANGED <<live, watch, docs, memory>>
  <2>1. u \notin running
    <3> SUFFICES ASSUME u \in running PROVE FALSE
      OBVIOUS
    <3>1. PICK j \in Items : Owner[j] = u /\ snapshot[j] # {}
      BY <1>3 DEF Present
    <3>2. m[j] = snapshot[j] /\ m[j] = {}
      BY <1>3, <1>5, <3>1 DEF Only, NoItem
    <3> QED  BY <3>1, <3>2
  <2> HIDE DEF m
  <2>2. Settled' \subseteq Settled
    BY <1>1, <1>4, <2>1
  <2> QED  BY <1>1, <1>5, <2>2, SavedStays
<1>6. CASE /\ UnitBecomes(u, ys, after)
           /\ watch' = [i \in Items |-> IF Owner[i] = u THEN file[i] ELSE watch[i]]
           /\ docs' = SavedDocs(disk', UnitTrees(u, live', keys'), m)
           /\ memory' = UnitTrees(u, live', keys')
  <2>1. \A i \in Items : m[i] = IF Owner[i] = u THEN watch'[i] ELSE {}
    BY <1>6 DEF Only
  <2>2. \A i \in Items : Owner[i] # u => live'[i] = live[i] /\ watch'[i] = watch[i]
    BY <1>6 DEF UnitBecomes
  <2>3. u \in running \cup stopping
    BY <1>1 DEF Types, Control, UnitSets
  <2> HIDE DEF m
  <2>4. Rooted'
    BY CatchUpJobRooted
  <2>5. Settled' \subseteq Settled \cup {u}
    BY <1>1, <1>4
  <2>6. (\A v \in Settled' : Written(v)' /\ Loaded(v)') /\ ToBuild'
    BY <1>1, <1>6, <2>1, <2>2, <2>3, <2>4, <2>5, UnitSaved
  <2> QED  BY <2>6 DEF Saved
<1> QED  BY <1>1, <1>5, <1>6

\* What a catch-up on the thread leaves to be built is written.
LEMMA CatchUpToBuild ==
  ASSUME NEW m, CatchUp(m), \A i \in Items : Owner[i] \in unbuilt' => m[i] = watch'[i]
  PROVE  ToBuild'
<1> SUFFICES ASSUME NEW u \in unbuilt', NEW i \in FileItems(watch', u),
                    KeptRows(memory', watch', i).row # {}
             PROVE  docs'[i].files = KeptRows(memory', watch', i)
  BY DEF ToBuild, FileItems, UnitItems
<1>1. i \in Items \ DirItems /\ Owner[i] = u /\ m[i] # {}
  BY DEF FileItems, UnitItems
<1>2. \A j \in UnitItems(Owner[i]) : m[j] = watch'[j]
  BY <1>1 DEF UnitItems
<1>3. KeptRows(memory', m, i) = KeptRows(memory', watch', i)
  BY <1>1, <1>2, KeptRowsSame
<1>4. docs'[i].files = KeptRows(memory', m, i)
  BY <1>1, <1>3, CatchUpFiles
<1> QED  BY <1>3, <1>4

\* The catch-up of a start.
LEMMA StartCatchUpSaved == ASSUME Types, StartCatchUp PROVE Saved'
<1> DEFINE m == IF snapshot = None THEN file ELSE snapshot
<1>1. /\ pc = "catchup" /\ running' = running
      /\ CatchUp(m) /\ watch' = m
  BY DEF StartCatchUp
<1>2. running = {}
  BY <1>1 DEF Types, Control, Phased
<1>3. Settled' = {}
  BY <1>1, <1>2 DEF Settled
<1> HIDE DEF m
<1>4. ToBuild'
  BY <1>1, CatchUpToBuild
<1> QED  BY <1>3, <1>4 DEF Saved

\* The catch-up of a new unit.
LEMMA NewUnitSaved == ASSUME Types, Held, Saved, NewUnit PROVE Saved'
<1>1. /\ pc = "new" /\ pc' = "build"
      /\ UNCHANGED <<live, running, queued, plan, clean>>
  BY DEF NewUnit
<1>2. PICK u \in todo : /\ CatchUp(Only(snapshot, {u}))
                        /\ watch' = [i \in Items |-> IF Owner[i] = u THEN snapshot[i] ELSE watch[i]]
                        /\ unbuilt' = {u}
  BY DEF NewUnit
<1> DEFINE m == Only(snapshot, {u})
<1>3. u \notin running
  BY <1>1 DEF Types, Control, Phased
<1>4. Settled' = Settled /\ Settled \subseteq running
  BY <1>1 DEF Settled
<1> SUFFICES ASSUME clean PROVE Saved'
  BY <1>1 DEF Saved
<1>5. \A i \in Items : /\ m[i] = IF Owner[i] = u THEN watch'[i] ELSE {}
                       /\ Owner[i] # u => watch'[i] = watch[i]
  BY <1>2 DEF Only
<1>6. CatchUp(m)
  BY <1>2
<1> HIDE DEF m
<1>7. ToBuild'
  BY <1>2, <1>5, <1>6, CatchUpToBuild
<1>8. ASSUME NEW v \in Settled PROVE Written(v)' /\ Loaded(v)'
  <2>1. v # u /\ memory # None
    BY <1>3, <1>4, <1>8 DEF Held
  <2>2. ASSUME NEW i \in UnitItems(v)
        PROVE  /\ RowsOf(i)' = RowsOf(i) /\ watch'[i] = watch[i]
               /\ docs'[i].files = docs[i].files
               /\ memory'.rows[i].row = memory.rows[i].row
               /\ memory'.rows[i].oos = memory.rows[i].oos \cap memory.rows[i].row
    <3>1. i \in Items /\ Owner[i] = v
      BY DEF UnitItems
    <3>2. \A j \in UnitItems(Owner[i]) : m[j] = {}
      BY <1>5, <2>1, <3>1 DEF UnitItems
    <3>3. RowsOf(i)' = RowsOf(i) /\ watch'[i] = watch[i]
      BY <1>1, <1>5, <2>1, <3>1 DEF RowsOf
    <3> QED  BY <1>6, <2>1, <3>1, <3>2, <3>3, CatchUpFiles
  <2>3. Written(v) /\ Loaded(v)
    BY <1>8 DEF Saved
  <2> QED  BY <2>2, <2>3, UnitStays
<1> QED  BY <1>4, <1>7, <1>8 DEF Saved

\* New observers remember what is in memory, which is written.
LEMMA BuildUnitsSaved == ASSUME Types, Saved, BuildUnits PROVE Saved'
<1> DEFINE kept(i) == memory.rows[i].row \cap UnitRoots(watch, Owner[i])
<1>1. /\ pc = "build" /\ pc' \in {"new", "serve"}
      /\ live' = [i \in Items |->
                    IF Owner[i] \notin unbuilt THEN live[i]
                    ELSE [row |-> kept(i), seen |-> disk[i] \cap Watched(watch, i),
                          oos |-> memory.rows[i].oos \cap kept(i)]]
      /\ running' = running \cup unbuilt
      /\ UNCHANGED <<docs, memory, watch, queued, clean>>
  BY DEF BuildUnits, stored
<1> SUFFICES ASSUME clean PROVE Saved'
  BY <1>1 DEF Saved
<1>2. (\A u \in Settled : Written(u) /\ Loaded(u)) /\ ToBuild
  BY DEF Saved
<1>3. Settled' \subseteq Settled \cup unbuilt /\ Settled \cap unbuilt = {}
  BY <1>1 DEF Settled, Types, Control, Phased
<1>4. ASSUME NEW v \in Settled PROVE Written(v)' /\ Loaded(v)'
  <2>1. ASSUME NEW i \in UnitItems(v) PROVE RowsOf(i)' = RowsOf(i)
    <3>1. i \in Items /\ Owner[i] \notin unbuilt
      BY <1>3, <1>4 DEF UnitItems
    <3>2. live'[i] = live[i]
      BY <1>1, <3>1
    <3> QED  BY <3>2 DEF RowsOf
  <2> QED  BY <1>1, <1>2, <2>1, UnitStays
<1>5. ASSUME NEW u \in unbuilt PROVE Written(u)' /\ Loaded(u)'
  <2>1. FileItems(watch, u)' = FileItems(watch, u) /\ FileItems(watch, u) \subseteq UnitItems(u)
    BY <1>1 DEF FileItems, UnitItems
  <2>2. ASSUME NEW i \in UnitItems(u)
        PROVE  /\ RowsOf(i)' = KeptRows(memory, watch, i)
               /\ live'[i].row = KeptRows(memory, watch, i).row
    <3>1. i \in Items /\ Owner[i] \in unbuilt
      BY DEF UnitItems
    <3>2. live'[i].row = kept(i) /\ live'[i].oos = memory.rows[i].oos \cap kept(i)
      BY <1>1, <3>1
    <3>3. KeptRows(memory, watch, i) = [row |-> kept(i), oos |-> memory.rows[i].oos \cap kept(i)]
      BY DEF KeptRows
    <3> HIDE DEF kept
    <3>4. live'[i].oos \cap live'[i].row = memory.rows[i].oos \cap kept(i)
      BY <3>2
    <3> QED  BY <3>2, <3>3, <3>4 DEF RowsOf
  <2>3. \A i \in FileItems(watch, u) : KeptRows(memory, watch, i).row # {} => docs[i].files = KeptRows(memory, watch, i)
    BY <1>1, <1>2 DEF ToBuild
  <2>4. \A i \in FileItems(watch', u) : KeptRows(memory', watch', i) = RowsOf(i)'
    BY <1>1, <2>1, <2>2
  <2>5. \A i \in FileItems(watch', u) : live'[i].row # {} => docs'[i].files = RowsOf(i)'
    BY <1>1, <2>1, <2>2, <2>3
  <2>6. FileItems(watch, u)' = FileItems(watch', u)
    BY <1>1, <2>1
  <2> QED  BY <2>4, <2>5, <2>6 DEF Written, Loaded
<1>6. ToBuild'
  BY <1>1 DEF ToBuild
<1> QED  BY <1>3, <1>4, <1>5, <1>6 DEF Saved

\* The mapping a reload starts from maps projects to their own targets.
LEMMA OldTargets ==
  ASSUME Types, running = Present(plan.old), AsMapped(running, plan.old), NEW w \in Units
  PROVE  UnitTargets(plan.old, w) \subseteq TargetsOf[w]
<1> SUFFICES ASSUME NEW i \in UnitItems(w), plan.old[i] # {} PROVE plan.old[i] \subseteq TargetsOf[w]
  BY DEF UnitTargets
<1>1. i \in Items /\ Owner[i] = w
  BY DEF UnitItems
<1>2. w \in running
  BY <1>1 DEF Present
<1>3. watch[i] = plan.old[i]
  BY <1>2 DEF AsMapped
<1> QED  BY <1>1, <1>3 DEF Types, Remembers, MapIs

\* A prune keeps what there is of a unit that the reload does not affect.
LEMMA PrunedAlike ==
  ASSUME Types, running = Present(plan.old), AsMapped(running, plan.old),
         NEW v \in running \ Affected(plan.old, plan.new), NEW i \in UnitItems(v), NEW t
  PROVE  LET p == Pruned(t, plan.old, plan.new)
         IN  /\ p.rows[i].row \subseteq t.rows[i].row
             /\ KeptRows(p, watch, i) = KeptRows(t, watch, i)
<1> DEFINE lost == UNION {UnitTargets(plan.old, w) \ UnitTargets(plan.new, w) : w \in Units}
           gone == lost \cup (plan.old[i] \ plan.new[i])
           R    == UnitRoots(watch, v)
           p    == Pruned(t, plan.old, plan.new)
<1>1. i \in Items /\ Owner[i] = v /\ v \in Units
  BY DEF UnitItems, Types, Control, UnitSets
<1>2. \A j \in UnitItems(v) : plan.old[j] = plan.new[j] /\ watch[j] = plan.old[j]
  BY <1>1, AffectedIs DEF AsMapped
<1>3. UnitTargets(plan.old, v) = UnitTargets(plan.new, v) /\ R = {v} \cup UnitTargets(plan.old, v)
  BY <1>2, RootsSame DEF UnitRoots
<1>4. UnitTargets(plan.old, v) \subseteq TargetsOf[v]
  BY <1>1, OldTargets
<1>5. ASSUME NEW w \in Units
      PROVE  (UnitTargets(plan.old, w) \ UnitTargets(plan.new, w)) \cap R = {}
  <2>1. CASE w = v
    BY <1>3, <2>1
  <2>2. CASE w # v
    <3>1. UnitTargets(plan.old, w) \subseteq TargetsOf[w]
      BY OldTargets
    <3>2. TargetsOf[w] \cap TargetsOf[v] = {}
      BY <1>1, <2>2, StructureAssumption
    <3>3. v \notin TargetsOf[w]
      BY <1>1, StructureAssumption DEF Targets
    <3> QED  BY <1>3, <1>4, <3>1, <3>2, <3>3
  <2> QED  BY <2>1, <2>2
<1>6. gone \cap R = {}
  BY <1>2, <1>5
<1>7. p.rows[i] = [row |-> t.rows[i].row \ gone, oos |-> t.rows[i].oos \ gone]
  BY <1>1 DEF Pruned
<1> HIDE DEF lost, gone, p
<1>8. p.rows[i].row = t.rows[i].row \ gone /\ p.rows[i].oos = t.rows[i].oos \ gone
  BY <1>7
<1>9. p.rows[i].row \cap R = t.rows[i].row \cap R
  BY <1>6, <1>8
<1>10. p.rows[i].oos \cap (p.rows[i].row \cap R) = t.rows[i].oos \cap (t.rows[i].row \cap R)
  BY <1>6, <1>8
<1>11. KeptRows(p, watch, i) = KeptRows(t, watch, i)
  BY <1>1, <1>9, <1>10 DEF KeptRows
<1>12. p.rows[i].row \subseteq t.rows[i].row
  BY <1>8
<1> QED  BY <1>11, <1>12 DEF p

\* A reload prunes the baseline.
LEMMA PersistPrunedSaved == ASSUME Types, Steady, Held, Saved, PersistPruned PROVE Saved'
<1> DEFINE p == Pruned(LoadBaseline, plan.old, plan.new)
<1>1. /\ pc = "prune" /\ pc' = IF plan.reload THEN "drop" ELSE "catchup"
      /\ UNCHANGED <<live, watch, running, queued, plan, clean>>
      /\ \/ UNCHANGED <<docs, memory>>
         \/ /\ docs' = SavedDocs(disk, p, plan.old)
            /\ memory' = IF plan.reload THEN p ELSE None
  BY DEF PersistPruned, world, units
<1> SUFFICES ASSUME clean PROVE Saved'
  BY <1>1 DEF Saved
<1> HIDE DEF p
<1>2. ToBuild'
  BY <1>1 DEF ToBuild
<1>3. CASE ~plan.reload
  <2>1. running = {}
    BY <1>1, <1>3 DEF Types, Control, Phased
  <2>2. Settled' = {}
    BY <1>1, <2>1 DEF Settled
  <2> QED  BY <1>2, <2>2 DEF Saved
<1>4. CASE plan.reload
  <2>1. running = Present(plan.old) /\ AsMapped(running, plan.old)
    BY <1>1, <1>4 DEF Steady, Before
  <2>2. /\ Settled' = Settled
        /\ \A v \in Settled : v \in running \ Affected(plan.old, plan.new)
    BY <1>1, <1>4 DEF Settled
  <2>3. CASE UNCHANGED <<docs, memory>>
    BY <1>1, <2>2, <2>3, SavedStays
  <2>4. CASE docs' = SavedDocs(disk, p, plan.old) /\ memory' = p
    <3> SUFFICES ASSUME NEW v \in Settled PROVE Written(v)' /\ Loaded(v)'
      BY <1>2, <2>2 DEF Saved
    <3>1. v \in running \ Affected(plan.old, plan.new)
      BY <2>2
    <3>2. LoadBaseline = memory
      BY <3>1 DEF Held, LoadBaseline
    <3>3. \A i \in UnitItems(v) : /\ memory'.rows[i].row \subseteq memory.rows[i].row
                                  /\ KeptRows(memory', watch, i) = KeptRows(memory, watch, i)
      BY <2>1, <2>4, <3>1, <3>2, PrunedAlike DEF p
    <3>4. \A i \in UnitItems(v) : watch[i] = plan.old[i]
      BY <2>1, <3>1 DEF AsMapped
    <3>5. Written(v) /\ Loaded(v)
      BY DEF Saved
    <3>6. FileItems(watch, v)' = FileItems(watch, v) /\ FileItems(watch, v) \subseteq UnitItems(v)
      BY <1>1 DEF FileItems, UnitItems
    <3>7. \A i : RowsOf(i)' = RowsOf(i)
      BY <1>1 DEF RowsOf
    <3>8. Loaded(v)'
      <4>1. CASE \A i \in UnitItems(v) : memory.rows[i].row = {}
        <5>1. UnitItems(v)' = UnitItems(v)
          BY DEF UnitItems
        <5> QED  BY <3>3, <4>1, <5>1 DEF Loaded
      <4>2. CASE \A i \in FileItems(watch, v) : KeptRows(memory, watch, i) = RowsOf(i)
        <5>1. \A i \in FileItems(watch, v) : KeptRows(memory', watch', i) = RowsOf(i)'
          BY <1>1, <3>3, <3>6, <3>7, <4>2
        <5> QED  BY <3>6, <5>1 DEF Loaded
      <4> QED  BY <3>5, <4>1, <4>2 DEF Loaded
    <3>9. ASSUME NEW i \in FileItems(watch, v), live[i].row # {}
          PROVE  docs'[i].files = RowsOf(i)
      <4>1. i \in Items \ DirItems /\ Owner[i] = v /\ i \in UnitItems(v) /\ plan.old[i] # {}
        BY <3>4 DEF FileItems, UnitItems
      <4>2. docs[i].files = RowsOf(i)
        BY <3>5, <3>9 DEF Written
      <4>3. CASE docs'[i].files = docs[i].files
        BY <4>2, <4>3
      <4>4. CASE /\ docs'[i].files = KeptRows(memory', plan.old, i)
                 /\ \E j \in UnitItems(Owner[i]) : KeptRows(memory', plan.old, j).row # {}
        <5>1. KeptRows(memory', plan.old, i) = KeptRows(memory, watch, i)
          <6>1. \A j \in UnitItems(Owner[i]) : watch[j] = plan.old[j]
            BY <3>4, <4>1
          <6>2. KeptRows(memory', watch, i) = KeptRows(memory', plan.old, i)
            BY <4>1, <6>1, KeptRowsSame
          <6> QED  BY <3>3, <4>1, <6>2
        <5>2. PICK j \in UnitItems(v) : KeptRows(memory', plan.old, j).row # {}
          BY <4>1, <4>4
        <5>3. memory'.rows[j].row # {}
          BY <5>2 DEF KeptRows
        <5>4. memory.rows[j].row # {}
          BY <3>3, <5>2, <5>3
        <5>5. KeptRows(memory, watch, i) = RowsOf(i)
          BY <3>5, <3>9, <5>2, <5>4 DEF Loaded
        <5> QED  BY <4>4, <5>1, <5>5
      <4>5. \/ docs'[i].files = docs[i].files
            \/ /\ docs'[i].files = KeptRows(memory', plan.old, i)
               /\ \E j \in UnitItems(Owner[i]) : KeptRows(memory', plan.old, j).row # {}
        BY <2>4, <4>1, SavedFile
      <4> QED  BY <4>3, <4>4, <4>5
    <3>10. Written(v)'
      BY <1>1, <3>6, <3>7, <3>9 DEF Written
    <3> QED  BY <3>8, <3>10
  <2> QED  BY <1>1, <1>4, <2>3, <2>4
<1> QED  BY <1>3, <1>4

\* Documents of projects without a mapping go, of which no unit is settled.
LEMMA DropDocsSaved == ASSUME Types, Steady, Saved, DropDocs PROVE Saved'
<1>1. /\ pc = "drop" /\ pc' = "units"
      /\ UNCHANGED <<live, watch, memory, running, queued, plan, clean>>
      /\ docs' = [i \in Items |-> IF Owner[i] \in Present(plan.new) THEN docs[i]
                                  ELSE [own |-> NoRows, files |-> NoRows]]
  BY DEF DropDocs, world, units
<1> SUFFICES ASSUME clean PROVE Saved'
  BY <1>1 DEF Saved
<1>2. running = Present(plan.old) /\ Settled' = Settled
  BY <1>1 DEF Steady, Before, Settled, Types, Control, Phased
<1>3. ToBuild'
  BY <1>1 DEF ToBuild
<1>4. ASSUME NEW v \in Settled PROVE Written(v)' /\ Loaded(v)'
  <2>1. v \in running \ Affected(plan.old, plan.new)
    BY <1>1, <1>4 DEF Settled
  <2>2. v \in Present(plan.new)
    <3>1. PICK j \in Items : Owner[j] = v /\ plan.old[j] # {}
      BY <1>2, <2>1 DEF Present
    <3>2. plan.new[j] = plan.old[j]
      BY <2>1, <3>1 DEF Affected
    <3> QED  BY <3>1, <3>2 DEF Present
  <2>3. \A i \in UnitItems(v) : /\ RowsOf(i)' = RowsOf(i) /\ watch'[i] = watch[i]
                                /\ docs'[i].files = docs[i].files
    BY <1>1, <2>2 DEF UnitItems, RowsOf
  <2>4. Written(v) /\ Loaded(v)
    BY <1>4 DEF Saved
  <2> QED  BY <1>1, <2>3, <2>4, UnitStays
<1> QED  BY <1>2, <1>3, <1>4 DEF Saved

\* Units are stopped, told to catch up or listed: those that are not stay settled.
LEMMA ReloadUnitsSaved == ASSUME Types, Steady, Saved, ReloadUnits PROVE Saved'
<1>1. /\ pc = "units" /\ pc' \in {"direct", "new"}
      /\ UNCHANGED <<live, watch, docs, memory, plan, clean>>
  BY DEF ReloadUnits, stored
<1>2. Settled' \subseteq Settled
  <2>1. CASE running = {}
    <3>1. running' = {}
      BY <2>1 DEF ReloadUnits
    <3> QED  BY <3>1 DEF Settled
  <2>2. CASE running # {}
    <3> DEFINE changed == Affected(plan.old, plan.new) \cap Present(snapshot)
    <3>1. /\ running' = running \cap Present(snapshot)
          /\ queued' = queued \cup (changed \cap running)
      BY <2>2 DEF ReloadUnits
    <3> QED  BY <1>1, <3>1 DEF Settled
  <2> QED  BY <2>1, <2>2
<1> QED  BY <1>1, <1>2, SavedStays

\* A unit that exits was stopped.
LEMMA ExitSaved == ASSUME Types, Saved, NEW u \in Units, Exit(u) PROVE Saved'
<1>1. /\ u \in stopping
      /\ live' = [i \in Items |-> IF Owner[i] = u THEN NotLive ELSE live[i]]
      /\ watch' = [i \in Items |-> IF Owner[i] = u THEN {} ELSE watch[i]]
      /\ UNCHANGED <<docs, memory, running, queued, unbuilt, pc, plan, clean>>
  BY DEF Exit, stored, ingest
<1> SUFFICES ASSUME clean PROVE Saved'
  BY <1>1 DEF Saved
<1>2. u \notin running /\ (pc = "build" => u \notin unbuilt)
  BY <1>1 DEF Types, Control, UnitSets, Phased
<1>3. Settled' = Settled /\ Settled \subseteq running
  BY <1>1 DEF Settled
<1>4. (\A v \in Settled : Written(v) /\ Loaded(v)) /\ ToBuild
  BY DEF Saved
<1>5. \A i \in Items : Owner[i] # u => live'[i] = live[i] /\ watch'[i] = watch[i]
  BY <1>1
<1>6. ToBuild'
  BY <1>1, <1>2, <1>4, <1>5, ToBuildStays
<1>7. ASSUME NEW v \in Settled PROVE Written(v)' /\ Loaded(v)'
  <2>1. \A i \in UnitItems(v) : RowsOf(i)' = RowsOf(i) /\ watch'[i] = watch[i]
    BY <1>2, <1>3, <1>5, <1>7 DEF UnitItems, RowsOf
  <2> QED  BY <1>1, <1>4, <2>1, UnitStays
<1> QED  BY <1>3, <1>6, <1>7 DEF Saved

\* Steps of the thread and of users that write nothing of this.
LEMMA ThreadSaved ==
  ASSUME Types, Steady, Saved,
         WriteDisk \/ EditYaml \/ Start \/ RequestReload \/ Retract \/ SaveSnapshot
           \/ NewUnitFails \/ ReloadWaits \/ ReloadDone \/ DirectReload
  PROVE  Saved'
<1>1. CASE WriteDisk \/ EditYaml \/ Retract
  <2>1. UNCHANGED <<live, watch, docs, memory, running, queued, unbuilt, pc, plan>>
    BY <1>1 DEF WriteDisk, EditYaml, Retract, stored, units, ingest
  <2>c. clean' => clean
    BY <1>1, Zenon DEF WriteDisk, EditYaml, Retract
  <2>2. Settled' = Settled
    BY <2>1 DEF Settled
  <2> QED  BY <2>1, <2>2, <2>c, SavedStays
<1>2. CASE Start
  <2>1. /\ UNCHANGED <<live, watch, docs, memory, running, clean>>
        /\ pc = "off" /\ pc' \in {"catchup", "retract"}
    BY <1>2 DEF Start, Ingest, stored, units
  <2>2. running = {}
    BY <2>1 DEF Types, Control, Phased
  <2>3. Settled' \subseteq Settled
    BY <2>1, <2>2 DEF Settled
  <2> QED  BY <2>1, <2>3, SavedStays
<1>3. CASE RequestReload
  <2>1. /\ UNCHANGED <<live, watch, docs, memory, running, queued, clean>>
        /\ pc = "serve" /\ pc' = "retract"
    BY <1>3 DEF RequestReload, Ingest, stored, units
  <2>2. Settled' \subseteq Settled
    BY <2>1 DEF Settled
  <2> QED  BY <2>1, <2>2, SavedStays
<1>4. CASE SaveSnapshot
  <2>1. /\ UNCHANGED <<live, watch, docs, memory, running, queued, plan, clean>>
        /\ pc = "retract" /\ pc' = "prune"
    BY <1>4 DEF SaveSnapshot, units
  <2>2. Settled' = Settled
    BY <2>1 DEF Settled
  <2> QED  BY <2>1, <2>2, SavedStays
<1>5. CASE NewUnitFails
  BY <1>5 DEF NewUnitFails, Saved
<1>6. CASE ReloadWaits \/ ReloadDone
  <2>1. /\ UNCHANGED <<live, watch, docs, memory, running, queued, clean>>
        /\ pc \in {"new", "wait"} /\ pc' \in {"wait", "serve"}
    BY <1>6 DEF ReloadWaits, ReloadDone, stored, units
  <2>2. Settled' = Settled
    BY <2>1 DEF Settled
  <2> QED  BY <2>1, <2>2, SavedStays
<1>7. CASE DirectReload
  <2>1. /\ UNCHANGED <<live, watch, running>>
        /\ pc = "direct" /\ pc' = "serve"
        /\ clean' => clean /\ UNCHANGED <<docs, memory>>
    BY <1>7 DEF DirectReload, units
  <2> SUFFICES ASSUME clean' PROVE Saved'
    BY DEF Saved
  <2>2. running = {}
    BY <2>1 DEF Steady, Unmanned
  <2>3. Settled' \subseteq Settled
    BY <2>1, <2>2 DEF Settled
  <2> QED  BY <2>1, <2>3, SavedStays
<1> QED  BY <1>1, <1>2, <1>3, <1>4, <1>5, <1>6, <1>7

\* Every step.
LEMMA NextSaved == ASSUME Types, Steady, Rooted, Held, Saved, [Next]_vars PROVE Saved'
<1>1. CASE UNCHANGED vars
  <2>1. UNCHANGED <<live, watch, docs, memory, running, queued, unbuilt, pc, plan, clean>>
    BY <1>1 DEF vars
  <2>2. Settled' = Settled
    BY <2>1 DEF Settled
  <2> QED  BY <2>1, <2>2, SavedStays
<1>2. CASE Crash
  <2>1. pc' = "off" /\ running' = {}
    BY <1>2 DEF Crash
  <2> QED  BY <2>1 DEF Saved, Settled, ToBuild
<1>3. CASE Next
  BY <1>2, <1>3, ThreadSaved, PersistPrunedSaved, DropDocsSaved, StartCatchUpSaved, BuildUnitsSaved,
     ReloadUnitsSaved, NewUnitSaved, CatchUpJobSaved, IdleSaved, ExitSaved
     DEF Next, IngestSteps, CatchUpSteps, ReloadSteps
<1> QED  BY <1>1, <1>3

\* When no reload is going on and none was raced by an edit, the document of a file item
\* its unit has rows of says what the unit remembers.
THEOREM FileRowsCorrect == Spec => []FileRowsReadBack
<1>1. Init => Steady
  BY NoPlanIs DEF Init, Steady, Resting, Planned, Before, Unmanned, During, AtStart
<1>2. Init => Rooted /\ Held /\ Saved
  BY DEF Init, Rooted, Held, Saved, Settled, ToBuild
<1>3. Spec => []Types
  BY InitTypes, NextTypes, PTL DEF Spec
<1>4. Types /\ Steady /\ Rooted /\ Held /\ Saved /\ [Next]_vars => (Steady /\ Rooted /\ Held /\ Saved)'
  BY NextSteady, NextRooted, NextHeld, NextSaved
<1> QED  BY <1>1, <1>2, <1>3, <1>4, SavedReadBack, PTL DEF Spec

-----------------------------------------------------------------------------
\* Rows have trees

\* Whoever is isolated has a row, and a root with a row has a tree.
KeyedTrees(t) ==
  \A i \in Items : t.rows[i].oos \subseteq t.rows[i].row /\ t.rows[i].row \subseteq t.keys
KeyedDocs(d) ==
  \A i \in Items : d[i].own.oos \subseteq d[i].own.row /\ d[i].files.oos \subseteq d[i].files.row
KeyedLive(lv, ks) == \A i \in Items : lv[i].row \cup lv[i].oos \subseteq ks
Keyed == KeyedDocs(docs) /\ (memory # None => KeyedTrees(memory)) /\ KeyedLive(live, keys)

\* What is saved,
LEMMA SavedKeyed ==
  ASSUME KeyedDocs(docs), NEW d, NEW t, NEW m
  PROVE  KeyedDocs(SavedDocs(d, t, m))
<1> DEFINE kept(i)  == KeptRows(t, m, i)
           files(i) == m[i] # {} /\ InFiles(d, i)
           rewritten(u) == \E i \in UnitItems(u) : files(i) /\ kept(i).row # {}
           own(i) == IF m[i] # {} /\ ~InFiles(d, i) /\ kept(i).row # {} THEN kept(i) ELSE docs[i].own
           fs(i)  == IF ~rewritten(Owner[i]) THEN docs[i].files
                     ELSE IF files(i) THEN kept(i) ELSE NoRows
           new    == SavedDocs(d, t, m)
<1>1. new = [i \in Items |-> [own |-> own(i), files |-> fs(i)]]
  BY DEF SavedDocs
<1>2. ASSUME NEW i \in Items PROVE own(i).oos \subseteq own(i).row /\ fs(i).oos \subseteq fs(i).row
  <2>1. kept(i).oos \subseteq kept(i).row
    <3> DEFINE rows == t.rows[i].row \cap UnitRoots(m, Owner[i])
    <3>1. kept(i) = [row |-> rows, oos |-> t.rows[i].oos \cap rows]
      BY DEF KeptRows
    <3> HIDE DEF rows, kept
    <3> QED  BY <3>1
  <2>2. docs[i].own.oos \subseteq docs[i].own.row /\ docs[i].files.oos \subseteq docs[i].files.row
    BY DEF KeyedDocs
  <2>3. NoRows.oos \subseteq NoRows.row
    BY DEF NoRows
  <2> HIDE DEF kept, files, rewritten
  <2> QED  BY <2>1, <2>2, <2>3
<1> HIDE DEF own, fs, new
<1>3. ASSUME NEW i \in Items PROVE new[i].own = own(i) /\ new[i].files = fs(i)
  BY <1>1
<1>4. KeyedDocs(new)
  BY <1>2, <1>3 DEF KeyedDocs
<1> QED  BY <1>4 DEF new

\* what is read,
LEMMA ReadKeyed ==
  ASSUME KeyedDocs(docs)
  PROVE  KeyedTrees(ReadDocs)
<1> DEFINE row(i) == docs[i].own.row \cup docs[i].files.row
           oos(i) == docs[i].own.oos \cup docs[i].files.oos
           rows == [i \in Items |-> [row |-> row(i), oos |-> oos(i)]]
           t == ReadDocs
<1>1. t = [keys |-> UNION {rows[i].row : i \in Items}, rows |-> rows]
  BY DEF ReadDocs
<1>2. \A i \in Items : oos(i) \subseteq row(i)
  BY DEF KeyedDocs
<1> HIDE DEF row, oos
<1>3. \A i \in Items : rows[i].row = row(i) /\ rows[i].oos = oos(i)
  OBVIOUS
<1> HIDE DEF rows, t
<1>4. t.rows = rows /\ \A i \in Items : rows[i].row \subseteq t.keys
  BY <1>1
<1>5. KeyedTrees(t)
  BY <1>2, <1>3, <1>4 DEF KeyedTrees
<1> QED  BY <1>5 DEF t

\* what is loaded,
LEMMA LoadKeyed ==
  ASSUME KeyedDocs(docs), memory # None => KeyedTrees(memory)
  PROVE  LoadBaseline = None \/ KeyedTrees(LoadBaseline)
BY ReadKeyed DEF LoadBaseline

\* what a prune leaves,
LEMMA PrunedKeyed ==
  ASSUME NEW t, KeyedTrees(t), NEW old, NEW new
  PROVE  KeyedTrees(Pruned(t, old, new))
<1> DEFINE lost == UNION {UnitTargets(old, u) \ UnitTargets(new, u) : u \in Units}
           gone(i) == lost \cup (old[i] \ new[i])
           rows == [i \in Items |-> [row |-> t.rows[i].row \ gone(i), oos |-> t.rows[i].oos \ gone(i)]]
           p == Pruned(t, old, new)
<1>1. p = [keys |-> t.keys \ lost, rows |-> rows]
  BY DEF Pruned
<1>2. \A i \in Items : lost \subseteq gone(i)
  OBVIOUS
<1> HIDE DEF gone, lost, p
<1>3. \A i \in Items : rows[i].row = t.rows[i].row \ gone(i) /\ rows[i].oos = t.rows[i].oos \ gone(i)
  OBVIOUS
<1> HIDE DEF rows
<1>4. p.keys = t.keys \ lost /\ p.rows = rows
  BY <1>1
<1>5. KeyedTrees(p)
  BY <1>2, <1>3, <1>4 DEF KeyedTrees
<1> QED  BY <1>5 DEF p

\* and what a unit saves have trees, too.
LEMMA UnitTreesKeyed ==
  ASSUME NEW lv, LiveIs(lv), NEW ks, KeyedLive(lv, ks), NEW u
  PROVE  KeyedTrees(UnitTrees(u, lv, ks))
<1> DEFINE mine(i) == [row |-> lv[i].row, oos |-> lv[i].oos \cap lv[i].row]
           rows == [i \in Items |-> IF Owner[i] = u THEN mine(i) ELSE NoRows]
           t == UnitTrees(u, lv, ks)
<1>1. t = [keys |-> ks \cap ({u} \cup TargetsOf[u]), rows |-> rows]
  BY DEF UnitTrees
<1> HIDE DEF t
<1>2. t.keys = ks \cap ({u} \cup TargetsOf[u]) /\ t.rows = rows
  BY <1>1
<1>3. ASSUME NEW i \in Items PROVE rows[i].oos \subseteq rows[i].row /\ rows[i].row \subseteq t.keys
  <2>1. CASE Owner[i] = u
    <3>1. rows[i].row = lv[i].row /\ rows[i].oos = lv[i].oos \cap lv[i].row
      BY <2>1
    <3> HIDE DEF rows
    <3>2. lv[i].row \subseteq ks
      BY DEF KeyedLive
    <3>3. lv[i].row \subseteq {u} \cup TargetsOf[u]
      BY <2>1 DEF LiveIs, Places
    <3> QED  BY <1>2, <3>1, <3>2, <3>3
  <2>2. CASE Owner[i] # u
    <3>1. rows[i].row = {} /\ rows[i].oos = {}
      BY <2>2 DEF NoRows
    <3> HIDE DEF rows
    <3> QED  BY <3>1
  <2> QED  BY <2>1, <2>2
<1> HIDE DEF rows
<1>4. KeyedTrees(t)
  BY <1>2, <1>3 DEF KeyedTrees
<1> QED  BY <1>4 DEF t

\* An item through a tick or catch-up: what is recorded of it is of roots that had a
\* tree, or that have one now.
LEMMA KeysOfKeyed ==
  ASSUME NEW x, NEW y, NEW m, NEW i, NEW ks, x.row \cup x.oos \subseteq ks,
         y.row \cup y.oos \subseteq x.row \cup x.oos \cup Watched(m, i)
  PROVE  y.row \cup y.oos \subseteq ks \cup KeysOf(x, y, m, i)
<1>1. CASE LiveOf(x) = LiveOf(y)
  <2>1. x.row = y.row /\ x.oos = y.oos
    BY <1>1 DEF LiveOf
  <2> QED  BY <2>1
<1>2. CASE LiveOf(x) # LiveOf(y)
  <2>1. KeysOf(x, y, m, i) = Watched(m, i)
    BY <1>2 DEF KeysOf
  <2> QED  BY <2>1
<1> QED  BY <1>1, <1>2

\* The targets of item i in a mapping, and its hub.
LEMMA TargetsAre ==
  ASSUME NEW m, MapIs(m), NEW i \in Items
  PROVE  /\ m[i] \in SUBSET Places(i) /\ Owner[i] \in Places(i) /\ Owner[i] \notin m[i]
         /\ m[i] # {} => Watched(m, i) = m[i] \cup {Owner[i]}
         /\ m[i] \cup {Owner[i]} \subseteq {Order[n] : n \in 1 .. Len(Order)}
<1>1. m[i] \in SUBSET Places(i) /\ Owner[i] \in Places(i) /\ Owner[i] \notin m[i]
  BY Geography DEF MapIs
<1>2. Places(i) \subseteq {Order[n] : n \in 1 .. Len(Order)}
  BY Geography, OrderAssumption
<1> QED  BY <1>1, <1>2 DEF Watched

\* Item i as a catch-up from trees t finds it, and what the catch-up leaves of it.
Found(t, i) == ItemOf(i, IF t = None THEN NotLive ELSE FromTrees(t, i))
KeysIn(t) == IF t = None THEN {} ELSE t.keys
CaughtUpItem(m, t, i, y) ==
  /\ y.row \subseteq KeysIn(t) \cup (IF m[i] = {} THEN {} ELSE KeysOf(Found(t, i), y, m, i))
  /\ \A r \in m[i] : r \in y.oos \cap y.row \/ (r \in y.row <=> Owner[i] \in y.row)

\* With no trees.
LEMMA SeededItem ==
  ASSUME DiskIs(disk), NEW m, MapIs(m), NEW i \in Items
  PROVE  CaughtUpItem(m, None, i, CaughtUp(m, None)[i])
<1> DEFINE x == ItemOf(i, NotLive)
           y == CaughtUp(m, None)[i]
<1>1. y = IF m[i] = {} THEN x ELSE Seed(x, Owner[i], m[i])
  BY DEF CaughtUp
<1>2. x.row = {} /\ x.oos = {} /\ Fields(x)
  BY DEF ItemOf, NotLive, Fields
<1>3. Found(None, i) = x /\ KeysIn(None) = {}
  BY DEF Found, KeysIn
<1>4. m[i] # {} => Watched(m, i) = m[i] \cup {Owner[i]}
  BY TargetsAre
<1> HIDE DEF x, y
<1>5. y = x \/ (m[i] # {} /\ FromSeed(x, Owner[i], m[i], y))
  BY <1>1, <1>2, SeedAt
<1>6. y.row = {} \/ (m[i] # {} /\ y.row = m[i] \cup {Owner[i]})
  BY <1>2, <1>5 DEF FromSeed
<1>7. y.row # {} => KeysOf(x, y, m, i) = Watched(m, i)
  <2>1. ASSUME y.row # {} PROVE LiveOf(x) # LiveOf(y)
    <3>1. LiveOf(x).row = x.row /\ LiveOf(y).row = y.row
      BY DEF LiveOf
    <3> QED  BY <1>2, <2>1, <3>1
  <2> QED  BY <2>1 DEF KeysOf
<1>8. CaughtUpItem(m, None, i, y)
  BY <1>3, <1>4, <1>6, <1>7 DEF CaughtUpItem
<1> QED  BY <1>8 DEF y

\* With trees.
LEMMA ResumedItem ==
  ASSUME DiskIs(disk), NEW m, MapIs(m), NEW i \in Items, NEW t, t # None, TreesAre(t), KeyedTrees(t)
  PROVE  CaughtUpItem(m, t, i, CaughtUp(m, t)[i])
<1> DEFINE h == Owner[i]
           lv == FromTrees(t, i)
           x == ItemOf(i, lv)
           scanned == IF Owner[i] \in Present(m)
                      THEN {Owner[i]} \cup (UnitTargets(m, Owner[i]) \cap t.keys) ELSE {}
           less == [x EXCEPT !.row = @ \ (scanned \ disk[i])]
           fresh == m[i] \ t.keys
           y == CaughtUp(m, t)[i]
<1>1. y = IF m[i] = {} THEN less ELSE CatchUpUpdate(x, h, m[i], fresh)
  BY DEF CaughtUp
<1>2. /\ m[i] \in SUBSET Places(i) /\ h \in Places(i) /\ h \notin m[i]
      /\ m[i] # {} => Watched(m, i) = m[i] \cup {h}
      /\ m[i] \cup {h} \subseteq {Order[n] : n \in 1 .. Len(Order)}
  BY TargetsAre
<1>3. x \in Item(Places(i), Places(i), h)
  <2>1. t.rows[i] \in HeldRows(i)
    BY DEF TreesAre
  <2>2. lv.row \in SUBSET Places(i) /\ lv.seen \in SUBSET Places(i)
        /\ lv.oos \in SUBSET TargetsOf[Owner[i]]
    BY <2>1 DEF FromTrees, HeldRows
  <2> HIDE DEF lv
  <2> QED  BY <2>2, ItemOfIs
<1>4. /\ x.row = t.rows[i].row /\ x.seen = x.row /\ x.oos = t.rows[i].oos /\ x.box = {}
  BY DEF ItemOf, FromTrees
<1>5. Found(t, i) = x /\ KeysIn(t) = t.keys
  BY DEF Found, KeysIn
<1>6. x.oos \subseteq x.row /\ x.row \subseteq t.keys
  BY <1>4 DEF KeyedTrees
<1>7. fresh \cap x.row = {}
  BY <1>6
<1> HIDE DEF x, scanned, fresh
<1>8. CASE m[i] = {}
  <2>1. less.row \subseteq x.row
    BY <1>3 DEF Item
  <2> HIDE DEF less, y
  <2>2. CaughtUpItem(m, t, i, y)
    BY <1>1, <1>5, <1>6, <1>8, <2>1 DEF CaughtUpItem
  <2> QED  BY <2>2 DEF y
<1>9. CASE m[i] # {}
  <2> DEFINE z == CatchUpUpdate(x, h, m[i], fresh)
  <2>0. Order \in Seq(Roots)
    BY OrderAssumption
  <2>1. AllEven(h, m[i], z)
    BY <1>2, <1>3, <1>4, <1>6, <1>7, <2>0, CatchUpEvens
  <2>2. z.row \cup z.oos \subseteq x.row \cup x.oos \cup m[i] \cup {h}
    BY <1>2, <1>3, <1>4, <2>0, CatchUpNear
  <2> HIDE DEF z
  <2>3. z.row \cup z.oos \subseteq t.keys \cup KeysOf(x, z, m, i)
    BY <1>2, <1>4, <1>6, <1>9, <2>2, KeysOfKeyed
  <2>4. CaughtUpItem(m, t, i, z)
    BY <1>5, <1>9, <2>1, <2>3 DEF CaughtUpItem, AllEven, Even
  <2> QED  BY <1>1, <1>9, <2>4 DEF z
<1> QED  BY <1>8, <1>9

\* In trees t, a target that m gives an item is even with the hub, or is isolated and
\* has a row.
EvenTrees(t, m, i) ==
  \A r \in m[i] : r \in t.rows[i].oos \cap t.rows[i].row
                  \/ (r \in t.rows[i].row <=> Owner[i] \in t.rows[i].row)

\* So it is in the trees a catch-up leaves, in which every row has a tree.
LEMMA CaughtUpTreesKeyed ==
  ASSUME DiskIs(disk), NEW m, MapIs(m), NEW t, t = None \/ (TreesAre(t) /\ KeyedTrees(t))
  PROVE  /\ KeyedTrees(CaughtUpTrees(m, t, CaughtUp(m, t)))
         /\ \A i \in Items : EvenTrees(CaughtUpTrees(m, t, CaughtUp(m, t)), m, i)
<1> DEFINE ys == CaughtUp(m, t)
           more(i) == IF m[i] = {} THEN {} ELSE KeysOf(Found(t, i), ys[i], m, i)
           rows == [i \in Items |-> [row |-> ys[i].row, oos |-> ys[i].oos \cap ys[i].row]]
           new == CaughtUpTrees(m, t, ys)
<1>1. new = [keys |-> KeysIn(t) \cup UNION {more(i) : i \in Items}, rows |-> rows]
  BY DEF CaughtUpTrees, KeysIn, Found
<1>2. ASSUME NEW i \in Items PROVE CaughtUpItem(m, t, i, ys[i])
  <2>1. CASE t = None
    BY <2>1, SeededItem
  <2>2. CASE t # None
    BY <2>2, ResumedItem
  <2> QED  BY <2>1, <2>2
<1>3. \A i \in Items : ys[i].row \subseteq KeysIn(t) \cup more(i)
  BY <1>2 DEF CaughtUpItem
<1>4. \A i \in Items : rows[i].row = ys[i].row /\ rows[i].oos = ys[i].oos \cap ys[i].row
  OBVIOUS
<1> HIDE DEF new, more, rows, ys
<1>5. new.rows = rows /\ new.keys = KeysIn(t) \cup UNION {more(i) : i \in Items}
  BY <1>1
<1>6. \A i \in Items : rows[i].row \subseteq new.keys
  BY <1>3, <1>4, <1>5
<1>7. KeyedTrees(new)
  BY <1>4, <1>5, <1>6 DEF KeyedTrees
<1>8. ASSUME NEW i \in Items PROVE EvenTrees(new, m, i)
  BY <1>2, <1>4, <1>5 DEF EvenTrees, CaughtUpItem
<1> QED  BY <1>7, <1>8 DEF new, ys

\* A catch-up step.
LEMMA CatchUpKeyed ==
  ASSUME Types, Keyed, NEW m, MapIs(m), CatchUp(m)
  PROVE  KeyedDocs(docs') /\ KeyedTrees(memory') /\ \A i \in Items : EvenTrees(memory', m, i)
<1> DEFINE trees == CaughtUpTrees(m, LoadBaseline, CaughtUp(m, LoadBaseline))
<1>1. docs' = SavedDocs(disk', trees, m) /\ memory' = trees
  BY DEF CatchUp
<1>2. LoadBaseline = None \/ TreesAre(LoadBaseline)
  BY LoadIs DEF Types, Stores
<1>3. LoadBaseline = None \/ KeyedTrees(LoadBaseline)
  BY LoadKeyed DEF Keyed
<1>4. DiskIs(disk)
  BY DEF Types, World
<1>5. KeyedTrees(trees) /\ \A i \in Items : EvenTrees(trees, m, i)
  BY <1>2, <1>3, <1>4, CaughtUpTreesKeyed
<1> HIDE DEF trees
<1>6. KeyedDocs(SavedDocs(disk', trees, m))
  BY SavedKeyed DEF Keyed
<1> QED  BY <1>1, <1>5, <1>6

-----------------------------------------------------------------------------
\* Every step keeps the trees

\* A unit's save.
LEMMA UnitSaveKeyed ==
  ASSUME Types, Keyed, LiveIs(live'), KeyedLive(live', keys'), NEW u, NEW m,
         \/ UNCHANGED <<docs, memory>>
         \/ /\ docs' = SavedDocs(disk', UnitTrees(u, live', keys'), m)
            /\ memory' = UnitTrees(u, live', keys')
  PROVE  Keyed'
<1>1. CASE UNCHANGED <<docs, memory>>
  BY <1>1 DEF Keyed
<1>2. CASE /\ docs' = SavedDocs(disk', UnitTrees(u, live', keys'), m)
           /\ memory' = UnitTrees(u, live', keys')
  <2> DEFINE lv == live'
             ks == keys'
             t == UnitTrees(u, lv, ks)
  <2>1. KeyedTrees(t)
    <3>1. LiveIs(lv) /\ KeyedLive(lv, ks)
      OBVIOUS
    <3> HIDE DEF lv, ks
    <3> QED  BY <3>1, UnitTreesKeyed
  <2>2. docs' = SavedDocs(disk', t, m) /\ memory' = t
    BY <1>2
  <2> HIDE DEF t
  <2>3. KeyedDocs(SavedDocs(disk', t, m))
    BY SavedKeyed DEF Keyed
  <2> QED  BY <2>1, <2>2, <2>3 DEF Keyed
<1> QED  BY <1>1, <1>2

\* Items that become others with their keys.
LEMMA BecomesKeyed ==
  ASSUME NEW u, NEW ys, NEW after, UnitBecomes(u, ys, after),
         \A i \in UnitItems(u) : ys[i].row \cup ys[i].oos \subseteq after,
         \A i \in Items : Owner[i] # u => live[i].row \cup live[i].oos \subseteq after
  PROVE  KeyedLive(live', keys')
<1>1. /\ live' = [i \in Items |-> IF Owner[i] = u THEN LiveOf(ys[i]) ELSE live[i]]
      /\ keys' = after
  BY DEF UnitBecomes
<1>2. ASSUME NEW i \in Items PROVE live'[i].row \cup live'[i].oos \subseteq keys'
  <2>1. CASE Owner[i] = u
    <3>1. live'[i] = LiveOf(ys[i]) /\ i \in UnitItems(u)
      BY <1>1, <2>1 DEF UnitItems
    <3>2. live'[i].row = ys[i].row /\ live'[i].oos = ys[i].oos
      BY <3>1 DEF LiveOf
    <3> QED  BY <1>1, <3>1, <3>2
  <2>2. CASE Owner[i] # u
    BY <1>1, <2>2
  <2> QED  BY <2>1, <2>2
<1> QED  BY <1>2 DEF KeyedLive

\* A tick.
LEMMA IdleKeyed == ASSUME Types, Keyed, NEW u \in Units, Idle(u), Types' PROVE Keyed'
<1> DEFINE x(i)  == ItemOf(i, live[i])
           ys    == [i \in Items |-> IF Owner[i] = u THEN Tick(x(i), u, Watched(watch, i)) ELSE x(i)]
           after == keys \cup UNION {KeysOf(x(i), ys[i], watch, i) : i \in UnitItems(u)}
<1>1. /\ UnitBecomes(u, ys, after)
      /\ \/ UNCHANGED <<docs, memory>>
         \/ /\ docs' = SavedDocs(disk', UnitTrees(u, live', keys'), Only(watch, {u}))
            /\ memory' = UnitTrees(u, live', keys')
  BY DEF Idle
<1>2. DiskIs(disk) /\ LiveIs(live) /\ MapIs(watch)
  BY DEF Types, World, Remembers
<1>3. ASSUME NEW i \in UnitItems(u) PROVE ys[i].row \cup ys[i].oos \subseteq after
  <2>0. i \in Items /\ Owner[i] = u
    BY <1>3 DEF UnitItems
  <2>1. x(i) \in Item(Places(i), Places(i), Owner[i])
    BY <1>2, <2>0, LiveItemIs
  <2>2. x(i).row \cup x(i).oos \subseteq keys
    <3>1. x(i).row = live[i].row /\ x(i).oos = live[i].oos
      BY DEF ItemOf
    <3> QED  BY <2>0, <3>1 DEF Keyed, KeyedLive
  <2> DEFINE W == Watched(watch, i)
             z == Tick(x(i), Owner[i], W)
  <2>3. W \in SUBSET Places(i) /\ (W = {} \/ Owner[i] \in W) /\ Owner[i] \in Places(i)
    BY <1>2, <2>0, WatchedIs, Geography DEF Watched
  <2>4. ys[i] = z
    BY <2>0
  <2> HIDE DEF x, ys
  <2>5. z.row \cup z.oos \subseteq x(i).row \cup x(i).oos \cup W
    <3>1. Order \in Seq(Roots) /\ Places(i) \in SUBSET Places(i)
      BY OrderAssumption
    <3> HIDE DEF W
    <3> QED  BY <2>1, <2>3, <3>1, TickNear
  <2>6. z.row \cup z.oos \subseteq keys \cup KeysOf(x(i), z, watch, i)
    <3> HIDE DEF z
    <3> QED  BY <2>2, <2>5, KeysOfKeyed
  <2> QED  BY <2>4, <2>6
<1>4. \A i \in Items : Owner[i] # u => live[i].row \cup live[i].oos \subseteq after
  BY DEF Keyed, KeyedLive
<1> HIDE DEF ys, after
<1>5. KeyedLive(live', keys')
  BY <1>1, <1>3, <1>4, BecomesKeyed
<1>6. LiveIs(live')
  BY DEF Types, Remembers
<1> QED  BY <1>1, <1>5, <1>6, UnitSaveKeyed

\* The places of an item are no roots of another project.
LEMMA PlacesApart ==
  ASSUME NEW i \in Items, NEW u \in Units, Owner[i] # u
  PROVE  Places(i) \cap ({u} \cup TargetsOf[u]) = {}
<1>1. Owner[i] \in Units /\ TargetsOf[Owner[i]] \cap TargetsOf[u] = {}
  BY StructureAssumption
<1>2. Units \cap Targets = {} /\ TargetsOf[u] \subseteq Targets /\ TargetsOf[Owner[i]] \subseteq Targets
  BY <1>1, StructureAssumption DEF Targets
<1> QED  BY <1>1, <1>2 DEF Places

\* x is an item that knows of nothing but the roots m watches it at.
PrunedItem(i, m, x) ==
  /\ x \in Item(Places(i), Places(i), Owner[i]) /\ x.box = {}
  /\ x.row \cup x.seen \cup x.oos \subseteq Watched(m, i)

\* A pruned one is.
LEMMA PrunedItemIs ==
  ASSUME DiskIs(disk), LiveIs(live), NEW m, NEW i \in Items
  PROVE  PrunedItem(i, m, Prune(ItemOf(i, live[i]), Watched(m, i)))
<1> DEFINE x == ItemOf(i, live[i])
           W == Watched(m, i)
           y == Prune(x, W)
<1>1. x \in Item(Places(i), Places(i), Owner[i])
  BY LiveItemIs
<1>2. x.box = {}
  BY DEF ItemOf
<1> HIDE DEF x, W
<1>3. y \in Item(Places(i), Places(i), Owner[i])
  BY <1>1, PruneType
<1>4. y.box = {} /\ y.row \subseteq W /\ y.seen \subseteq W /\ y.oos \subseteq W
  BY <1>1, <1>2 DEF Prune, Item
<1> HIDE DEF y
<1>5. PrunedItem(i, m, y)
  BY <1>3, <1>4 DEF PrunedItem, W
<1> QED  BY <1>5 DEF y, x, W

\* What it knows of has a tree that stays.
LEMMA PrunedItemKeyed ==
  ASSUME Types, Keyed, NEW m, NEW i \in Items
  PROVE  LET x == Prune(ItemOf(i, live[i]), Watched(m, i))
             u == Owner[i]
         IN  x.row \cup x.oos \subseteq keys \ (({u} \cup TargetsOf[u]) \ UnitRoots(m, u))
<1> DEFINE x == ItemOf(i, live[i])
           W == Watched(m, i)
           y == Prune(x, W)
<1>1. x \in Item(Places(i), Places(i), Owner[i])
  BY LiveItemIs DEF Types, World, Remembers
<1>2. x.row \cup x.oos \subseteq keys
  <2>1. x.row = live[i].row /\ x.oos = live[i].oos
    BY DEF ItemOf
  <2> QED  BY <2>1 DEF Keyed, KeyedLive
<1>3. W \subseteq UnitRoots(m, Owner[i])
  BY WatchedInRoots
<1> HIDE DEF x, W
<1>4. y.row = x.row \cap W /\ y.oos = x.oos \cap W
  BY <1>1 DEF Prune, Item
<1> HIDE DEF y
<1>5. y.row \cup y.oos \subseteq keys \ (({Owner[i]} \cup TargetsOf[Owner[i]]) \ UnitRoots(m, Owner[i]))
  BY <1>2, <1>3, <1>4
<1> QED  BY <1>5 DEF y, x, W

\* A catch-up job of a reload.
LEMMA CatchUpJobKeyed == ASSUME Types, Keyed, NEW u \in Units, CatchUpJob(u), Types' PROVE Keyed'
<1> DEFINE m     == Only(file, {u})
           x(i)  == Prune(ItemOf(i, live[i]), Watched(m, i))
           ks    == keys \ (({u} \cup TargetsOf[u]) \ UnitRoots(m, u))
           ys    == [i \in Items |-> IF m[i] = {} THEN x(i)
                                     ELSE CatchUpUpdate(x(i), u, m[i], m[i] \ ks)]
           after == ks \cup UNION {KeysOf(x(i), ys[i], m, i) : i \in UnitItems(u)}
<1>1. \/ UNCHANGED <<docs, memory, live, keys>>
      \/ /\ UnitBecomes(u, ys, after)
         /\ docs' = SavedDocs(disk', UnitTrees(u, live', keys'), m)
         /\ memory' = UnitTrees(u, live', keys')
  BY DEF CatchUpJob
<1>2. CASE UNCHANGED <<docs, memory, live, keys>>
  BY <1>2 DEF Keyed
<1>3. CASE /\ UnitBecomes(u, ys, after)
           /\ docs' = SavedDocs(disk', UnitTrees(u, live', keys'), m)
           /\ memory' = UnitTrees(u, live', keys')
  <2>1. DiskIs(disk) /\ LiveIs(live) /\ MapIs(m)
    BY MappingsAre, OnlyIs DEF Types, World, Remembers
  <2>2. ASSUME NEW i \in UnitItems(u) PROVE ys[i].row \cup ys[i].oos \subseteq after
    <3>1. i \in Items /\ Owner[i] = u
      BY <2>2 DEF UnitItems
    <3>2. PrunedItem(i, m, x(i))
      BY <2>1, <3>1, PrunedItemIs
    <3>3. x(i).row \cup x(i).oos \subseteq ks
      BY <2>1, <3>1, <3>2, PrunedItemKeyed
    <3>4. ys[i] = IF m[i] = {} THEN x(i) ELSE CatchUpUpdate(x(i), Owner[i], m[i], m[i] \ ks)
      BY <3>1
    <3> HIDE DEF x, ys, m, ks
    <3>5. ys[i].row \cup ys[i].oos \subseteq x(i).row \cup x(i).oos \cup Watched(m, i)
      <4>1. CASE m[i] = {}
        BY <3>4, <4>1
      <4>2. CASE m[i] # {}
        <5> DEFINE z == CatchUpUpdate(x(i), Owner[i], m[i], m[i] \ ks)
        <5>1. /\ m[i] \in SUBSET Places(i) /\ Owner[i] \in Places(i)
              /\ Watched(m, i) = m[i] \cup {Owner[i]}
          BY <2>1, <3>1, <4>2, TargetsAre
        <5>2. Order \in Seq(Roots)
          BY OrderAssumption
        <5>3. /\ x(i) \in Item(Places(i), Places(i), Owner[i]) /\ x(i).box = {}
              /\ x(i).seen \subseteq x(i).row \cup m[i] \cup {Owner[i]}
          BY <3>2, <5>1 DEF PrunedItem
        <5>4. z.row \cup z.oos \subseteq x(i).row \cup x(i).oos \cup m[i] \cup {Owner[i]}
          BY <5>1, <5>2, <5>3, CatchUpNear
        <5> QED  BY <3>4, <4>2, <5>1, <5>4
      <4> QED  BY <4>1, <4>2
    <3>6. ys[i].row \cup ys[i].oos \subseteq ks \cup KeysOf(x(i), ys[i], m, i)
      BY <3>3, <3>5, KeysOfKeyed
    <3> QED  BY <3>6
  <2>3. \A i \in Items : Owner[i] # u => live[i].row \cup live[i].oos \subseteq after
    <3> SUFFICES ASSUME NEW i \in Items, Owner[i] # u PROVE live[i].row \cup live[i].oos \subseteq ks
      OBVIOUS
    <3>1. live[i].row \cup live[i].oos \subseteq keys /\ live[i].row \cup live[i].oos \subseteq Places(i)
      BY <2>1 DEF Keyed, KeyedLive, LiveIs
    <3>2. Places(i) \cap ({u} \cup TargetsOf[u]) = {}
      BY PlacesApart
    <3> QED  BY <3>1, <3>2
  <2> HIDE DEF ys, after, m
  <2>4. KeyedLive(live', keys')
    BY <1>3, <2>2, <2>3, BecomesKeyed
  <2>5. LiveIs(live')
    BY DEF Types, Remembers
  <2> QED  BY <1>3, <2>4, <2>5, UnitSaveKeyed
<1> QED  BY <1>1, <1>2, <1>3

\* A start or a reload that catches up.
LEMMA CatchingUpKeyed ==
  ASSUME Types, Keyed, StartCatchUp \/ NewUnit \/ DirectReload
  PROVE  Keyed'
<1>1. /\ \/ UNCHANGED <<docs, memory>>
         \/ \E m : MapIs(m) /\ CatchUp(m)
      /\ UNCHANGED <<live, keys>>
  <2>1. CASE StartCatchUp
    <3> DEFINE m == IF snapshot = None THEN file ELSE snapshot
    <3>1. CatchUp(m) /\ UNCHANGED <<live, keys>>
      BY <2>1 DEF StartCatchUp
    <3>2. MapIs(m)
      BY MappingsAre DEF Types, World
    <3> QED  BY <3>1, <3>2
  <2>2. CASE NewUnit
    <3>1. PICK u \in todo : CatchUp(Only(snapshot, {u}))
      BY <2>2 DEF NewUnit
    <3>2. UNCHANGED <<live, keys>> /\ pc = "new"
      BY <2>2 DEF NewUnit
    <3>3. MapIs(Only(snapshot, {u}))
      BY <3>2, MappingsAre, OnlyIs DEF Types, Control, Phased
    <3> QED  BY <3>1, <3>2, <3>3
  <2>3. CASE DirectReload
    <3> DEFINE m == Only(file, Affected(plan.old, plan.new))
    <3>1. /\ UNCHANGED <<docs, memory>> \/ CatchUp(m)
          /\ UNCHANGED <<live, keys>>
      BY <2>3 DEF DirectReload, units
    <3>2. MapIs(m)
      BY MappingsAre, OnlyIs DEF Types, World
    <3> QED  BY <3>1, <3>2
  <2> QED  BY <2>1, <2>2, <2>3
<1>2. CASE UNCHANGED <<docs, memory>>
  BY <1>1, <1>2 DEF Keyed
<1>3. ASSUME NEW m, MapIs(m), CatchUp(m) PROVE Keyed'
  <2>1. KeyedDocs(docs') /\ KeyedTrees(memory')
    BY <1>3, CatchUpKeyed
  <2> QED  BY <1>1, <2>1 DEF Keyed
<1> QED  BY <1>1, <1>2, <1>3

\* New observers take rows that have trees.
LEMMA BuildUnitsKeyed == ASSUME Types, Keyed, Held, BuildUnits PROVE Keyed'
<1> DEFINE kept(i) == memory.rows[i].row \cap UnitRoots(watch, Owner[i])
           new(i) == [row |-> kept(i), seen |-> disk[i] \cap Watched(watch, i),
                      oos |-> memory.rows[i].oos \cap kept(i)]
<1>1. /\ live' = [i \in Items |-> IF Owner[i] \notin unbuilt THEN live[i] ELSE new(i)]
      /\ keys' = keys \cup (memory.keys \cap UNION {UnitRoots(watch, u) : u \in unbuilt})
      /\ UNCHANGED <<docs, memory>>
  BY DEF BuildUnits, stored
<1>2. ASSUME NEW i \in Items PROVE live'[i].row \cup live'[i].oos \subseteq keys'
  <2>1. CASE Owner[i] \notin unbuilt
    BY <1>1, <2>1 DEF Keyed, KeyedLive
  <2>2. CASE Owner[i] \in unbuilt
    <3>1. memory # None
      BY <2>2 DEF Held
    <3>2. kept(i) \subseteq memory.keys /\ kept(i) \subseteq UNION {UnitRoots(watch, u) : u \in unbuilt}
      BY <2>2, <3>1 DEF Keyed, KeyedTrees
    <3>3. live'[i] = [row |-> kept(i), seen |-> disk[i] \cap Watched(watch, i),
                      oos |-> memory.rows[i].oos \cap kept(i)]
      BY <1>1, <2>2
    <3> HIDE DEF kept
    <3>4. live'[i].row = kept(i) /\ live'[i].oos \subseteq kept(i)
      BY <3>3
    <3> QED  BY <1>1, <3>2, <3>4
  <2> QED  BY <2>1, <2>2
<1> QED  BY <1>1, <1>2 DEF Keyed, KeyedLive

\* The steps of an ingest.
LEMMA IngestKeyed == ASSUME Types, Keyed, PersistPruned \/ DropDocs PROVE Keyed'
<1>1. UNCHANGED <<live, keys>>
  BY DEF PersistPruned, DropDocs, units
<1>2. CASE PersistPruned
  <2> DEFINE trees == LoadBaseline
             kept == Pruned(trees, plan.old, plan.new)
  <2>1. \/ UNCHANGED <<docs, memory>>
        \/ /\ trees # None
           /\ docs' = SavedDocs(disk, kept, plan.old)
           /\ memory' \in {kept, None}
    BY <1>2 DEF PersistPruned
  <2>2. trees # None => KeyedTrees(trees)
    BY LoadKeyed DEF Keyed
  <2> HIDE DEF trees
  <2>3. trees # None => KeyedTrees(kept)
    BY <2>2, PrunedKeyed
  <2> HIDE DEF kept
  <2>4. KeyedDocs(SavedDocs(disk, kept, plan.old))
    BY SavedKeyed DEF Keyed
  <2> QED  BY <1>1, <2>1, <2>3, <2>4 DEF Keyed
<1>3. CASE DropDocs
  <2>1. /\ docs' = [i \in Items |-> IF Owner[i] \in Present(plan.new) THEN docs[i]
                                    ELSE [own |-> NoRows, files |-> NoRows]]
        /\ memory' = memory
    BY <1>3 DEF DropDocs
  <2>2. ASSUME NEW i \in Items
        PROVE  docs'[i].own.oos \subseteq docs'[i].own.row /\ docs'[i].files.oos \subseteq docs'[i].files.row
    BY <2>1 DEF Keyed, KeyedDocs, NoRows
  <2> QED  BY <1>1, <2>1, <2>2 DEF Keyed, KeyedDocs
<1> QED  BY <1>2, <1>3

\* The end of a thread.
LEMMA ExitKeyed == ASSUME Types, Keyed, NEW u \in Units, Exit(u) PROVE Keyed'
<1>1. /\ live' = [i \in Items |-> IF Owner[i] = u THEN NotLive ELSE live[i]]
      /\ keys' = keys \ ({u} \cup TargetsOf[u])
      /\ UNCHANGED <<docs, memory>>
  BY DEF Exit, stored
<1>2. ASSUME NEW i \in Items PROVE live'[i].row \cup live'[i].oos \subseteq keys'
  <2>1. CASE Owner[i] = u
    BY <1>1, <2>1 DEF NotLive
  <2>2. CASE Owner[i] # u
    <3>1. live'[i] = live[i]
      BY <1>1, <2>2
    <3>2. live[i].row \cup live[i].oos \subseteq keys /\ live[i].row \cup live[i].oos \subseteq Places(i)
      BY DEF Types, Remembers, Keyed, KeyedLive, LiveIs
    <3>3. Places(i) \cap ({u} \cup TargetsOf[u]) = {}
      BY <2>2, PlacesApart
    <3> QED  BY <1>1, <3>1, <3>2, <3>3
  <2> QED  BY <2>1, <2>2
<1> QED  BY <1>1, <1>2 DEF Keyed, KeyedLive

\* Every step.
LEMMA NextKeyed == ASSUME Types, Keyed, Held, [Next]_vars, Types' PROVE Keyed'
<1>1. ASSUME UNCHANGED <<docs, memory, live, keys>> PROVE Keyed'
  BY <1>1 DEF Keyed
<1>2. CASE UNCHANGED vars \/ WriteDisk \/ EditYaml \/ Start \/ RequestReload \/ Retract \/ SaveSnapshot
           \/ ReloadUnits \/ NewUnitFails \/ ReloadWaits \/ ReloadDone
  <2>1. UNCHANGED <<docs, memory, live, keys>>
    BY <1>2 DEF vars, WriteDisk, EditYaml, Start, RequestReload, Retract, SaveSnapshot,
                ReloadUnits, NewUnitFails, ReloadWaits, ReloadDone, units, stored
  <2> QED  BY <1>1, <2>1
<1>3. CASE Crash
  <2>1. /\ docs' = docs /\ memory' = None /\ live' = [i \in Items |-> NotLive] /\ keys' = {}
    BY <1>3 DEF Crash, stored
  <2>2. \A i \in Items : live'[i].row \cup live'[i].oos \subseteq keys'
    BY <2>1 DEF NotLive
  <2> QED  BY <2>1, <2>2 DEF Keyed, KeyedLive
<1> QED  BY <1>2, <1>3, CatchingUpKeyed, BuildUnitsKeyed, IngestKeyed, ExitKeyed, IdleKeyed,
            CatchUpJobKeyed
         DEF Next, IngestSteps, CatchUpSteps, ReloadSteps

-----------------------------------------------------------------------------
\* Every target that is watched is accounted for

\* Of the units to be built,
EvenToBuild ==
  pc = "build" => \A i \in Items : Owner[i] \in unbuilt => EvenTrees(memory, watch, i)

\* and of the units that run.
AccountedUnits ==
  \A i \in Items : Owner[i] \in running => AccountedFor(Owner[i], watch[i], live[i])

\* Units that stay as they are.
LEMMA AccountedStays ==
  ASSUME AccountedUnits,
         \A i \in Items : Owner[i] \in running' =>
           Owner[i] \in running /\ live'[i] = live[i] /\ watch'[i] = watch[i]
  PROVE  AccountedUnits'
BY DEF AccountedUnits

\* No rows at all are even rows.
LEMMA UnitTreesEven ==
  ASSUME NEW u, NEW lv, NEW ks, NEW i \in Items, Owner[i] # u, NEW m
  PROVE  EvenTrees(UnitTrees(u, lv, ks), m, i)
<1> DEFINE mine(j) == [row |-> lv[j].row, oos |-> lv[j].oos \cap lv[j].row]
           t == UnitTrees(u, lv, ks)
<1>1. t = [keys |-> ks \cap ({u} \cup TargetsOf[u]),
           rows |-> [j \in Items |-> IF Owner[j] = u THEN mine(j) ELSE NoRows]]
  BY DEF UnitTrees
<1> HIDE DEF mine, t
<1>2. t.rows[i] = NoRows
  BY <1>1
<1>3. EvenTrees(t, m, i)
  BY <1>2 DEF EvenTrees, NoRows
<1> QED  BY <1>3 DEF t

\* A unit's thread leaves the units to be built even.
LEMMA UnitEvenToBuild ==
  ASSUME Types, EvenToBuild, NEW u \in running \cup stopping, UNCHANGED <<pc, unbuilt>>,
         \A i \in Items : Owner[i] # u => watch'[i] = watch[i],
         memory' \in {memory, UnitTrees(u, live', keys')}
  PROVE  EvenToBuild'
<1> SUFFICES ASSUME pc = "build", NEW i \in Items, Owner[i] \in unbuilt
             PROVE  EvenTrees(memory', watch', i)
  BY DEF EvenToBuild
<1>1. Owner[i] # u
  BY DEF Types, Control, Phased
<1>2. CASE memory' = memory
  BY <1>1, <1>2 DEF EvenToBuild, EvenTrees
<1>3. CASE memory' = UnitTrees(u, live', keys')
  <2>1. EvenTrees(UnitTrees(u, live', keys'), watch', i)
    BY <1>1, UnitTreesEven
  <2> QED  BY <1>3, <2>1
<1> QED  BY <1>2, <1>3

\* A tick.
LEMMA IdleAccounts ==
  ASSUME Types, EvenToBuild, AccountedUnits, NEW u \in Units, Idle(u)
  PROVE  EvenToBuild' /\ AccountedUnits'
<1> DEFINE x(i)  == ItemOf(i, live[i])
           ys    == [i \in Items |-> IF Owner[i] = u THEN Tick(x(i), u, Watched(watch, i)) ELSE x(i)]
           after == keys \cup UNION {KeysOf(x(i), ys[i], watch, i) : i \in UnitItems(u)}
<1>1. /\ u \in running \cup stopping
      /\ UnitBecomes(u, ys, after)
      /\ memory' \in {memory, UnitTrees(u, live', keys')}
      /\ UNCHANGED <<watch, running, unbuilt, pc>>
  BY DEF Idle, ingest
<1>2. EvenToBuild'
  BY <1>1, UnitEvenToBuild
<1>3. live' = [i \in Items |-> IF Owner[i] = u THEN LiveOf(ys[i]) ELSE live[i]]
  BY <1>1 DEF UnitBecomes
<1>4. ASSUME NEW i \in Items, Owner[i] \in running, Owner[i] = u, NEW r \in watch[i]
      PROVE  Accounted(live'[i], u, r)
  <2>0. MapIs(watch)
    BY DEF Types, Remembers
  <2>1. x(i) \in Item(Places(i), Places(i), Owner[i])
    BY LiveItemIs DEF Types, World, Remembers
  <2>2. Accounted(x(i), Owner[i], r)
    <3>1. Accounted(live[i], Owner[i], r)
      BY <1>4 DEF AccountedUnits, AccountedFor
    <3> QED  BY <3>1 DEF Accounted, Even, ItemOf
  <2> DEFINE W == Watched(watch, i)
             z == Tick(x(i), Owner[i], W)
  <2>3. /\ W \in SUBSET Places(i) /\ Owner[i] \in W /\ r \in W /\ r # Owner[i]
        /\ W \subseteq {Order[n] : n \in 1 .. Len(Order)}
        /\ Owner[i] \in Places(i)
    <3>1. /\ watch[i] \in SUBSET Places(i) /\ Owner[i] \in Places(i) /\ Owner[i] \notin watch[i]
          /\ W = watch[i] \cup {Owner[i]}
          /\ watch[i] \cup {Owner[i]} \subseteq {Order[n] : n \in 1 .. Len(Order)}
      BY <1>4, <2>0, TargetsAre
    <3> QED  BY <1>4, <3>1
  <2>4. Order \in Seq(Roots) /\ Places(i) \in SUBSET Places(i)
    BY OrderAssumption
  <2>5. live'[i] = LiveOf(z)
    BY <1>3, <1>4
  <2> HIDE DEF W, x
  <2>6. Accounted(z, Owner[i], r)
    BY <2>1, <2>2, <2>3, <2>4, TickAccounts
  <2> HIDE DEF z
  <2> QED  BY <1>4, <2>5, <2>6 DEF LiveOf, Accounted, Even
<1>5. ASSUME NEW i \in Items, Owner[i] \in running' PROVE AccountedFor(Owner[i], watch'[i], live'[i])
  <2>1. CASE Owner[i] = u
    BY <1>1, <1>4, <1>5, <2>1 DEF AccountedFor
  <2>2. CASE Owner[i] # u
    BY <1>1, <1>3, <1>5, <2>2 DEF AccountedUnits
  <2> QED  BY <2>1, <2>2
<1>6. AccountedUnits'
  BY <1>5 DEF AccountedUnits
<1> QED  BY <1>2, <1>6

\* A catch-up job of a reload.
LEMMA CatchUpJobAccounts ==
  ASSUME Types, Keyed, EvenToBuild, AccountedUnits, NEW u \in Units, CatchUpJob(u)
  PROVE  EvenToBuild' /\ AccountedUnits'
<1> DEFINE m     == Only(file, {u})
           x(i)  == Prune(ItemOf(i, live[i]), Watched(m, i))
           ks    == keys \ (({u} \cup TargetsOf[u]) \ UnitRoots(m, u))
           ys    == [i \in Items |-> IF m[i] = {} THEN x(i)
                                     ELSE CatchUpUpdate(x(i), u, m[i], m[i] \ ks)]
           after == ks \cup UNION {KeysOf(x(i), ys[i], m, i) : i \in UnitItems(u)}
<1>1. /\ u \in running \cup stopping
      /\ UNCHANGED <<running, unbuilt, pc>>
      /\ \/ UNCHANGED <<memory, live, watch>>
         \/ /\ UnitBecomes(u, ys, after)
            /\ watch' = [i \in Items |-> IF Owner[i] = u THEN file[i] ELSE watch[i]]
            /\ memory' = UnitTrees(u, live', keys')
  BY DEF CatchUpJob, ingest, Types, Control, UnitSets
<1>2. EvenToBuild'
  <2>1. memory' \in {memory, UnitTrees(u, live', keys')}
    BY <1>1
  <2>2. \A i \in Items : Owner[i] # u => watch'[i] = watch[i]
    BY <1>1
  <2> QED  BY <1>1, <2>1, <2>2, UnitEvenToBuild
<1>3. CASE UNCHANGED <<live, watch>>
  BY <1>1, <1>2, <1>3, AccountedStays
<1>4. CASE /\ UnitBecomes(u, ys, after)
           /\ watch' = [i \in Items |-> IF Owner[i] = u THEN file[i] ELSE watch[i]]
  <2>1. live' = [i \in Items |-> IF Owner[i] = u THEN LiveOf(ys[i]) ELSE live[i]]
    BY <1>4 DEF UnitBecomes
  <2>2. DiskIs(disk) /\ LiveIs(live) /\ MapIs(m)
    BY MappingsAre, OnlyIs DEF Types, World, Remembers
  <2>3. ASSUME NEW i \in Items, Owner[i] = u PROVE AccountedFor(u, watch'[i], live'[i])
    <3>1. watch'[i] = m[i]
      BY <1>4, <2>3 DEF Only
    <3>2. PrunedItem(i, m, x(i))
      BY <2>2, PrunedItemIs
    <3>3. x(i).row \cup x(i).oos \subseteq ks
      BY <2>3, PrunedItemKeyed
    <3> DEFINE fresh == m[i] \ ks
               z == CatchUpUpdate(x(i), Owner[i], m[i], fresh)
    <3>4. live'[i] = LiveOf(IF m[i] = {} THEN x(i) ELSE z)
      BY <2>1, <2>3
    <3>5. fresh \cap (x(i).row \cup x(i).oos) = {}
      BY <3>3
    <3> HIDE DEF x, m, fresh
    <3>6. CASE m[i] = {}
      BY <3>1, <3>6 DEF AccountedFor
    <3>7. CASE m[i] # {}
      <4>1. /\ m[i] \in SUBSET Places(i) /\ Owner[i] \in Places(i) /\ Owner[i] \notin m[i]
            /\ m[i] \subseteq {Order[n] : n \in 1 .. Len(Order)}
        BY <2>2, TargetsAre
      <4>2. Order \in Seq(Roots) /\ Places(i) \in SUBSET Places(i)
        BY OrderAssumption
      <4>3. x(i) \in Item(Places(i), Places(i), Owner[i])
        BY <3>2 DEF PrunedItem
      <4>4. AccountedFor(Owner[i], m[i], z)
        BY <3>5, <4>1, <4>2, <4>3, CatchUpAccounts
      <4>5. live'[i] = LiveOf(z)
        BY <3>4, <3>7
      <4> HIDE DEF z
      <4> QED  BY <2>3, <3>1, <4>4, <4>5 DEF AccountedFor, LiveOf, Accounted, Even
    <3> QED  BY <3>6, <3>7
  <2>4. ASSUME NEW i \in Items, Owner[i] \in running' PROVE AccountedFor(Owner[i], watch'[i], live'[i])
    <3>1. CASE Owner[i] = u
      BY <2>3, <3>1
    <3>2. CASE Owner[i] # u
      <4>1. live'[i] = live[i] /\ watch'[i] = watch[i]
        BY <1>4, <2>1, <3>2
      <4> QED  BY <1>1, <2>4, <4>1 DEF AccountedUnits
    <3> QED  BY <3>1, <3>2
  <2>5. AccountedUnits'
    BY <2>4 DEF AccountedUnits
  <2> QED  BY <1>2, <2>5
<1> QED  BY <1>1, <1>3, <1>4

\* New observers.
LEMMA BuildUnitsAccounts ==
  ASSUME Types, Held, EvenToBuild, AccountedUnits, BuildUnits
  PROVE  EvenToBuild' /\ AccountedUnits'
<1> DEFINE kept(i) == memory.rows[i].row \cap UnitRoots(watch, Owner[i])
           new(i) == [row |-> kept(i), seen |-> disk[i] \cap Watched(watch, i),
                      oos |-> memory.rows[i].oos \cap kept(i)]
<1>1. /\ pc = "build" /\ pc' \in {"new", "serve"}
      /\ live' = [i \in Items |-> IF Owner[i] \notin unbuilt THEN live[i] ELSE new(i)]
      /\ running' = running \cup unbuilt /\ watch' = watch
  BY DEF BuildUnits
<1>2. ASSUME NEW i \in Items, Owner[i] \in running' PROVE AccountedFor(Owner[i], watch[i], live'[i])
  <2>1. CASE Owner[i] \notin unbuilt
    BY <1>1, <1>2, <2>1 DEF AccountedUnits
  <2>2. CASE Owner[i] \in unbuilt
    <3>1. EvenTrees(memory, watch, i)
      BY <1>1, <2>2 DEF EvenToBuild
    <3>2. watch[i] \cup {Owner[i]} \subseteq UnitRoots(watch, Owner[i])
      BY DEF UnitRoots, UnitTargets, UnitItems
    <3>3. live'[i] = [row |-> kept(i), seen |-> disk[i] \cap Watched(watch, i),
                      oos |-> memory.rows[i].oos \cap kept(i)]
      BY <1>1, <2>2
    <3> DEFINE W == UnitRoots(watch, Owner[i])
    <3>4. kept(i) = memory.rows[i].row \cap W
      OBVIOUS
    <3> HIDE DEF kept, W
    <3>5. live'[i].row = kept(i) /\ live'[i].oos = memory.rows[i].oos \cap kept(i)
      BY <3>3
    <3>6. ASSUME NEW r \in watch[i] PROVE Even(live'[i], Owner[i], r)
      <4>1. r \in W /\ Owner[i] \in W
        BY <3>2 DEF W
      <4> QED  BY <3>1, <3>4, <3>5, <4>1 DEF EvenTrees, Even
    <3> QED  BY <3>6 DEF AccountedFor, Accounted
  <2> QED  BY <2>1, <2>2
<1> QED  BY <1>1, <1>2 DEF AccountedUnits, EvenToBuild

\* A start.
LEMMA StartCatchUpAccounts ==
  ASSUME Types, Keyed, StartCatchUp
  PROVE  EvenToBuild' /\ AccountedUnits'
<1> DEFINE m == IF snapshot = None THEN file ELSE snapshot
<1>1. CatchUp(m) /\ watch' = m /\ running' = running /\ pc = "catchup"
  BY DEF StartCatchUp
<1>2. MapIs(m)
  BY MappingsAre DEF Types, World
<1>3. running = {}
  BY <1>1 DEF Types, Control, Phased
<1> HIDE DEF m
<1>4. \A i \in Items : EvenTrees(memory', m, i)
  BY <1>1, <1>2, CatchUpKeyed
<1> QED  BY <1>1, <1>3, <1>4 DEF EvenToBuild, AccountedUnits

\* A new unit.
LEMMA NewUnitAccounts ==
  ASSUME Types, Keyed, AccountedUnits, NewUnit
  PROVE  EvenToBuild' /\ AccountedUnits'
<1>1. PICK u \in todo : /\ CatchUp(Only(snapshot, {u}))
                        /\ watch' = [i \in Items |-> IF Owner[i] = u THEN snapshot[i] ELSE watch[i]]
                        /\ unbuilt' = {u}
  BY DEF NewUnit
<1>2. UNCHANGED <<live, running>> /\ pc = "new"
  BY DEF NewUnit
<1>3. u \notin running /\ snapshot \in Mappings
  BY <1>1, <1>2 DEF Types, Control, Phased
<1>4. AccountedUnits'
  <2>1. \A i \in Items : Owner[i] \in running' =>
           Owner[i] \in running /\ live'[i] = live[i] /\ watch'[i] = watch[i]
    BY <1>1, <1>2, <1>3
  <2> QED  BY <2>1, AccountedStays
<1> DEFINE m == Only(snapshot, {u})
<1>5. MapIs(m)
  BY <1>3, MappingsAre, OnlyIs
<1>6. \A i \in Items : Owner[i] = u => watch'[i] = m[i]
  BY <1>1 DEF Only
<1> HIDE DEF m
<1>7. \A i \in Items : EvenTrees(memory', m, i)
  BY <1>1, <1>5, CatchUpKeyed DEF m
<1>8. EvenToBuild'
  BY <1>1, <1>6, <1>7 DEF EvenToBuild, EvenTrees
<1> QED  BY <1>4, <1>8

\* Every step.
LEMMA NextAccounts ==
  ASSUME Types, Keyed, Held, EvenToBuild, AccountedUnits, [Next]_vars
  PROVE  EvenToBuild' /\ AccountedUnits'
<1>1. ASSUME pc' # "build" PROVE EvenToBuild'
  BY <1>1 DEF EvenToBuild
<1>2. ASSUME UNCHANGED <<live, watch>>, running' \subseteq running PROVE AccountedUnits'
  BY <1>2 DEF AccountedUnits
<1>3. CASE UNCHANGED vars \/ WriteDisk \/ EditYaml
  <2>1. UNCHANGED <<live, watch, running, memory, unbuilt, pc>>
    BY <1>3 DEF vars, WriteDisk, EditYaml, units, ingest
  <2> QED  BY <1>2, <2>1 DEF EvenToBuild
<1>4. CASE Start \/ RequestReload \/ IngestSteps \/ NewUnitFails \/ ReloadWaits \/ ReloadDone
           \/ DirectReload \/ ReloadUnits
  <2>1. UNCHANGED <<live, watch>> /\ running' \subseteq running
    BY <1>4 DEF Start, RequestReload, IngestSteps, Retract, SaveSnapshot, PersistPruned, DropDocs,
                NewUnitFails, ReloadWaits, ReloadDone, DirectReload, ReloadUnits, units
  <2>2. pc' # "build"
    BY <1>4 DEF Start, RequestReload, Ingest, IngestSteps, Retract, SaveSnapshot, PersistPruned, DropDocs,
                NewUnitFails, ReloadWaits, ReloadDone, DirectReload, ReloadUnits
  <2> QED  BY <1>1, <1>2, <2>1, <2>2
<1>5. ASSUME NEW u \in Units, Exit(u) PROVE EvenToBuild' /\ AccountedUnits'
  <2>1. /\ u \in stopping /\ UNCHANGED <<running, memory, unbuilt, pc>>
        /\ live' = [i \in Items |-> IF Owner[i] = u THEN NotLive ELSE live[i]]
        /\ watch' = [i \in Items |-> IF Owner[i] = u THEN {} ELSE watch[i]]
    BY <1>5 DEF Exit, ingest
  <2>2. u \notin running
    BY <2>1 DEF Types, Control, UnitSets
  <2>3. EvenToBuild'
    BY <2>1, UnitEvenToBuild
  <2>4. \A i \in Items : Owner[i] \in running' =>
           Owner[i] \in running /\ live'[i] = live[i] /\ watch'[i] = watch[i]
    BY <2>1, <2>2
  <2> QED  BY <2>3, <2>4, AccountedStays
<1>6. CASE Crash
  <2>1. running' = {} /\ pc' = "off"
    BY <1>6 DEF Crash
  <2> QED  BY <1>1, <2>1 DEF AccountedUnits
<1> QED  BY <1>3, <1>4, <1>5, <1>6, IdleAccounts, CatchUpJobAccounts, BuildUnitsAccounts,
            StartCatchUpAccounts, NewUnitAccounts
         DEF Next, CatchUpSteps, ReloadSteps

\* With everything accounted for, an item that shows nothing to do is everywhere or
\* nowhere.
LEMMA AccountedMatch ==
  ASSUME Types, AccountedUnits
  PROVE  NoFrozenMismatch
<1> SUFFICES ASSUME NEW u \in running, NEW i \in UnitItems(u),
                    disk[i] \cap Watched(watch, i) = live[i].seen,
                    live[i].row = live[i].seen, live[i].oos = {}
             PROVE  disk[i] \cap Watched(watch, i) \in {{}, Watched(watch, i)}
  BY DEF NoFrozenMismatch
<1>1. i \in Items /\ Owner[i] = u
  BY DEF UnitItems
<1>2. ASSUME NEW r \in watch[i] PROVE r \in live[i].seen <=> u \in live[i].seen
  BY <1>1, <1>2 DEF AccountedUnits, AccountedFor, Accounted, Even
<1>3. Watched(watch, i) = {} \/ Watched(watch, i) = watch[i] \cup {u}
  BY <1>1 DEF Watched
<1>4. (\A r \in Watched(watch, i) : r \in live[i].seen) \/ (\A r \in Watched(watch, i) : r \notin live[i].seen)
  BY <1>2, <1>3
<1> QED  BY <1>4

\* For every set of projects, items, mappings and paths: an item that nothing is
\* pending for, with no isolated replica, is at its hub and at all its targets or
\* nowhere, whatever catch-ups, reloads and crashes came before (_install_fresh,
\* _apply_frozen_mismatches).
THEOREM NoFrozenMismatchCorrect == Spec => []NoFrozenMismatch
<1>1. Init => Keyed /\ EvenToBuild /\ AccountedUnits /\ Held
  <2> SUFFICES ASSUME Init PROVE Keyed /\ EvenToBuild /\ AccountedUnits /\ Held
    OBVIOUS
  <2>1. Keyed
    BY DEF Init, Keyed, KeyedDocs, KeyedLive, NoRows, NotLive
  <2>2. EvenToBuild /\ AccountedUnits /\ Held
    BY DEF Init, EvenToBuild, AccountedUnits, Held
  <2> QED  BY <2>1, <2>2
<1>2. Types /\ Held /\ [Next]_vars => Types' /\ Held'
  BY NextTypes, NextHeld
<1>3. Types /\ Keyed /\ Held /\ [Next]_vars => Keyed'
  BY NextTypes, NextKeyed
<1>4. Types /\ Keyed /\ Held /\ EvenToBuild /\ AccountedUnits /\ [Next]_vars =>
        EvenToBuild' /\ AccountedUnits'
  BY NextAccounts
<1>5. Types /\ AccountedUnits => NoFrozenMismatch
  BY AccountedMatch
<1> QED  BY <1>1, <1>2, <1>3, <1>4, <1>5, InitTypes, PTL DEF Spec
=============================================================================
