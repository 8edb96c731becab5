--------------------------- MODULE ItemSyncProofs ---------------------------
(***************************************************************************)
(* Facts about the operators of ItemSync, for every order of the roots,    *)
(* every item and every set of roots watched: what each makes of the       *)
(* fields of an item, and what an apply, a tick and a catch-up promise     *)
(* together.                                                               *)
(*                                                                         *)
(* Apply is a recursive function on the rounds: that there is one, and     *)
(* that a set of items which every round keeps has its result, is proved   *)
(* here by a least counterexample (Least, NatInduct, ApplyInduct).         *)
(***************************************************************************)
EXTENDS ItemSync, WellFoundedInduction, TLAPS

-----------------------------------------------------------------------------
\* Induction on the rounds of an apply

\* A nonempty set of naturals has a least element.
LEMMA Least ==
  ASSUME NEW T, T \subseteq Nat, T # {}
  PROVE  \E x \in T : \A y \in T : ~(y < x)
<1>1. IsWellFoundedOn(OpToRel(<, Nat), Nat)
  BY NatLessThanWellFounded
<1>2. PICK x \in T : \A y \in T : ~(<<y, x>> \in OpToRel(<, Nat))
  BY <1>1, WFMin
<1>3. \A y \in T : y < x => <<y, x>> \in OpToRel(<, Nat)
  BY DEF OpToRel
<1> QED  BY <1>2, <1>3

\* A set of naturals that has 0 and, with any n, n + 1 has all of them.
LEMMA NatInduct ==
  ASSUME NEW S, 0 \in S, \A n \in Nat : n \in S => n + 1 \in S
  PROVE  Nat \subseteq S
<1> DEFINE T == Nat \ S
<1> SUFFICES ASSUME T # {} PROVE FALSE
  OBVIOUS
<1>1. PICK x \in T : \A y \in T : ~(y < x)
  BY Least
<1>2. x # 0 /\ x \in Nat
  OBVIOUS
<1>3. x - 1 \in Nat /\ x - 1 \notin T
  BY <1>1, <1>2
<1> QED  BY <1>2, <1>3

\* What the rounds up to m make of x.
Chain(f, x, h, W, m) ==
  f = [n \in 0 .. m |-> IF n = 0 THEN x ELSE Round(x, h, W, n, f[n - 1])]

\* There is such a function, which makes the recursion of Apply well defined.
LEMMA ChainExists ==
  ASSUME NEW x, NEW h, NEW W, NEW m \in Nat
  PROVE  \E f : Chain(f, x, h, W, m)
<1> DEFINE S == {k \in Nat : \E f : Chain(f, x, h, W, k)}
<1>1. 0 \in S
  <2> DEFINE f == [n \in 0 .. 0 |-> x]
  <2>1. Chain(f, x, h, W, 0)
    BY DEF Chain
  <2> QED  BY <2>1
<1>2. ASSUME NEW k \in Nat, k \in S PROVE k + 1 \in S
  <2>1. PICK f : Chain(f, x, h, W, k)
    BY <1>2
  <2> DEFINE g == [n \in 0 .. k + 1 |-> IF n = k + 1 THEN Round(x, h, W, k + 1, f[k]) ELSE f[n]]
  <2>2. ASSUME NEW n \in 0 .. k + 1
        PROVE  g[n] = IF n = 0 THEN x ELSE Round(x, h, W, n, g[n - 1])
    <3>1. CASE n = k + 1
      BY <3>1
    <3>2. CASE n = 0
      BY <2>1, <3>2 DEF Chain
    <3>3. CASE n \in 1 .. k
      <4>1. f[n] = Round(x, h, W, n, f[n - 1])
        BY <2>1, <3>3 DEF Chain
      <4>2. g[n] = f[n] /\ g[n - 1] = f[n - 1]
        BY <3>3
      <4> QED  BY <3>3, <4>1, <4>2
    <3> QED  BY <3>1, <3>2, <3>3
  <2>3. Chain(g, x, h, W, k + 1)
    BY <2>2 DEF Chain
  <2> QED  BY <2>3
<1>3. m \in S
  BY <1>1, <1>2, NatInduct
<1> QED  BY <1>3

\* S[n] has what the item may be after n rounds.
LEMMA ApplyInductTo ==
  ASSUME NEW Q, Order \in Seq(Q), NEW x, NEW h, NEW W, NEW S, x \in S[0],
         \A n \in 1 .. Len(Rounds) : \A y \in S[n - 1] : Round(x, h, W, n, y) \in S[n]
  PROVE  Apply(x, h, W) \in S[Len(Rounds)]
<1>1. Len(Rounds) \in Nat
  BY DEF Rounds
<1> DEFINE after == CHOOSE f : f = [n \in 0 .. Len(Rounds) |->
                       IF n = 0 THEN x ELSE Round(x, h, W, n, f[n - 1])]
<1>2. Chain(after, x, h, W, Len(Rounds))
  BY <1>1, ChainExists DEF Chain
<1>3. Apply(x, h, W) = after[Len(Rounds)]
  BY DEF Apply
<1> HIDE DEF after
<1>4. \A n \in 0 .. Len(Rounds) :
        after[n] = IF n = 0 THEN x ELSE Round(x, h, W, n, after[n - 1])
  BY <1>2 DEF Chain
<1> DEFINE T == {n \in Nat : n <= Len(Rounds) => after[n] \in S[n]}
<1>5. 0 \in T
  BY <1>1, <1>4
<1>6. ASSUME NEW n \in Nat, n \in T PROVE n + 1 \in T
  <2> SUFFICES ASSUME n + 1 <= Len(Rounds) PROVE after[n + 1] \in S[n + 1]
    OBVIOUS
  <2>1. n + 1 \in 1 .. Len(Rounds) /\ n + 1 \in 0 .. Len(Rounds) /\ (n + 1) - 1 = n /\ n + 1 # 0
    BY <1>1
  <2>2. after[n] \in S[(n + 1) - 1]
    BY <1>1, <1>6, <2>1
  <2>3. after[n + 1] = Round(x, h, W, n + 1, after[n])
    BY <1>4, <2>1
  <2> QED  BY <2>1, <2>2, <2>3
<1>7. Len(Rounds) \in T
  BY <1>1, <1>5, <1>6, NatInduct
<1> QED  BY <1>1, <1>3, <1>7

\* What every round keeps, an apply keeps: S is the set of items that have it.
LEMMA ApplyInduct ==
  ASSUME NEW Q, Order \in Seq(Q), NEW x, NEW h, NEW W, NEW S, x \in S,
         \A n \in 1 .. Len(Rounds), y \in S : Round(x, h, W, n, y) \in S
  PROVE  Apply(x, h, W) \in S
<1> DEFINE every == [n \in 0 .. Len(Rounds) |-> S]
<1>1. Len(Rounds) \in Nat
  BY DEF Rounds
<1>2. \A n \in 0 .. Len(Rounds) : every[n] = S
  OBVIOUS
<1> HIDE DEF every
<1>3. x \in every[0] /\ every[Len(Rounds)] = S
  BY <1>1, <1>2
<1>4. \A n \in 1 .. Len(Rounds) : \A y \in every[n - 1] : Round(x, h, W, n, y) \in every[n]
  BY <1>1, <1>2
<1> QED  BY <1>3, <1>4, ApplyInductTo

-----------------------------------------------------------------------------
\* Items stay items

\* Items on disk in D that are known of in R; the hub, h, is never isolated.
Item(D, R, h) ==
  [disk : SUBSET D, row : SUBSET R, seen : SUBSET R, oos : SUBSET (R \ {h}),
   box : SUBSET R, gone : BOOLEAN]

\* Every operator leaves an item.
LEMMA RecordType ==
  ASSUME NEW D, NEW R \in SUBSET D, NEW h, NEW x \in Item(D, R, h), NEW S \in SUBSET R, NEW b \in BOOLEAN
  PROVE  Record(x, S, b) \in Item(D, R, h)
BY DEF Record, Put, Item

\* A record of what the disk shows.
LEMMA RecordDiskType ==
  ASSUME NEW D, NEW R \in SUBSET D, NEW h, NEW x \in Item(D, R, h), NEW S \in SUBSET R
  PROVE  RecordDisk(x, S) \in Item(D, R, h)
<1>1. S \cap x.disk \in SUBSET R /\ S \ x.disk \in SUBSET R
  OBVIOUS
<1>2. Record(x, S \cap x.disk, TRUE) \in Item(D, R, h)
  BY <1>1, RecordType
<1>3. Record(Record(x, S \cap x.disk, TRUE), S \ x.disk, FALSE) \in Item(D, R, h)
  BY <1>1, <1>2, RecordType
<1> QED  BY <1>3 DEF RecordDisk

\* A cleared mark.
LEMMA ClearOosType ==
  ASSUME NEW D, NEW R \in SUBSET D, NEW h, NEW x \in Item(D, R, h), NEW S \in SUBSET R
  PROVE  ClearOos(x, S) \in Item(D, R, h)
<1>1. [x EXCEPT !.oos = @ \ S] \in Item(D, R, h)
  BY DEF Item
<1> QED  BY <1>1, RecordDiskType DEF ClearOos

\* A mark.
LEMMA MarkOosType ==
  ASSUME NEW D, NEW R \in SUBSET D, NEW h, NEW x \in Item(D, R, h), NEW S \in SUBSET (R \ {h})
  PROVE  MarkOos(x, S) \in Item(D, R, h)
BY DEF MarkOos, Item

\* A scan.
LEMMA ObserveType ==
  ASSUME NEW D, NEW R \in SUBSET D, NEW h, NEW x \in Item(D, R, h), NEW W \in SUBSET R
  PROVE  Observe(x, h, W) \in Item(D, R, h)
<1> DEFINE changed == {r \in W : (r \in x.disk) # (r \in x.seen)}
           rejoins == {r \in changed \cap x.oos : (r \in x.disk) = (h \in x.disk)}
           queued  == {r \in changed \ rejoins : r \in x.oos => r \notin x.disk}
<1>1. ClearOos(x, rejoins) \in Item(D, R, h)
  BY ClearOosType
<1>2. queued \in SUBSET R /\ x.disk \in SUBSET D
  BY DEF Item
<1>3. Observe(x, h, W) = [ClearOos(x, rejoins) EXCEPT !.seen = (@ \ W) \cup (x.disk \cap W),
                                                     !.box  = queued, !.gone = FALSE]
  BY DEF Observe
<1> HIDE DEF queued, rejoins
<1> QED  BY <1>1, <1>2, <1>3 DEF Item

\* A fan-out.
LEMMA FanOutType ==
  ASSUME NEW D, NEW R \in SUBSET D, NEW h, NEW x \in Item(D, R, h), NEW r \in R, NEW W \in SUBSET R,
         NEW old \in BOOLEAN, NEW new \in BOOLEAN
  PROVE  FanOut(x, h, r, W, old, new) \in Item(D, R, h)
<1> DEFINE reached == W \ ({h, r} \cup x.oos \cup x.box)
           agree   == {q \in reached : (q \in x.disk) = old}
           put     == [x EXCEPT !.disk = Put(@, agree, new)]
           marked  == MarkOos(Record(put, agree, new), reached \ agree)
<1>1. agree \in SUBSET R /\ reached \ agree \in SUBSET (R \ {h})
  OBVIOUS
<1>2. FanOut(x, h, r, W, old, new) = ClearOos(marked, {q \in marked.oos : (q \in marked.disk) = new})
  BY DEF FanOut
<1> HIDE DEF reached, agree
<1>3. put \in Item(D, R, h)
  BY <1>1 DEF Item, Put
<1>4. marked \in Item(D, R, h)
  BY <1>1, <1>3, RecordType, MarkOosType
<1> HIDE DEF marked
<1>5. {q \in marked.oos : (q \in marked.disk) = new} \in SUBSET R
  BY <1>4 DEF Item
<1> QED  BY <1>2, <1>4, <1>5, ClearOosType

\* The handler of one entry.
LEMMA ApplyOneType ==
  ASSUME NEW D, NEW R \in SUBSET D, NEW h \in R, NEW x \in Item(D, R, h), NEW r \in R, NEW W \in SUBSET R, NEW d
  PROVE  ApplyOne(x, h, r, W, d) \in Item(D, R, h)
<1> DEFINE y == [x EXCEPT !.box = @ \ {r}]
<1>1. y \in Item(D, R, h)
  BY DEF Item
<1> HIDE DEF y
<1>2. ApplyHub(y, h, W) \in Item(D, R, h)
  <2> DEFINE z == [Record(y, {h}, h \in y.disk) EXCEPT !.gone = @ \/ ~(h \in y.disk)]
  <2>0. {h} \in SUBSET R /\ (h \in y.disk) \in BOOLEAN /\ (h \in y.row) \in BOOLEAN
    OBVIOUS
  <2>1. Record(y, {h}, h \in y.disk) \in Item(D, R, h)
    BY <1>1, <2>0, RecordType
  <2>2. z \in Item(D, R, h)
    BY <2>1 DEF Item
  <2>3. ApplyHub(y, h, W) = FanOut(z, h, h, W, h \in y.row, h \in y.disk)
    BY DEF ApplyHub
  <2> HIDE DEF z
  <2> DEFINE old == h \in y.row
             new == h \in y.disk
  <2>4. old \in BOOLEAN /\ new \in BOOLEAN
    OBVIOUS
  <2>5. ApplyHub(y, h, W) = FanOut(z, h, h, W, old, new)
    BY <2>3
  <2> HIDE DEF old, new
  <2> QED  BY <2>2, <2>4, <2>5, FanOutType
<1>3. ApplyDelete(y, h, r, W) \in Item(D, R, h)
  <2> DEFINE z == [y EXCEPT !.disk = @ \ {h}, !.oos = @ \ {r}, !.gone = TRUE]
  <2>1. z \in Item(D, R, h)
    BY <1>1 DEF Item
  <2> DEFINE old == h \in y.disk
  <2>2. ApplyDelete(y, h, r, W) = FanOut(Record(z, {h, r}, FALSE), h, r, W, old, FALSE)
    BY DEF ApplyDelete
  <2>3. old \in BOOLEAN /\ {h, r} \in SUBSET R
    OBVIOUS
  <2> HIDE DEF z, old
  <2>4. Record(z, {h, r}, FALSE) \in Item(D, R, h)
    BY <2>1, <2>3, RecordType
  <2> QED  BY <2>2, <2>3, <2>4, FanOutType
<1>4. ASSUME r # h PROVE ApplyCreate(y, h, r, W) \in Item(D, R, h)
  <2> DEFINE z == [y EXCEPT !.disk = @ \cup {h}]
  <2>1. z \in Item(D, R, h)
    BY <1>1 DEF Item
  <2>2. ApplyCreate(y, h, r, W) \in
          {y, MarkOos(y, {r}), FanOut(Record(z, {h, r}, TRUE), h, r, W, FALSE, TRUE)}
    BY DEF ApplyCreate
  <2> HIDE DEF z
  <2>3. Record(z, {h, r}, TRUE) \in Item(D, R, h) /\ MarkOos(y, {r}) \in Item(D, R, h)
    BY <1>1, <1>4, <2>1, RecordType, MarkOosType
  <2>4. FanOut(Record(z, {h, r}, TRUE), h, r, W, FALSE, TRUE) \in Item(D, R, h)
    BY <2>3, FanOutType
  <2> QED  BY <1>1, <2>2, <2>3, <2>4
<1> QED  BY <1>2, <1>3, <1>4 DEF ApplyOne, y

\* One round of an apply.
LEMMA RoundType ==
  ASSUME NEW D, NEW R \in SUBSET D, NEW h \in R, NEW x, NEW W \in SUBSET R, NEW n, NEW y \in Item(D, R, h)
  PROVE  Round(x, h, W, n, y) \in Item(D, R, h)
<1>1. y.box \subseteq R
  BY DEF Item
<1> QED  BY <1>1, ApplyOneType DEF Round

\* What apply, and so a tick, makes of an item is one.
LEMMA ApplyType ==
  ASSUME NEW Q, Order \in Seq(Q), NEW D, NEW R \in SUBSET D, NEW h \in R, NEW x \in Item(D, R, h), NEW W \in SUBSET R
  PROVE  Apply(x, h, W) \in Item(D, R, h)
BY RoundType, ApplyInduct

\* A tick.
LEMMA TickType ==
  ASSUME NEW Q, Order \in Seq(Q), NEW D, NEW R \in SUBSET D, NEW h \in R, NEW x \in Item(D, R, h), NEW W \in SUBSET R
  PROVE  Tick(x, h, W) \in Item(D, R, h)
BY ObserveType, ApplyType DEF Tick

\* What a catch-up makes of an item is one.
LEMMA SeedType ==
  ASSUME NEW D, NEW R \in SUBSET D, NEW h \in R, NEW x \in Item(D, R, h), NEW T \in SUBSET R
  PROVE  Seed(x, h, T) \in Item(D, R, h)
<1> DEFINE new == {t \in T : t \notin x.row}
           z   == [x EXCEPT !.disk = @ \cup new]
<1>1. z \in Item(D, R, h) /\ new \cup {h} \in SUBSET R
  BY DEF Item
<1>2. Seed(x, h, T) \in {x, Record(z, new \cup {h}, TRUE)}
  BY DEF Seed
<1> HIDE DEF new, z
<1> QED  BY <1>1, <1>2, RecordType

\* The copies of new targets.
LEMMA InstallType ==
  ASSUME NEW D, NEW R \in SUBSET D, NEW h \in R, NEW x \in Item(D, R, h), NEW T \in SUBSET R,
         NEW recorded
  PROVE  InstallFresh(x, h, T, recorded) \in Item(D, R, h)
<1> DEFINE put  == [x EXCEPT !.disk = Put(@, T, h \in x.disk)]
           full == InstallFresh(x, h, T, recorded)
<1>1. put \in Item(D, R, h)
  BY DEF Item, Put
<1>2. full \in {put, RecordDisk(put, T)}
  BY DEF InstallFresh
<1> HIDE DEF put, full
<1>3. RecordDisk(put, T) \in Item(D, R, h)
  BY <1>1, RecordDiskType
<1>4. full \in Item(D, R, h)
  BY <1>1, <1>2, <1>3
<1> QED  BY <1>4 DEF full

\* A catch-up.
LEMMA CatchUpType ==
  ASSUME NEW Q, Order \in Seq(Q), NEW D, NEW R \in SUBSET D, NEW h \in R, NEW x \in Item(D, R, h),
         NEW T \in SUBSET R, NEW fresh
  PROVE  CatchUpUpdate(x, h, T, fresh) \in Item(D, R, h)
<1> DEFINE seeded == Seed(x, h, T \ fresh)
           ticked == Tick(seeded, h, (T \ fresh) \cup {h})
           full   == InstallFresh(ticked, h, T \cap fresh, h \in seeded.row)
           frozen == {t \in T :
                        /\ (t \in full.disk) # (h \in full.disk)
                        /\ ~(t \in full.oos /\ (h \in full.disk \/ full.gone))
                        /\ (h \in full.disk) = (h \in full.row)
                        /\ (t \in full.disk) = (t \in full.row)}
           thawed == [full EXCEPT !.oos = @ \ frozen, !.box = frozen]
<1>1. seeded \in Item(D, R, h)
  BY SeedType
<1>2. CatchUpUpdate(x, h, T, fresh) = Unfreeze(full, h, T)
  BY DEF CatchUpUpdate
<1> HIDE DEF seeded
<1>3. ticked \in Item(D, R, h)
  BY <1>1, TickType
<1> HIDE DEF ticked
<1>6. full \in Item(D, R, h)
  BY <1>3, InstallType
<1>7. Unfreeze(full, h, T) = Apply(thawed, h, T \cup {h})
  BY DEF Unfreeze
<1> HIDE DEF full
<1>8. frozen \in SUBSET R
  OBVIOUS
<1> HIDE DEF frozen
<1>9. thawed \in Item(D, R, h) /\ T \cup {h} \in SUBSET R
  BY <1>6, <1>8 DEF Item
<1> HIDE DEF thawed
<1> QED  BY <1>2, <1>7, <1>9, ApplyType

\* A prune.
LEMMA PruneType ==
  ASSUME NEW D, NEW R \in SUBSET D, NEW h, NEW x \in Item(D, R, h), NEW W
  PROVE  Prune(x, W) \in Item(D, R, h)
BY DEF Prune, Item

-----------------------------------------------------------------------------
\* The fields of what the operators make of an item

\* x has the fields of an item.
Fields(x) ==
  x = [disk |-> x.disk, row |-> x.row, seen |-> x.seen, oos |-> x.oos, box |-> x.box,
       gone |-> x.gone]

\* An item has its fields.
LEMMA ItemFields ==
  ASSUME NEW D, NEW R, NEW h, NEW x \in Item(D, R, h)
  PROVE  Fields(x)
BY DEF Item, Fields

\* What each operator makes of each field, for every item.
LEMMA RecordIs ==
  ASSUME NEW x, Fields(x), NEW S, NEW b
  PROVE  Record(x, S, b) = [disk |-> x.disk, row |-> Put(x.row, S, b), seen |-> Put(x.seen, S, b),
                            oos |-> x.oos, box |-> x.box, gone |-> x.gone]
<1> DEFINE row == Put(x.row, S, b)
           seen == Put(x.seen, S, b)
<1>1. Record(x, S, b) = [x EXCEPT !.row = row, !.seen = seen]
  BY DEF Record
<1> HIDE DEF row, seen
<1> DEFINE y == [x EXCEPT !.row = row]
<1>2. y = [disk |-> x.disk, row |-> row, seen |-> x.seen, oos |-> x.oos, box |-> x.box,
           gone |-> x.gone]
  BY DEF Fields
<1>3. Record(x, S, b) = [y EXCEPT !.seen = seen]
  BY <1>1
<1> HIDE DEF y
<1>4. [y EXCEPT !.seen = seen] =
        [disk |-> x.disk, row |-> row, seen |-> seen, oos |-> x.oos, box |-> x.box, gone |-> x.gone]
  BY <1>2
<1> QED  BY <1>3, <1>4 DEF row, seen

\* The fields after a record of what the disk shows.
LEMMA RecordDiskIs ==
  ASSUME NEW x, Fields(x), NEW S
  PROVE  RecordDisk(x, S) =
           [disk |-> x.disk, row  |-> (x.row \ S) \cup (S \cap x.disk),
                             seen |-> (x.seen \ S) \cup (S \cap x.disk),
            oos  |-> x.oos, box |-> x.box, gone |-> x.gone]
<1> DEFINE there == S \cap x.disk
           y == Record(x, there, TRUE)
<1>1. y = [disk |-> x.disk, row |-> Put(x.row, there, TRUE), seen |-> Put(x.seen, there, TRUE),
           oos |-> x.oos, box |-> x.box, gone |-> x.gone]
  BY RecordIs
<1>2. RecordDisk(x, S) = Record(y, S \ x.disk, FALSE)
  BY DEF RecordDisk
<1> HIDE DEF y
<1>3. Fields(y)
  BY <1>1 DEF Fields
<1>4. Record(y, S \ x.disk, FALSE) =
        [disk |-> y.disk, row |-> Put(y.row, S \ x.disk, FALSE),
         seen |-> Put(y.seen, S \ x.disk, FALSE), oos |-> y.oos, box |-> y.box, gone |-> y.gone]
  BY <1>3, RecordIs
<1>5. /\ Put(y.row, S \ x.disk, FALSE) = (x.row \ S) \cup (S \cap x.disk)
      /\ Put(y.seen, S \ x.disk, FALSE) = (x.seen \ S) \cup (S \cap x.disk)
  BY <1>1 DEF Put
<1> QED  BY <1>1, <1>2, <1>4, <1>5

\* After a cleared mark.
LEMMA ClearOosIs ==
  ASSUME NEW x, Fields(x), NEW S
  PROVE  ClearOos(x, S) =
           [disk |-> x.disk, row  |-> (x.row \ S) \cup (S \cap x.disk),
                             seen |-> (x.seen \ S) \cup (S \cap x.disk),
            oos  |-> x.oos \ S, box |-> x.box, gone |-> x.gone]
<1> DEFINE z == [x EXCEPT !.oos = @ \ S]
<1>1. z = [disk |-> x.disk, row |-> x.row, seen |-> x.seen, oos |-> x.oos \ S, box |-> x.box,
           gone |-> x.gone]
  BY DEF Fields
<1>2. ClearOos(x, S) = RecordDisk(z, S)
  BY DEF ClearOos
<1> HIDE DEF z
<1>3. Fields(z)
  BY <1>1 DEF Fields
<1>4. RecordDisk(z, S) =
           [disk |-> z.disk, row  |-> (z.row \ S) \cup (S \cap z.disk),
                             seen |-> (z.seen \ S) \cup (S \cap z.disk),
            oos  |-> z.oos, box |-> z.box, gone |-> z.gone]
  BY <1>3, RecordDiskIs
<1> QED  BY <1>1, <1>2, <1>4

\* After a mark.
LEMMA MarkOosIs ==
  ASSUME NEW x, Fields(x), NEW S
  PROVE  MarkOos(x, S) =
           [disk |-> x.disk, row |-> (x.row \ S) \cup (S \cap x.disk), seen |-> x.seen,
            oos  |-> x.oos \cup S, box |-> x.box, gone |-> x.gone]
<1> DEFINE row == (x.row \ S) \cup (S \cap x.disk)
           oos == x.oos \cup S
<1>1. MarkOos(x, S) = [x EXCEPT !.oos = oos, !.row = row]
  BY DEF MarkOos
<1> HIDE DEF row, oos
<1> DEFINE y == [x EXCEPT !.oos = oos]
<1>2. y = [disk |-> x.disk, row |-> x.row, seen |-> x.seen, oos |-> oos, box |-> x.box,
           gone |-> x.gone]
  BY DEF Fields
<1>3. MarkOos(x, S) = [y EXCEPT !.row = row]
  BY <1>1
<1> HIDE DEF y
<1>4. [y EXCEPT !.row = row] =
        [disk |-> x.disk, row |-> row, seen |-> x.seen, oos |-> oos, box |-> x.box, gone |-> x.gone]
  BY <1>2
<1> QED  BY <1>3, <1>4 DEF row, oos

\* What a fan-out reaches: replicas that show the old state, and the others; and
\* the isolated replicas that show the new one afterwards.
Agree(x, h, r, W, old)  == {q \in W \ ({h, r} \cup x.oos \cup x.box) : (q \in x.disk) = old}
Differ(x, h, r, W, old) == (W \ ({h, r} \cup x.oos \cup x.box)) \ Agree(x, h, r, W, old)
Back(x, h, r, W, old, new) ==
  {q \in x.oos \cup Differ(x, h, r, W, old) :
     (q \in Put(x.disk, Agree(x, h, r, W, old), new)) = new}

FanOutFields(x, h, r, W, old, new, y) ==
  LET A == Agree(x, h, r, W, old)
      F == Differ(x, h, r, W, old)
      B == Back(x, h, r, W, old, new)
      d == Put(x.disk, A, new)
  IN  y = [disk |-> d,
           row  |-> (((Put(x.row, A, new) \ F) \cup (F \cap d)) \ B) \cup (B \cap d),
           seen |-> (Put(x.seen, A, new) \ B) \cup (B \cap d),
           oos  |-> (x.oos \cup F) \ B, box |-> x.box, gone |-> x.gone]

\* After a fan-out.
LEMMA FanOutIs ==
  ASSUME NEW x, Fields(x), NEW h, NEW r, NEW W, NEW old, NEW new
  PROVE  FanOutFields(x, h, r, W, old, new, FanOut(x, h, r, W, old, new))
<1> DEFINE A == Agree(x, h, r, W, old)
           F == Differ(x, h, r, W, old)
           B == Back(x, h, r, W, old, new)
           d == Put(x.disk, A, new)
           put == [x EXCEPT !.disk = Put(@, A, new)]
           wrote == Record(put, A, new)
           marked == MarkOos(wrote, F)
<1>1. FanOut(x, h, r, W, old, new) = ClearOos(marked, {q \in marked.oos : (q \in marked.disk) = new})
  BY DEF FanOut, Agree, Differ
<1>2. B = {q \in x.oos \cup F : (q \in d) = new}
  BY DEF Back
<1> HIDE DEF A, F, B
<1>3. put = [disk |-> d, row |-> x.row, seen |-> x.seen, oos |-> x.oos, box |-> x.box,
             gone |-> x.gone]
  BY DEF Fields
<1> HIDE DEF d, put
<1>4. Fields(put)
  BY <1>3 DEF Fields
<1>5. wrote = [disk |-> put.disk, row |-> Put(put.row, A, new), seen |-> Put(put.seen, A, new),
               oos |-> put.oos, box |-> put.box, gone |-> put.gone]
  BY <1>4, RecordIs
<1> HIDE DEF wrote
<1>6. wrote = [disk |-> d, row |-> Put(x.row, A, new), seen |-> Put(x.seen, A, new),
               oos |-> x.oos, box |-> x.box, gone |-> x.gone]
  BY <1>3, <1>5
<1>7. Fields(wrote)
  BY <1>6 DEF Fields
<1>8. marked = [disk |-> wrote.disk, row |-> (wrote.row \ F) \cup (F \cap wrote.disk),
                seen |-> wrote.seen, oos |-> wrote.oos \cup F, box |-> wrote.box,
                gone |-> wrote.gone]
  BY <1>7, MarkOosIs
<1> HIDE DEF marked
<1>9. marked = [disk |-> d, row |-> (Put(x.row, A, new) \ F) \cup (F \cap d),
                seen |-> Put(x.seen, A, new), oos |-> x.oos \cup F, box |-> x.box,
                gone |-> x.gone]
  BY <1>6, <1>8
<1>10. Fields(marked)
  BY <1>9 DEF Fields
<1>11. {q \in marked.oos : (q \in marked.disk) = new} = B
  BY <1>2, <1>9
<1>12. ClearOos(marked, B) =
         [disk |-> marked.disk, row  |-> (marked.row \ B) \cup (B \cap marked.disk),
                                seen |-> (marked.seen \ B) \cup (B \cap marked.disk),
          oos  |-> marked.oos \ B, box |-> marked.box, gone |-> marked.gone]
  BY <1>10, ClearOosIs
<1>13. ClearOos(marked, B) =
         [disk |-> d,
          row  |-> (((Put(x.row, A, new) \ F) \cup (F \cap d)) \ B) \cup (B \cap d),
          seen |-> (Put(x.seen, A, new) \ B) \cup (B \cap d),
          oos  |-> (x.oos \cup F) \ B, box |-> x.box, gone |-> x.gone]
  BY <1>9, <1>12
<1> QED  BY <1>1, <1>11, <1>13 DEF A, F, B, d, FanOutFields

-----------------------------------------------------------------------------
\* The steps of a tick, field by field

\* A replaced field leaves the others: what was seen,
LEMMA PutSeen ==
  ASSUME NEW x, Fields(x), NEW v
  PROVE  [x EXCEPT !.seen = v] =
           [disk |-> x.disk, row |-> x.row, seen |-> v, oos |-> x.oos, box |-> x.box, gone |-> x.gone]
BY DEF Fields

\* whether the hub is gone,
LEMMA PutGone ==
  ASSUME NEW x, Fields(x), NEW v
  PROVE  [x EXCEPT !.gone = v] =
           [disk |-> x.disk, row |-> x.row, seen |-> x.seen, oos |-> x.oos, box |-> x.box, gone |-> v]
BY DEF Fields

\* the isolated replicas,
LEMMA PutOos ==
  ASSUME NEW x, Fields(x), NEW v
  PROVE  [x EXCEPT !.oos = v] =
           [disk |-> x.disk, row |-> x.row, seen |-> x.seen, oos |-> v, box |-> x.box, gone |-> x.gone]
BY DEF Fields

\* the mailbox.
LEMMA PutBox ==
  ASSUME NEW x, Fields(x), NEW v
  PROVE  [x EXCEPT !.box = v] =
           [disk |-> x.disk, row |-> x.row, seen |-> x.seen, oos |-> x.oos, box |-> v, gone |-> x.gone]
BY DEF Fields

\* The fields after a scan.
LEMMA ObserveIs ==
  ASSUME NEW x, Fields(x), NEW h, NEW W
  PROVE  LET changed == {r \in W : (r \in x.disk) # (r \in x.seen)}
             rejoins == {r \in changed \cap x.oos : (r \in x.disk) = (h \in x.disk)}
             queued  == {r \in changed \ rejoins : r \in x.oos => r \notin x.disk}
         IN  Observe(x, h, W) =
               [disk |-> x.disk, row |-> (x.row \ rejoins) \cup (rejoins \cap x.disk),
                seen |-> (((x.seen \ rejoins) \cup (rejoins \cap x.disk)) \ W) \cup (x.disk \cap W),
                oos |-> x.oos \ rejoins, box |-> queued, gone |-> FALSE]
<1> DEFINE changed == {r \in W : (r \in x.disk) # (r \in x.seen)}
           rejoins == {r \in changed \cap x.oos : (r \in x.disk) = (h \in x.disk)}
           queued  == {r \in changed \ rejoins : r \in x.oos => r \notin x.disk}
           y       == ClearOos(x, rejoins)
           seen    == (y.seen \ W) \cup (x.disk \cap W)
           y1      == [y EXCEPT !.seen = seen]
           y2      == [y1 EXCEPT !.box = queued]
<1>1. Observe(x, h, W) = [y2 EXCEPT !.gone = FALSE]
  BY DEF Observe
<1> HIDE DEF rejoins, queued
<1>2. y = [disk |-> x.disk, row  |-> (x.row \ rejoins) \cup (rejoins \cap x.disk),
                            seen |-> (x.seen \ rejoins) \cup (rejoins \cap x.disk),
           oos  |-> x.oos \ rejoins, box |-> x.box, gone |-> x.gone]
  BY ClearOosIs
<1> HIDE DEF y, seen
<1>3. y1 = [disk |-> y.disk, row |-> y.row, seen |-> seen, oos |-> y.oos, box |-> y.box,
            gone |-> y.gone]
  <2>1. Fields(y)
    BY <1>2 DEF Fields
  <2> QED  BY <2>1, PutSeen
<1> HIDE DEF y1
<1>4. y2 = [disk |-> y.disk, row |-> y.row, seen |-> seen, oos |-> y.oos, box |-> queued,
            gone |-> y.gone]
  BY <1>3
<1> HIDE DEF y2
<1>5. [y2 EXCEPT !.gone = FALSE] =
        [disk |-> y.disk, row |-> y.row, seen |-> seen, oos |-> y.oos, box |-> queued, gone |-> FALSE]
  <2>1. Fields(y2)
    BY <1>4 DEF Fields
  <2>2. [y2 EXCEPT !.gone = FALSE] =
          [disk |-> y2.disk, row |-> y2.row, seen |-> y2.seen, oos |-> y2.oos, box |-> y2.box,
           gone |-> FALSE]
    BY <2>1, PutGone
  <2> QED  BY <1>4, <2>2
<1>6. seen = (((x.seen \ rejoins) \cup (rejoins \cap x.disk)) \ W) \cup (x.disk \cap W)
  BY <1>2 DEF seen
<1> QED  BY <1>1, <1>2, <1>5, <1>6 DEF rejoins, queued

\* y is what the change of the hub, a target's delete or a target's create makes
\* of x: z is recorded, then fanned out from.
HubChange(x, h, W, y) ==
  \E z : \E old, new \in BOOLEAN :
    /\ (old <=> h \in x.row) /\ (new <=> h \in x.disk)
    /\ z = [disk |-> x.disk, row |-> Put(x.row, {h}, new), seen |-> Put(x.seen, {h}, new),
            oos |-> x.oos, box |-> x.box, gone |-> x.gone \/ ~new]
    /\ y = FanOut(z, h, h, W, old, new)

DeleteChange(x, h, r, W, y) ==
  \E z : \E old, new \in BOOLEAN :
    /\ (old <=> h \in x.disk) /\ ~new
    /\ z = [disk |-> x.disk \ {h}, row |-> x.row \ {h, r}, seen |-> x.seen \ {h, r},
            oos |-> x.oos \ {r}, box |-> x.box, gone |-> TRUE]
    /\ y = FanOut(z, h, r, W, old, new)

CreateChange(x, h, r, W, y) ==
  \E z : \E old, new \in BOOLEAN :
    /\ ~old /\ new
    /\ z = [disk |-> x.disk \cup {h}, row |-> x.row \cup {h, r},
            seen |-> x.seen \cup {h, r}, oos |-> x.oos, box |-> x.box, gone |-> x.gone]
    /\ y = FanOut(z, h, r, W, old, new)

\* The fields after an entry of the hub.
LEMMA ApplyHubIs ==
  ASSUME NEW x, Fields(x), NEW h, NEW W
  PROVE  HubChange(x, h, W, ApplyHub(x, h, W))
<1> DEFINE new == h \in x.disk
           z == [Record(x, {h}, new) EXCEPT !.gone = @ \/ ~new]
<1>1. Record(x, {h}, new) = [disk |-> x.disk, row |-> Put(x.row, {h}, new),
                             seen |-> Put(x.seen, {h}, new), oos |-> x.oos, box |-> x.box,
                             gone |-> x.gone]
  BY RecordIs
<1>2. z = [disk |-> x.disk, row |-> Put(x.row, {h}, new), seen |-> Put(x.seen, {h}, new),
           oos |-> x.oos, box |-> x.box, gone |-> x.gone \/ ~new]
  BY <1>1
<1>3. ApplyHub(x, h, W) = FanOut(z, h, h, W, h \in x.row, new)
  BY DEF ApplyHub
<1> DEFINE old == h \in x.row
<1>4. /\ old \in BOOLEAN /\ new \in BOOLEAN /\ (old <=> h \in x.row) /\ (new <=> h \in x.disk)
      /\ ApplyHub(x, h, W) = FanOut(z, h, h, W, old, new)
  BY <1>3
<1> HIDE DEF z, old, new
<1> QED  BY <1>2, <1>4 DEF HubChange

\* After a deleted replica.
LEMMA ApplyDeleteIs ==
  ASSUME NEW x, Fields(x), NEW h, NEW r, NEW W
  PROVE  DeleteChange(x, h, r, W, ApplyDelete(x, h, r, W))
<1> DEFINE y1 == [x EXCEPT !.disk = @ \ {h}]
           y2 == [y1 EXCEPT !.oos = @ \ {r}]
           y  == [y2 EXCEPT !.gone = TRUE]
           z  == Record(y, {h, r}, FALSE)
<1>1. ApplyDelete(x, h, r, W) = FanOut(z, h, r, W, h \in x.disk, FALSE)
  BY DEF ApplyDelete
<1>2. y1 = [disk |-> x.disk \ {h}, row |-> x.row, seen |-> x.seen, oos |-> x.oos, box |-> x.box,
            gone |-> x.gone]
  BY DEF Fields
<1> HIDE DEF y1
<1>3. y2 = [disk |-> x.disk \ {h}, row |-> x.row, seen |-> x.seen, oos |-> x.oos \ {r},
            box |-> x.box, gone |-> x.gone]
  BY <1>2
<1> HIDE DEF y2
<1>4. y = [disk |-> x.disk \ {h}, row |-> x.row, seen |-> x.seen, oos |-> x.oos \ {r},
           box |-> x.box, gone |-> TRUE]
  <2>1. Fields(y2)
    BY <1>3 DEF Fields
  <2>2. y = [disk |-> y2.disk, row |-> y2.row, seen |-> y2.seen, oos |-> y2.oos, box |-> y2.box,
             gone |-> TRUE]
    BY <2>1, PutGone
  <2> QED  BY <1>3, <2>2
<1> HIDE DEF y
<1>5. Fields(y)
  BY <1>4 DEF Fields
<1>6. z = [disk |-> y.disk, row |-> Put(y.row, {h, r}, FALSE), seen |-> Put(y.seen, {h, r}, FALSE),
           oos |-> y.oos, box |-> y.box, gone |-> y.gone]
  BY <1>5, RecordIs
<1> HIDE DEF z
<1>7. z = [disk |-> x.disk \ {h}, row |-> x.row \ {h, r}, seen |-> x.seen \ {h, r},
           oos |-> x.oos \ {r}, box |-> x.box, gone |-> TRUE]
  BY <1>4, <1>6 DEF Put
<1> DEFINE old == h \in x.disk
           new == FALSE
<1>8. /\ old \in BOOLEAN /\ new \in BOOLEAN /\ (old <=> h \in x.disk) /\ ~new
      /\ ApplyDelete(x, h, r, W) = FanOut(z, h, r, W, old, new)
  BY <1>1
<1> HIDE DEF old, new
<1> QED  BY <1>7, <1>8 DEF DeleteChange

\* After a created one.
LEMMA ApplyCreateIs ==
  ASSUME NEW x, Fields(x), NEW h, NEW r, NEW W, r \notin x.oos, h \notin x.disk
  PROVE  CreateChange(x, h, r, W, ApplyCreate(x, h, r, W))
<1> DEFINE y == [x EXCEPT !.disk = @ \cup {h}]
           z == Record(y, {h, r}, TRUE)
<1>1. ApplyCreate(x, h, r, W) = FanOut(z, h, r, W, FALSE, TRUE)
  BY DEF ApplyCreate
<1>2. y = [disk |-> x.disk \cup {h}, row |-> x.row, seen |-> x.seen, oos |-> x.oos, box |-> x.box,
           gone |-> x.gone]
  BY DEF Fields
<1> HIDE DEF y
<1>3. Fields(y)
  BY <1>2 DEF Fields
<1>4. z = [disk |-> y.disk, row |-> Put(y.row, {h, r}, TRUE), seen |-> Put(y.seen, {h, r}, TRUE),
           oos |-> y.oos, box |-> y.box, gone |-> y.gone]
  BY <1>3, RecordIs
<1> HIDE DEF z
<1>5. z = [disk |-> x.disk \cup {h}, row |-> x.row \cup {h, r}, seen |-> x.seen \cup {h, r},
           oos |-> x.oos, box |-> x.box, gone |-> x.gone]
  BY <1>2, <1>4 DEF Put
<1> QED  BY <1>1, <1>5 DEF CreateChange

\* The change leaves the mailbox before it is looked at.
LEMMA TakenIs ==
  ASSUME NEW x, Fields(x), NEW r
  PROVE  [x EXCEPT !.box = @ \ {r}] =
           [disk |-> x.disk, row |-> x.row, seen |-> x.seen, oos |-> x.oos, box |-> x.box \ {r},
            gone |-> x.gone]
BY DEF Fields

\* A round leaves the item alone, or takes a change of the hub, a delete or a create.
Taken(x, n, y) == Rounds[n] \in y.box /\ (n <= Len(Order) <=> Rounds[n] \notin x.disk)
After(y, r) ==
  [disk |-> y.disk, row |-> y.row, seen |-> y.seen, oos |-> y.oos, box |-> y.box \ {r}, gone |-> y.gone]

\* A round has nothing to do, or takes one entry from the mailbox to its handler.
LEMMA RoundCases ==
  ASSUME NEW D, NEW R, NEW h, NEW x, NEW W, NEW n, NEW y \in Item(D, R, h)
  PROVE  LET r == Rounds[n]
             z == After(y, r)
         IN  \/ Round(x, h, W, n, y) = y /\ ~Taken(x, n, y)
             \/ /\ Taken(x, n, y)
                /\ \/ r = h /\ Round(x, h, W, n, y) = ApplyHub(z, h, W)
                   \/ r # h /\ r \notin x.disk /\ Round(x, h, W, n, y) = ApplyDelete(z, h, r, W)
                   \/ r # h /\ r \in x.disk /\ Round(x, h, W, n, y) = ApplyCreate(z, h, r, W)
<1> DEFINE r == Rounds[n]
           d == n <= Len(Order)
           z == [y EXCEPT !.box = @ \ {r}]
<1>1. CASE ~Taken(x, n, y)
  BY <1>1 DEF Round, Taken
<1>2. CASE Taken(x, n, y)
  <2>1. Round(x, h, W, n, y) = ApplyOne(y, h, r, W, d)
    BY <1>2 DEF Round, Taken
  <2>2. ApplyOne(y, h, r, W, d) =
          IF r = h THEN ApplyHub(z, h, W)
          ELSE IF d THEN ApplyDelete(z, h, r, W) ELSE ApplyCreate(z, h, r, W)
    BY DEF ApplyOne
  <2>3. Fields(y)
    BY ItemFields
  <2>4. z = After(y, r)
    BY <2>3, TakenIs DEF After
  <2>5. d <=> r \notin x.disk
    BY <1>2 DEF Taken
  <2> HIDE DEF z, r, d
  <2>6. \/ r = h /\ Round(x, h, W, n, y) = ApplyHub(z, h, W)
        \/ r # h /\ r \notin x.disk /\ Round(x, h, W, n, y) = ApplyDelete(z, h, r, W)
        \/ r # h /\ r \in x.disk /\ Round(x, h, W, n, y) = ApplyCreate(z, h, r, W)
    BY <2>1, <2>2, <2>5
  <2> QED  BY <1>2, <2>4, <2>6 DEF r
<1> QED  BY <1>1, <1>2

\* The mailbox after a round.
NextBox(x, n, y) ==
  IF Rounds[n] \in y.box /\ (n <= Len(Order) <=> Rounds[n] \notin x.disk)
  THEN y.box \ {Rounds[n]} ELSE y.box

\* A round empties its part of the mailbox and adds nothing.
LEMMA RoundBox ==
  ASSUME NEW D, NEW R, NEW h, NEW x, NEW W, NEW n, NEW y \in Item(D, R, h)
  PROVE  Round(x, h, W, n, y).box = NextBox(x, n, y)
<1> DEFINE out == Round(x, h, W, n, y)
<1>1. CASE out = y /\ ~Taken(x, n, y)
  BY <1>1 DEF NextBox, Taken
<1>2. ASSUME NEW z, z = After(y, Rounds[n]), Taken(x, n, y),
             out \in {ApplyHub(z, h, W), ApplyDelete(z, h, Rounds[n], W), ApplyCreate(z, h, Rounds[n], W)}
      PROVE  out.box = NextBox(x, n, y)
  <2> DEFINE r == Rounds[n]
  <2> HIDE DEF r
  <2>1. Fields(z)
    BY <1>2 DEF Fields, After
  <2>2. ApplyHub(z, h, W).box = z.box
    <3>1. HubChange(z, h, W, ApplyHub(z, h, W))
      BY <2>1, ApplyHubIs
    <3>2. PICK w : w.box = z.box /\ Fields(w) /\ \E old, new \in BOOLEAN :
                             ApplyHub(z, h, W) = FanOut(w, h, h, W, old, new)
      BY <3>1 DEF HubChange, Fields
    <3> QED  BY <3>2, FanOutIs DEF FanOutFields
  <2>3. ApplyDelete(z, h, r, W).box = z.box
    <3>1. DeleteChange(z, h, r, W, ApplyDelete(z, h, r, W))
      BY <2>1, ApplyDeleteIs
    <3>2. PICK w : w.box = z.box /\ Fields(w) /\ \E old, new \in BOOLEAN :
                             ApplyDelete(z, h, r, W) = FanOut(w, h, r, W, old, new)
      BY <3>1 DEF DeleteChange, Fields
    <3> QED  BY <3>2, FanOutIs DEF FanOutFields
  <2>4. ApplyCreate(z, h, r, W).box = z.box
    <3>1. CASE r \in z.oos
      BY <3>1 DEF ApplyCreate
    <3>2. CASE r \notin z.oos /\ h \in z.disk
      BY <2>1, <3>2, MarkOosIs DEF ApplyCreate
    <3>3. CASE r \notin z.oos /\ h \notin z.disk
      <4>1. CreateChange(z, h, r, W, ApplyCreate(z, h, r, W))
        BY <2>1, <3>3, ApplyCreateIs
      <4>2. PICK w : w.box = z.box /\ Fields(w) /\ \E old, new \in BOOLEAN :
                               ApplyCreate(z, h, r, W) = FanOut(w, h, r, W, old, new)
        BY <4>1 DEF CreateChange, Fields
      <4> QED  BY <4>2, FanOutIs DEF FanOutFields
    <3> QED  BY <3>1, <3>2, <3>3
  <2>5. z.box = NextBox(x, n, y)
    BY <1>2 DEF NextBox, After, Taken
  <2> QED  BY <1>2, <2>2, <2>3, <2>4, <2>5 DEF r
<1> DEFINE z == After(y, Rounds[n])
<1>3. \/ out = y /\ ~Taken(x, n, y)
      \/ /\ Taken(x, n, y)
         /\ out \in {ApplyHub(z, h, W), ApplyDelete(z, h, Rounds[n], W), ApplyCreate(z, h, Rounds[n], W)}
  BY RoundCases
<1> HIDE DEF z, out
<1>4. Taken(x, n, y) => out.box = NextBox(x, n, y)
  BY <1>2, <1>3 DEF z
<1> QED  BY <1>1, <1>2, <1>3, <1>4 DEF out, z

\* When Order has every root of the mailbox, an apply empties it.
THEOREM ApplyEmptiesBox ==
  ASSUME NEW Q, Order \in Seq(Q), NEW D, NEW R \in SUBSET D, NEW h \in R, NEW x \in Item(D, R, h),
         NEW W \in SUBSET R, x.box \subseteq {Order[n] : n \in 1 .. Len(Order)}
  PROVE  Apply(x, h, W).box = {}
<1> DEFINE left(n) == {r \in x.box : \E k \in n + 1 .. Len(Rounds) :
                          r = Rounds[k] /\ (k <= Len(Order) <=> r \notin x.disk)}
           S == [n \in 0 .. Len(Rounds) |-> {y \in Item(D, R, h) : y.box \subseteq left(n)}]
<1>1. Len(Order) \in Nat /\ Len(Rounds) \in Nat /\ Len(Rounds) = Len(Order) + Len(Order)
      /\ \A n \in 1 .. Len(Order) : Rounds[n] = Order[n] /\ Rounds[Len(Order) + n] = Order[n]
  BY DEF Rounds
<1>2. x.box \subseteq left(0)
  <2> SUFFICES ASSUME NEW r \in x.box PROVE r \in left(0)
    OBVIOUS
  <2>1. PICK n \in 1 .. Len(Order) : r = Order[n]
    OBVIOUS
  <2>2. CASE r \notin x.disk
    <3>1. n \in 0 + 1 .. Len(Rounds) /\ r = Rounds[n] /\ n <= Len(Order)
      BY <1>1, <2>1
    <3> QED  BY <2>2, <3>1
  <2>3. CASE r \in x.disk
    <3>1. Len(Order) + n \in 0 + 1 .. Len(Rounds) /\ r = Rounds[Len(Order) + n]
          /\ ~(Len(Order) + n <= Len(Order))
      BY <1>1, <2>1
    <3> QED  BY <2>3, <3>1
  <2> QED  BY <2>2, <2>3
<1>3. x \in S[0]
  BY <1>1, <1>2
<1>4. ASSUME NEW n \in 1 .. Len(Rounds), NEW y \in S[n - 1]
      PROVE  Round(x, h, W, n, y) \in S[n]
  <2>1. n \in Nat /\ n - 1 \in 0 .. Len(Rounds) /\ n \in 0 .. Len(Rounds)
    BY <1>1
  <2>2. y \in Item(D, R, h) /\ y.box \subseteq left(n - 1)
    BY <2>1
  <2>3. Round(x, h, W, n, y) \in Item(D, R, h)
    BY <2>2, RoundType
  <2>4. Round(x, h, W, n, y).box \subseteq left(n)
    <3> SUFFICES ASSUME NEW r \in Round(x, h, W, n, y).box PROVE r \in left(n)
      OBVIOUS
    <3>0. Round(x, h, W, n, y).box = NextBox(x, n, y)
      BY <2>2, RoundBox
    <3>1. r \in y.box /\ ~(r = Rounds[n] /\ (n <= Len(Order) <=> r \notin x.disk))
      BY <3>0 DEF NextBox
    <3>2. r \in left(n - 1)
      BY <2>2, <3>1
    <3>3. PICK k \in (n - 1) + 1 .. Len(Rounds) : r = Rounds[k] /\ (k <= Len(Order) <=> r \notin x.disk)
      BY <3>2
    <3>4. k # n /\ k \in n + 1 .. Len(Rounds)
      BY <1>1, <2>1, <3>1, <3>3
    <3> QED  BY <3>2, <3>3, <3>4
  <2> HIDE DEF left
  <2> QED  BY <2>1, <2>3, <2>4
<1>5. Apply(x, h, W) \in S[Len(Rounds)]
  <2> HIDE DEF S
  <2> QED  BY <1>3, <1>4, ApplyInductTo
<1>6. Apply(x, h, W).box \subseteq left(Len(Rounds))
  <2>1. Len(Rounds) \in 0 .. Len(Rounds)
    BY <1>1
  <2> HIDE DEF left
  <2> QED  BY <1>5, <2>1
<1>7. left(Len(Rounds)) = {}
  BY <1>1
<1> HIDE DEF left
<1> QED  BY <1>6, <1>7

-----------------------------------------------------------------------------
\* Without a delete nothing goes

\* Of the roots of V, every one with a row or a copy the last scan saw is on disk.
Shown(x, V) == (x.row \cup x.seen) \cap V \subseteq x.disk

\* y has what x had, and no delete is pending that the disk of x shows.
Grown(x, y, V) == x.disk \subseteq y.disk /\ x.row \subseteq y.row /\ Shown(y, V) /\ y.box \subseteq x.disk

\* A hub that has the item has it recorded, or is about to.
HubKnown(x, h) == h \in x.disk => h \in x.row \/ h \in x.box

\* When the hub has the item, the roots of W have it or are isolated.
Spread(x, h, W) == h \in x.disk => W \subseteq x.disk \cup x.oos

\* A fan-out of a create or of a modification only adds.
Added(x, h, r, W, old, y, V) ==
  /\ x.disk \subseteq y.disk /\ x.row \subseteq y.row /\ Shown(y, V) /\ y.box = x.box
  /\ x.disk \cup x.oos \subseteq y.disk \cup y.oos
  /\ ~old => W \subseteq y.disk \cup y.oos \cup x.box \cup {h, r}

\* A fan-out of a copy adds copies.
LEMMA FanOutGrows ==
  ASSUME NEW x, Fields(x), NEW h, NEW r, NEW W, NEW V, W \subseteq V, Shown(x, V), NEW old \in BOOLEAN
  PROVE  Added(x, h, r, W, old, FanOut(x, h, r, W, old, TRUE), V)
<1> DEFINE y == FanOut(x, h, r, W, old, TRUE)
           A == Agree(x, h, r, W, old)
           F == Differ(x, h, r, W, old)
           B == Back(x, h, r, W, old, TRUE)
           d == x.disk \cup A
<1>1. y = [disk |-> Put(x.disk, A, TRUE),
           row  |-> (((Put(x.row, A, TRUE) \ F) \cup (F \cap Put(x.disk, A, TRUE))) \ B)
                    \cup (B \cap Put(x.disk, A, TRUE)),
           seen |-> (Put(x.seen, A, TRUE) \ B) \cup (B \cap Put(x.disk, A, TRUE)),
           oos  |-> (x.oos \cup F) \ B, box |-> x.box, gone |-> x.gone]
  <2>1. FanOutFields(x, h, r, W, old, TRUE, y)
    BY FanOutIs
  <2> QED  BY <2>1 DEF FanOutFields
<1>2. B = {q \in x.oos \cup F : q \in d}
  BY DEF Back, Put
<1>3. W \subseteq A \cup F \cup {h, r} \cup x.oos \cup x.box
  BY DEF Agree, Differ
<1>4. ~old => F \subseteq x.disk
  <2> SUFFICES ASSUME ~old, NEW q \in F PROVE q \in x.disk
    OBVIOUS
  <2>1. q \in W \ ({h, r} \cup x.oos \cup x.box) /\ q \notin A
    BY DEF Differ
  <2>2. ~((q \in x.disk) = old)
    BY <2>1 DEF Agree
  <2> QED  BY <2>2
<1>4a. F \subseteq W
  BY DEF Differ
<1> HIDE DEF A, F, B, y
<1>5. /\ y.disk = d /\ y.box = x.box /\ y.oos = (x.oos \cup F) \ B
      /\ y.row = ((((x.row \cup A) \ F) \cup (F \cap d)) \ B) \cup (B \cap d)
      /\ y.seen = ((x.seen \cup A) \ B) \cup (B \cap d)
  BY <1>1 DEF Put
<1>6. x.disk \subseteq y.disk /\ Shown(y, V)
  BY <1>5 DEF Shown
<1>7. x.row \subseteq y.row
  BY <1>2, <1>4a, <1>5 DEF Shown
<1>8. x.disk \cup x.oos \subseteq y.disk \cup y.oos
  BY <1>2, <1>5
<1>9. ~old => W \subseteq y.disk \cup y.oos \cup x.box \cup {h, r}
  BY <1>2, <1>3, <1>4, <1>5
<1> QED  BY <1>5, <1>6, <1>7, <1>8, <1>9 DEF y, Added

\* So does a round, in which nothing is deleted that had a row.
LEMMA RoundGrows ==
  ASSUME NEW D, NEW R, NEW h, NEW x, NEW W, NEW n, NEW y \in Item(D, R, h),
         NEW V, W \cup {h} \subseteq V, Grown(x, y, V)
  PROVE  LET z == Round(x, h, W, n, y)
         IN  /\ Grown(x, z, V)
             /\ HubKnown(y, h) => HubKnown(z, h)
             /\ Spread(y, h, W) => Spread(z, h, W)
             /\ (h \in z.disk \/ z.row = y.row) /\ y.disk \subseteq z.disk
<1> DEFINE r == Rounds[n]
           t == After(y, r)
           z == Round(x, h, W, n, y)
<1>1. t = [disk |-> y.disk, row |-> y.row, seen |-> y.seen, oos |-> y.oos, box |-> y.box \ {r},
           gone |-> y.gone]
  BY DEF After
<1>0. /\ Fields(t) /\ t.disk = y.disk /\ t.row = y.row /\ t.seen = y.seen /\ t.oos = y.oos
      /\ t.box = y.box \ {r}
  BY <1>1 DEF Fields

<1>3. ASSUME r \in y.box, r = h, z = ApplyHub(t, h, W)
      PROVE  /\ Grown(x, z, V) /\ h \in z.row /\ h \in z.disk /\ y.disk \subseteq z.disk
             /\ Spread(y, h, W) => Spread(z, h, W)
  <2> HIDE DEF t, z
  <2>1. HubChange(t, h, W, z)
    BY <1>0, <1>3, ApplyHubIs
  <2>2. PICK w : \E old, new \in BOOLEAN :
          /\ (old <=> h \in t.row) /\ (new <=> h \in t.disk)
          /\ w = [disk |-> t.disk, row |-> Put(t.row, {h}, new), seen |-> Put(t.seen, {h}, new),
                  oos |-> t.oos, box |-> t.box, gone |-> t.gone \/ ~new]
          /\ z = FanOut(w, h, h, W, old, new)
    BY <2>1 DEF HubChange
  <2>2a. PICK old \in BOOLEAN, new \in BOOLEAN :
          /\ (old <=> h \in t.row) /\ (new <=> h \in t.disk)
          /\ w = [disk |-> t.disk, row |-> Put(t.row, {h}, new), seen |-> Put(t.seen, {h}, new),
                  oos |-> t.oos, box |-> t.box, gone |-> t.gone \/ ~new]
          /\ z = FanOut(w, h, h, W, old, new)
    BY <2>2
  <2>3. h \in y.disk
    BY <1>3 DEF Grown
  <2>3a. new
    BY <1>0, <2>2a, <2>3
  <2>4. /\ Fields(w) /\ w.disk = y.disk /\ w.row = y.row \cup {h} /\ w.seen = y.seen \cup {h}
        /\ w.oos = y.oos /\ w.box = y.box \ {r}
    <3>1. Fields(w) /\ w.disk = t.disk /\ w.row = Put(t.row, {h}, new) /\ w.seen = Put(t.seen, {h}, new)
          /\ w.oos = t.oos /\ w.box = t.box
      BY <2>2a DEF Fields
    <3> QED  BY <1>0, <2>3a, <3>1 DEF Put
  <2>5. Shown(w, V)
    BY <2>3, <2>4 DEF Grown, Shown
  <2>6. /\ w.disk \subseteq z.disk /\ w.row \subseteq z.row /\ Shown(z, V) /\ z.box = w.box
        /\ w.disk \cup w.oos \subseteq z.disk \cup z.oos
    <3>1. Added(w, h, h, W, old, FanOut(w, h, h, W, old, new), V)
      <4>1. Added(w, h, h, W, old, FanOut(w, h, h, W, old, TRUE), V)
        <5>1. Fields(w) /\ Shown(w, V) /\ old \in BOOLEAN
          BY <2>4, <2>5, <2>2a
        <5>2. \A b \in BOOLEAN : Added(w, h, h, W, b, FanOut(w, h, h, W, b, TRUE), V)
          BY <5>1, FanOutGrows
        <5> QED  BY <5>1, <5>2
      <4>2. new = TRUE
        BY <2>3a
      <4> QED  BY <4>1, <4>2
    <3>2. Added(w, h, h, W, old, z, V)
      BY <2>2a, <3>1
    <3> QED  BY <3>2 DEF Added
  <2> QED  BY <2>3, <2>4, <2>6 DEF Grown, Spread
<1>4. ASSUME r \in y.box, r # h, z = ApplyCreate(t, h, r, W)
      PROVE  /\ Grown(x, z, V)
             /\ HubKnown(y, h) => HubKnown(z, h)
             /\ Spread(y, h, W) => Spread(z, h, W)
             /\ (h \in z.disk \/ z.row = y.row) /\ y.disk \subseteq z.disk
  <2> HIDE DEF t, z, r
  <2>0. r \in y.disk
    BY <1>4 DEF Grown
  <2>1. CASE r \in t.oos
    <3>1. z = t
      BY <1>4, <2>1 DEF ApplyCreate
    <3> QED  BY <1>0, <1>4, <3>1 DEF Grown, Shown, HubKnown, Spread
  <2>2. CASE r \notin t.oos /\ h \in t.disk
    <3>1. z = MarkOos(t, {r})
      BY <1>4, <2>2 DEF ApplyCreate
    <3>1a. z = [disk |-> t.disk, row |-> (t.row \ {r}) \cup ({r} \cap t.disk), seen |-> t.seen,
                oos  |-> t.oos \cup {r}, box |-> t.box, gone |-> t.gone]
      BY <1>0, <3>1, MarkOosIs
    <3>2. /\ z.disk = t.disk /\ z.row = (t.row \ {r}) \cup ({r} \cap t.disk) /\ z.seen = t.seen
          /\ z.oos = t.oos \cup {r} /\ z.box = t.box
      BY <3>1a
    <3> QED  BY <1>0, <1>4, <2>0, <2>2, <3>2 DEF Grown, Shown, HubKnown, Spread
  <2>3. CASE r \notin t.oos /\ h \notin t.disk
    <3>1. CreateChange(t, h, r, W, z)
      BY <1>0, <1>4, <2>3, ApplyCreateIs
    <3>2. PICK w : \E old, new \in BOOLEAN :
            /\ ~old /\ new
            /\ w = [disk |-> t.disk \cup {h}, row |-> t.row \cup {h, r},
                    seen |-> t.seen \cup {h, r}, oos |-> t.oos, box |-> t.box, gone |-> t.gone]
            /\ z = FanOut(w, h, r, W, old, new)
      BY <3>1 DEF CreateChange
    <3>2a. PICK old \in BOOLEAN, new \in BOOLEAN :
            /\ ~old /\ new
            /\ w = [disk |-> t.disk \cup {h}, row |-> t.row \cup {h, r},
                    seen |-> t.seen \cup {h, r}, oos |-> t.oos, box |-> t.box, gone |-> t.gone]
            /\ z = FanOut(w, h, r, W, old, new)
      BY <3>2
    <3>3. /\ Fields(w) /\ w.disk = y.disk \cup {h} /\ w.row = y.row \cup {h, r}
          /\ w.seen = y.seen \cup {h, r} /\ w.oos = y.oos /\ w.box = y.box \ {r}
      BY <1>0, <3>2 DEF Fields
    <3>4. Shown(w, V)
      BY <2>0, <3>3 DEF Grown, Shown
    <3>5. /\ w.disk \subseteq z.disk /\ w.row \subseteq z.row /\ Shown(z, V) /\ z.box = w.box
          /\ ~old => W \subseteq z.disk \cup z.oos \cup w.box \cup {h, r}
      <4>1. Added(w, h, r, W, old, FanOut(w, h, r, W, old, new), V)
        <5>1. Added(w, h, r, W, old, FanOut(w, h, r, W, old, TRUE), V)
          <6>1. Fields(w) /\ Shown(w, V) /\ old \in BOOLEAN
            BY <3>3, <3>4, <3>2a
          <6>2. \A b \in BOOLEAN : Added(w, h, r, W, b, FanOut(w, h, r, W, b, TRUE), V)
            BY <6>1, FanOutGrows
          <6> QED  BY <6>1, <6>2
        <5>2. new = TRUE
          BY <3>2a
        <5> QED  BY <5>1, <5>2
      <4>2. Added(w, h, r, W, old, z, V)
        BY <3>2a, <4>1
      <4> QED  BY <4>2 DEF Added
    <3>6. W \subseteq z.disk \cup z.oos
      BY <1>0, <1>4, <2>0, <3>2a, <3>3, <3>5 DEF Grown
    <3> QED  BY <3>3, <3>5, <3>6 DEF Grown, HubKnown, Spread
  <2> QED  BY <2>1, <2>2, <2>3
<1>5. \/ z = y
      \/ r \in y.box /\ r = h /\ z = ApplyHub(t, h, W)
      \/ r \in y.box /\ r # h /\ z = ApplyCreate(t, h, r, W)
  <2>1. \/ z = y /\ ~Taken(x, n, y)
        \/ /\ Taken(x, n, y)
           /\ \/ r = h /\ z = ApplyHub(t, h, W)
              \/ r # h /\ r \notin x.disk /\ z = ApplyDelete(t, h, r, W)
              \/ r # h /\ r \in x.disk /\ z = ApplyCreate(t, h, r, W)
    BY RoundCases
  <2>2. Taken(x, n, y) => r \in y.box
    BY DEF Taken
  <2>3. y.box \subseteq x.disk
    BY DEF Grown
  <2> HIDE DEF z, t, r
  <2> QED  BY <2>1, <2>2, <2>3
<1> HIDE DEF z, t, r
<1>6. /\ Grown(x, z, V)
      /\ HubKnown(y, h) => HubKnown(z, h)
      /\ Spread(y, h, W) => Spread(z, h, W)
      /\ (h \in z.disk \/ z.row = y.row) /\ y.disk \subseteq z.disk
  <2>1. CASE z = y
    BY <2>1
  <2>2. CASE r \in y.box /\ r = h /\ z = ApplyHub(t, h, W)
    BY <1>3, <2>2 DEF HubKnown
  <2>3. CASE r \in y.box /\ r # h /\ z = ApplyCreate(t, h, r, W)
    BY <1>4, <2>3
  <2> QED  BY <1>5, <2>1, <2>2, <2>3
<1> QED  BY <1>6 DEF z


\* z has what x had, and the hub of z is as the rows say.
OnlyAdds(x, h, W, z, V) ==
  /\ Grown(x, z, V)
  /\ HubKnown(x, h) => HubKnown(z, h)
  /\ Spread(x, h, W) => Spread(z, h, W)
  /\ h \in z.disk \/ z.row = x.row

\* An apply of what the disk shows, without a delete, only adds.
LEMMA ApplyGrows ==
  ASSUME NEW Q, Order \in Seq(Q), NEW D, NEW R \in SUBSET D, NEW h \in R, NEW x \in Item(D, R, h),
         NEW W \in SUBSET R, NEW V, W \cup {h} \subseteq V, Shown(x, V), x.box \subseteq x.disk
  PROVE  OnlyAdds(x, h, W, Apply(x, h, W), V)
<1> DEFINE S == {y \in Item(D, R, h) : OnlyAdds(x, h, W, y, V)}
<1>1. x \in S
  BY DEF Grown, OnlyAdds
<1>2. ASSUME NEW n \in 1 .. Len(Rounds), NEW y \in S
      PROVE  Round(x, h, W, n, y) \in S
  <2>0. Grown(x, y, V) /\ OnlyAdds(x, h, W, y, V)
    BY DEF OnlyAdds
  <2> DEFINE z == Round(x, h, W, n, y)
  <2>1. z \in Item(D, R, h)
    BY RoundType
  <2>2. /\ Grown(x, z, V)
        /\ HubKnown(y, h) => HubKnown(z, h)
        /\ Spread(y, h, W) => Spread(z, h, W)
        /\ (h \in z.disk \/ z.row = y.row) /\ y.disk \subseteq z.disk
    BY <2>0, RoundGrows
  <2> HIDE DEF z
  <2>3. OnlyAdds(x, h, W, z, V)
    BY <2>0, <2>2 DEF OnlyAdds
  <2>4. z \in S
    BY <2>1, <2>3
  <2> QED  BY <2>4 DEF z
<1>3. Apply(x, h, W) \in S
  BY <1>1, <1>2, ApplyInduct
<1> QED  BY <1>3

TickAdds(x, h, W, z, V) ==
  /\ x.disk \subseteq z.disk /\ x.row \subseteq z.row /\ Shown(z, V)
  /\ (h \in W /\ (h \in x.seen => h \in x.row)) => (h \in z.disk => h \in z.row)
  /\ Spread(x, h, W) => Spread(z, h, W)
  /\ h \in z.disk \/ z.row = x.row

\* So does a tick, which has every copy of the hub recorded.
LEMMA TickGrows ==
  ASSUME NEW Q, Order \in Seq(Q), NEW D, NEW R \in SUBSET D, NEW h \in R, NEW x \in Item(D, R, h),
         NEW W \in SUBSET R, NEW V, W \cup {h} \subseteq V, Shown(x, V), W \subseteq {Order[n] : n \in 1 .. Len(Order)}
  PROVE  TickAdds(x, h, W, Tick(x, h, W), V)
<1> DEFINE changed == {r \in W : (r \in x.disk) # (r \in x.seen)}
           rejoins == {r \in changed \cap x.oos : (r \in x.disk) = (h \in x.disk)}
           queued  == {r \in changed \ rejoins : r \in x.oos => r \notin x.disk}
           y == Observe(x, h, W)
           z == Apply(y, h, W)
<1>1. y = [disk |-> x.disk, row |-> (x.row \ rejoins) \cup (rejoins \cap x.disk),
           seen |-> (((x.seen \ rejoins) \cup (rejoins \cap x.disk)) \ W) \cup (x.disk \cap W),
           oos |-> x.oos \ rejoins, box |-> queued, gone |-> FALSE]
  BY ItemFields, ObserveIs
<1>2. changed \subseteq x.disk
  BY DEF Shown
<1>3. \A r \in rejoins : r \in x.disk /\ h \in x.disk
  BY <1>2
<1>4. queued \subseteq changed /\ queued \subseteq W
  OBVIOUS
<1>5. h \in W /\ h \in x.disk /\ h \notin x.seen => h \in queued
  BY DEF Item
<1> HIDE DEF changed, rejoins, queued, y
<1>6. y \in Item(D, R, h)
  BY ObserveType DEF y
<1>7. Shown(y, V) /\ y.box \subseteq y.disk /\ y.disk = x.disk /\ x.row \subseteq y.row /\ y.box = queued
  BY <1>1, <1>2, <1>3, <1>4 DEF Shown
<1>8. h \in y.disk \/ y.row = x.row
  BY <1>1, <1>3
<1>9. (h \in W /\ (h \in x.seen => h \in x.row)) => HubKnown(y, h)
  BY <1>1, <1>5, <1>7 DEF HubKnown
<1>10. Spread(x, h, W) => Spread(y, h, W)
  BY <1>1, <1>3 DEF Spread
<1>11. /\ Grown(y, z, V)
       /\ HubKnown(y, h) => HubKnown(z, h)
       /\ Spread(y, h, W) => Spread(z, h, W)
       /\ h \in z.disk \/ z.row = y.row
  <2>1. OnlyAdds(y, h, W, z, V)
    BY <1>6, <1>7, ApplyGrows
  <2> QED  BY <2>1 DEF OnlyAdds
<1>12. z.box = {}
  BY <1>4, <1>6, <1>7, ApplyEmptiesBox
<1>13. Tick(x, h, W) = z
  BY DEF Tick, y
<1> HIDE DEF z
<1>14. TickAdds(x, h, W, z, V)
  BY <1>7, <1>8, <1>9, <1>10, <1>11, <1>12 DEF Grown, HubKnown, TickAdds
<1> QED  BY <1>13, <1>14

\* What a tick or a catch-up makes of an item that shows no delete: copies and rows
\* are added, every row and every copy seen is on disk, and so is no row without the
\* hub's.
NothingLost(x, h, z) ==
  /\ x.disk \subseteq z.disk /\ x.row \subseteq z.row /\ z.row \cup z.seen \subseteq z.disk
  /\ h \in z.disk => h \in z.row
  /\ h \in z.disk \/ z.row = x.row

\* The rows a catch-up seeds are of copies.
LEMMA SeedGrows ==
  ASSUME NEW D, NEW R \in SUBSET D, NEW h \in R, NEW x \in Item(D, R, h), NEW T \in SUBSET R,
         NEW V, T \subseteq V, Shown(x, V), h \in x.seen => h \in x.row
  PROVE  LET z == Seed(x, h, T)
         IN  /\ x.disk \subseteq z.disk /\ x.row \subseteq z.row /\ Shown(z, V)
             /\ h \in z.seen => h \in z.row
             /\ h \in z.disk \/ z.row = x.row
             /\ Spread(z, h, T \cup {h})
             /\ h \in x.disk => T \subseteq z.disk
<1> DEFINE new == {t \in T : t \notin x.row}
           z == Seed(x, h, T)
<1>1. CASE h \notin x.disk
  <2>1. z = x
    BY <1>1 DEF Seed
  <2> QED  BY <1>1, <2>1 DEF Spread
<1>2. CASE new = {}
  <2>1. z = x
    BY <1>2 DEF Seed
  <2>2. T \subseteq x.disk
    BY <1>2 DEF Shown
  <2> QED  BY <2>1, <2>2 DEF Spread
<1>3. CASE h \in x.disk /\ new # {}
  <2> DEFINE y == [x EXCEPT !.disk = @ \cup new]
  <2>1. z = Record(y, new \cup {h}, TRUE)
    BY <1>3 DEF Seed
  <2>2. y = [disk |-> x.disk \cup new, row |-> x.row, seen |-> x.seen, oos |-> x.oos,
             box |-> x.box, gone |-> x.gone]
    BY ItemFields DEF Fields
  <2> HIDE DEF y, z
  <2>3. Fields(y)
    BY <2>2 DEF Fields
  <2>4. z = [disk |-> y.disk, row |-> Put(y.row, new \cup {h}, TRUE),
             seen |-> Put(y.seen, new \cup {h}, TRUE), oos |-> y.oos, box |-> y.box, gone |-> y.gone]
    BY <2>1, <2>3, RecordIs
  <2>5. /\ z.disk = x.disk \cup new /\ z.row = x.row \cup new \cup {h}
        /\ z.seen = x.seen \cup new \cup {h}
    BY <2>2, <2>4 DEF Put
  <2>6. T \subseteq x.row \cup new
    OBVIOUS
  <2> HIDE DEF new
  <2>7. /\ x.disk \subseteq z.disk /\ x.row \subseteq z.row /\ Shown(z, V)
        /\ h \in z.seen => h \in z.row
        /\ h \in z.disk \/ z.row = x.row
        /\ Spread(z, h, T \cup {h})
        /\ T \subseteq z.disk
    BY <1>3, <2>5, <2>6 DEF Shown, Spread
  <2> QED  BY <2>7 DEF z
<1> QED  BY <1>1, <1>2, <1>3

\* A catch-up of an item that shows no delete loses no copy and no row, and has the copy
\* of the hub recorded, so that the next tick takes none of it for new.  Every target
\* ends with a copy when the hub has one.
THEOREM CatchUpGrows ==
  ASSUME NEW Q, Order \in Seq(Q), NEW D, NEW R \in SUBSET D, NEW h \in R, NEW x \in Item(D, R, h),
         NEW T \in SUBSET R, Shown(x, R), T \cup {h} \subseteq {Order[n] : n \in 1 .. Len(Order)},
         h \in x.seen => h \in x.row
  PROVE  /\ NothingLost(x, h, CatchUpUpdate(x, h, T, {}))
         /\ h \in x.disk => T \subseteq CatchUpUpdate(x, h, T, {}).disk
<1> DEFINE seeded == Seed(x, h, T)
           ticked == Tick(seeded, h, T \cup {h})
           put    == [ticked EXCEPT !.disk = Put(@, {}, h \in ticked.disk)]
           fresh  == InstallFresh(ticked, h, {}, h \in seeded.row)
           frozen == {t \in T :
                       /\ (t \in fresh.disk) # (h \in fresh.disk)
                       /\ ~(t \in fresh.oos /\ (h \in fresh.disk \/ fresh.gone))
                       /\ (h \in fresh.disk) = (h \in fresh.row)
                       /\ (t \in fresh.disk) = (t \in fresh.row)}
           y1 == [fresh EXCEPT !.oos = @ \ frozen]
           y  == [y1 EXCEPT !.box = frozen]
           z  == Apply(y, h, T \cup {h})
<1>1. T \ {} = T /\ T \cap {} = {}
  OBVIOUS
<1>2. CatchUpUpdate(x, h, T, {}) = Unfreeze(fresh, h, T)
  BY <1>1 DEF CatchUpUpdate
<1>3. Unfreeze(fresh, h, T) = z
  BY DEF Unfreeze
<1>4. fresh = IF h \in ticked.disk \/ h \in seeded.row THEN RecordDisk(put, {}) ELSE put
  BY DEF InstallFresh
<1>5. seeded \in Item(D, R, h)
  BY SeedType
<1>6. /\ x.disk \subseteq seeded.disk /\ x.row \subseteq seeded.row /\ Shown(seeded, R)
      /\ h \in seeded.seen => h \in seeded.row
      /\ h \in seeded.disk \/ seeded.row = x.row
      /\ Spread(seeded, h, T \cup {h})
      /\ h \in x.disk => T \subseteq seeded.disk
  BY SeedGrows
<1> HIDE DEF seeded
<1>7. T \cup {h} \in SUBSET R
  OBVIOUS
<1>8. ticked \in Item(D, R, h)
  BY <1>5, <1>7, TickType
<1> HIDE DEF ticked
<1>9. /\ seeded.disk \subseteq ticked.disk /\ seeded.row \subseteq ticked.row /\ Shown(ticked, R)
      /\ h \in ticked.disk => h \in ticked.row
      /\ Spread(ticked, h, T \cup {h})
      /\ h \in ticked.disk \/ ticked.row = seeded.row
  <2>1. TickAdds(seeded, h, T \cup {h}, ticked, R)
    BY <1>5, <1>6, <1>7, TickGrows DEF ticked
  <2> QED  BY <1>6, <2>1 DEF TickAdds
<1>10. fresh = ticked
  <2>1. Fields(ticked)
    BY <1>8, ItemFields
  <2>2. put = [disk |-> ticked.disk, row |-> ticked.row, seen |-> ticked.seen, oos |-> ticked.oos,
               box |-> ticked.box, gone |-> ticked.gone]
    BY <2>1 DEF Fields, Put
  <2>3. put = ticked
    BY <2>1, <2>2 DEF Fields
  <2> HIDE DEF put
  <2>4. RecordDisk(ticked, {}) =
          [disk |-> ticked.disk, row |-> (ticked.row \ {}) \cup ({} \cap ticked.disk),
           seen |-> (ticked.seen \ {}) \cup ({} \cap ticked.disk), oos |-> ticked.oos,
           box |-> ticked.box, gone |-> ticked.gone]
    BY <2>1, RecordDiskIs
  <2>5. RecordDisk(ticked, {}) = ticked
    BY <2>1, <2>4 DEF Fields
  <2> QED  BY <1>4, <2>3, <2>5
<1> HIDE DEF fresh
<1>11. frozen \subseteq fresh.disk
  <2> SUFFICES ASSUME NEW t \in frozen, t \notin fresh.disk PROVE FALSE
    OBVIOUS
  <2>1. t \in T /\ h \in fresh.disk /\ t \notin fresh.oos
    OBVIOUS
  <2> QED  BY <1>9, <1>10, <2>1 DEF Spread
<1>12. frozen \in SUBSET R /\ frozen \subseteq T
  OBVIOUS
<1> HIDE DEF frozen
<1>13. y = [disk |-> ticked.disk, row |-> ticked.row, seen |-> ticked.seen,
            oos |-> ticked.oos \ frozen, box |-> frozen, gone |-> ticked.gone]
  <2>1. Fields(fresh)
    BY <1>8, <1>10, ItemFields
  <2>2. y1 = [disk |-> fresh.disk, row |-> fresh.row, seen |-> fresh.seen,
              oos |-> fresh.oos \ frozen, box |-> fresh.box, gone |-> fresh.gone]
    BY <2>1, PutOos
  <2> HIDE DEF y1
  <2>3. Fields(y1)
    BY <2>2 DEF Fields
  <2>4. y = [disk |-> y1.disk, row |-> y1.row, seen |-> y1.seen, oos |-> y1.oos, box |-> frozen,
             gone |-> y1.gone]
    BY <2>3, PutBox
  <2> QED  BY <1>10, <2>2, <2>4
<1> HIDE DEF y
<1>14. y \in Item(D, R, h)
  BY <1>8, <1>12, <1>13 DEF Item
<1>15. Shown(y, R) /\ y.box \subseteq y.disk /\ HubKnown(y, h)
  BY <1>9, <1>10, <1>11, <1>13 DEF Shown, HubKnown
<1>16. OnlyAdds(y, h, T \cup {h}, z, R)
  BY <1>7, <1>14, <1>15, ApplyGrows
<1>17. z.box = {}
  <2>1. y.box \subseteq {Order[n] : n \in 1 .. Len(Order)}
    BY <1>12, <1>13
  <2> QED  BY <1>7, <1>14, <2>1, ApplyEmptiesBox
<1>17a. z \in Item(D, R, h)
  BY <1>7, <1>14, ApplyType
<1> HIDE DEF z
<1>18. /\ y.disk \subseteq z.disk /\ y.row \subseteq z.row /\ Shown(z, R)
       /\ h \in z.disk => h \in z.row
       /\ h \in z.disk \/ z.row = y.row
  BY <1>15, <1>16, <1>17 DEF OnlyAdds, Grown, HubKnown
<1>19. y.disk = ticked.disk /\ y.row = ticked.row
  BY <1>13
<1>20. NothingLost(x, h, z) /\ (h \in x.disk => T \subseteq z.disk)
  <2>1. z.row \cup z.seen \subseteq z.disk
    BY <1>17a, <1>18 DEF Shown, Item
  <2> QED  BY <1>6, <1>9, <1>18, <1>19, <2>1 DEF NothingLost
<1> QED  BY <1>2, <1>3, <1>20
-----------------------------------------------------------------------------
\* What is seen of watched roots is on disk, and what is remembered of others has rows

Within(x, W) == x.seen \cap W \subseteq x.disk /\ (x.seen \cup x.oos) \ W \subseteq x.row

\* y is within, with the mailbox of x, of which no copy went.
StaysWithin(x, W, y) ==
  Within(y, W) /\ y.box = x.box /\ x.box \cap x.disk \subseteq y.disk

\* A fan-out leaves what was seen on disk, and the rest in rows.
LEMMA FanOutWithin ==
  ASSUME NEW x, Fields(x), NEW h, NEW r, NEW W, NEW old \in BOOLEAN, NEW new \in BOOLEAN, Within(x, W)
  PROVE  StaysWithin(x, W, FanOut(x, h, r, W, old, new))
<1> DEFINE y == FanOut(x, h, r, W, old, new)
           A == Agree(x, h, r, W, old)
           F == Differ(x, h, r, W, old)
           B == Back(x, h, r, W, old, new)
           d == Put(x.disk, A, new)
           row == Put(x.row, A, new)
           seen == Put(x.seen, A, new)
<1>1. y = [disk |-> d, row  |-> ((((row \ F) \cup (F \cap d)) \ B) \cup (B \cap d)),
           seen |-> (seen \ B) \cup (B \cap d),
           oos  |-> (x.oos \cup F) \ B, box |-> x.box, gone |-> x.gone]
  <2>1. FanOutFields(x, h, r, W, old, new, y)
    BY FanOutIs
  <2> QED  BY <2>1 DEF FanOutFields
<1>2. A \subseteq W /\ A \cap x.box = {} /\ F \subseteq W
  BY DEF Agree, Differ
<1> HIDE DEF A, F, B, y
<1>3. d \subseteq x.disk \cup A /\ x.disk \subseteq d \cup A /\ (d \cap A = {} => seen \cap A = {})
  BY DEF Put
<1>3a. seen \subseteq x.seen \cup A /\ (A \subseteq d \/ seen \cap A = {})
       /\ x.row \subseteq row \cup A
  BY DEF Put
<1> HIDE DEF d, row, seen
<1>4. /\ y.disk = d /\ y.row = ((((row \ F) \cup (F \cap d)) \ B) \cup (B \cap d))
      /\ y.seen = (seen \ B) \cup (B \cap d) /\ y.oos = (x.oos \cup F) \ B /\ y.box = x.box
  BY <1>1
<1>5. seen \cap W \subseteq d
  BY <1>3, <1>3a DEF Within
<1>6. y.seen \cap W \subseteq y.disk
  BY <1>4, <1>5
<1>7. (y.seen \cup y.oos) \ W \subseteq y.row
  BY <1>2, <1>3a, <1>4 DEF Within
<1>8. x.box \cap x.disk \subseteq y.disk
  BY <1>2, <1>3, <1>4
<1>9. StaysWithin(x, W, y)
  BY <1>4, <1>6, <1>7, <1>8 DEF StaysWithin, Within
<1> QED  BY <1>9 DEF y

\* What an apply keeps: the changes it has yet to take are of watched roots, and
\* copies that were there when it began are still there.
Orderly(x, h, W, y) ==
  Within(y, W) /\ y.box \subseteq W /\ (y.box \ {h}) \cap x.disk \subseteq y.disk

\* So does a round.
LEMMA RoundWithin ==
  ASSUME NEW D, NEW R, NEW h, NEW x, NEW W, NEW n, NEW y \in Item(D, R, h), Orderly(x, h, W, y)
  PROVE  Orderly(x, h, W, Round(x, h, W, n, y))
<1> DEFINE r == Rounds[n]
           t == After(y, r)
           z == Round(x, h, W, n, y)
<1>1. t = [disk |-> y.disk, row |-> y.row, seen |-> y.seen, oos |-> y.oos, box |-> y.box \ {r},
           gone |-> y.gone]
  BY DEF After
<1>2. /\ Fields(t) /\ t.disk = y.disk /\ t.row = y.row /\ t.seen = y.seen /\ t.oos = y.oos
      /\ t.box = y.box \ {r}
  BY <1>1 DEF Fields
<1>3. \/ z = y
      \/ r \in y.box /\ r = h /\ z = ApplyHub(t, h, W)
      \/ r \in y.box /\ r # h /\ z = ApplyDelete(t, h, r, W)
      \/ r \in y.box /\ r # h /\ r \in x.disk /\ z = ApplyCreate(t, h, r, W)
  <2>1. \/ z = y /\ ~Taken(x, n, y)
        \/ /\ Taken(x, n, y)
           /\ \/ r = h /\ z = ApplyHub(t, h, W)
              \/ r # h /\ r \notin x.disk /\ z = ApplyDelete(t, h, r, W)
              \/ r # h /\ r \in x.disk /\ z = ApplyCreate(t, h, r, W)
    BY RoundCases
  <2>2. Taken(x, n, y) => r \in y.box
    BY DEF Taken
  <2> HIDE DEF z, t, r
  <2> QED  BY <2>1, <2>2
<1>4. h \notin y.oos
  BY DEF Item
<1> HIDE DEF t, z, r
<1> SUFFICES Orderly(x, h, W, z)
  BY DEF z
<1>5. ASSUME NEW w, Fields(w), Within(w, W), w.box = y.box \ {r}, y.disk \ {h} \subseteq w.disk,
             NEW q
      PROVE  \A a, b \in BOOLEAN : Orderly(x, h, W, FanOut(w, h, q, W, a, b))
  <2>1. \A a, b \in BOOLEAN : StaysWithin(w, W, FanOut(w, h, q, W, a, b))
    BY <1>5, FanOutWithin
  <2>2. \A v : StaysWithin(w, W, v) => Orderly(x, h, W, v)
    BY <1>5 DEF StaysWithin, Orderly
  <2> QED  BY <2>1, <2>2
<1>6. CASE r \in y.box /\ r = h /\ z = ApplyHub(t, h, W)
  <2>1. HubChange(t, h, W, z)
    BY <1>2, <1>6, ApplyHubIs
  <2>2a. PICK w : \E old, new \in BOOLEAN :
          /\ (old <=> h \in t.row) /\ (new <=> h \in t.disk)
          /\ w = [disk |-> t.disk, row |-> Put(t.row, {h}, new), seen |-> Put(t.seen, {h}, new),
                  oos |-> t.oos, box |-> t.box, gone |-> t.gone \/ ~new]
          /\ z = FanOut(w, h, h, W, old, new)
    BY <2>1 DEF HubChange
  <2>2. PICK old \in BOOLEAN, new \in BOOLEAN :
          /\ (old <=> h \in t.row) /\ (new <=> h \in t.disk)
          /\ w = [disk |-> t.disk, row |-> Put(t.row, {h}, new), seen |-> Put(t.seen, {h}, new),
                  oos |-> t.oos, box |-> t.box, gone |-> t.gone \/ ~new]
          /\ z = FanOut(w, h, h, W, old, new)
    BY <2>2a
  <2>3. Fields(w) /\ w.disk = t.disk /\ w.row = Put(t.row, {h}, new) /\ w.seen = Put(t.seen, {h}, new)
        /\ w.oos = t.oos /\ w.box = t.box
    BY <2>2 DEF Fields
  <2>4. Within(w, W)
    <3>1. CASE new
      BY <1>2, <2>2, <2>3, <3>1 DEF Put, Orderly, Within
    <3>2. CASE ~new
      BY <1>2, <1>4, <2>3, <3>2 DEF Put, Orderly, Within
    <3> QED  BY <3>1, <3>2
  <2>5. \A a, b \in BOOLEAN : Orderly(x, h, W, FanOut(w, h, h, W, a, b))
    BY <1>2, <1>5, <2>3, <2>4
  <2>6. Orderly(x, h, W, FanOut(w, h, h, W, old, new))
    BY <2>5
  <2> QED  BY <2>2, <2>6
<1>7. CASE r \in y.box /\ r # h /\ z = ApplyDelete(t, h, r, W)
  <2>1. DeleteChange(t, h, r, W, z)
    BY <1>2, <1>7, ApplyDeleteIs
  <2>2a. PICK w : \E old, new \in BOOLEAN :
          /\ (old <=> h \in t.disk) /\ ~new
          /\ w = [disk |-> t.disk \ {h}, row |-> t.row \ {h, r}, seen |-> t.seen \ {h, r},
                  oos |-> t.oos \ {r}, box |-> t.box, gone |-> TRUE]
          /\ z = FanOut(w, h, r, W, old, new)
    BY <2>1 DEF DeleteChange
  <2>2. PICK old \in BOOLEAN, new \in BOOLEAN :
          /\ (old <=> h \in t.disk) /\ ~new
          /\ w = [disk |-> t.disk \ {h}, row |-> t.row \ {h, r}, seen |-> t.seen \ {h, r},
                  oos |-> t.oos \ {r}, box |-> t.box, gone |-> TRUE]
          /\ z = FanOut(w, h, r, W, old, new)
    BY <2>2a
  <2>3. Fields(w) /\ w.disk = t.disk \ {h} /\ w.row = t.row \ {h, r} /\ w.seen = t.seen \ {h, r}
        /\ w.oos = t.oos \ {r} /\ w.box = t.box
    BY <2>2 DEF Fields
  <2>4. Within(w, W)
    BY <1>2, <1>4, <2>3 DEF Orderly, Within
  <2>5. \A a, b \in BOOLEAN : Orderly(x, h, W, FanOut(w, h, r, W, a, b))
    BY <1>2, <1>5, <2>3, <2>4
  <2>6. Orderly(x, h, W, FanOut(w, h, r, W, old, new))
    BY <2>5
  <2> QED  BY <2>2, <2>6
<1>8. CASE r \in y.box /\ r # h /\ r \in x.disk /\ z = ApplyCreate(t, h, r, W)
  <2>0. r \in W /\ r \in y.disk
    BY <1>8 DEF Orderly
  <2>1. CASE r \in t.oos
    <3>1. z = t
      BY <1>8, <2>1 DEF ApplyCreate
    <3> QED  BY <1>2, <3>1 DEF Orderly, Within
  <2>2. CASE r \notin t.oos /\ h \in t.disk
    <3>1. z = MarkOos(t, {r})
      BY <1>8, <2>2 DEF ApplyCreate
    <3>2. z = [disk |-> t.disk, row |-> (t.row \ {r}) \cup ({r} \cap t.disk), seen |-> t.seen,
               oos  |-> t.oos \cup {r}, box |-> t.box, gone |-> t.gone]
      BY <1>2, <3>1, MarkOosIs
    <3>3. /\ z.disk = t.disk /\ z.row = (t.row \ {r}) \cup ({r} \cap t.disk) /\ z.seen = t.seen
          /\ z.oos = t.oos \cup {r} /\ z.box = t.box
      BY <3>2
    <3> QED  BY <1>2, <2>0, <3>3 DEF Orderly, Within
  <2>3. CASE r \notin t.oos /\ h \notin t.disk
    <3>1. CreateChange(t, h, r, W, z)
      BY <1>2, <1>8, <2>3, ApplyCreateIs
    <3>2a. PICK w : \E old, new \in BOOLEAN :
            /\ ~old /\ new
            /\ w = [disk |-> t.disk \cup {h}, row |-> t.row \cup {h, r},
                    seen |-> t.seen \cup {h, r}, oos |-> t.oos, box |-> t.box, gone |-> t.gone]
            /\ z = FanOut(w, h, r, W, old, new)
      BY <3>1 DEF CreateChange
    <3>2. PICK old \in BOOLEAN, new \in BOOLEAN :
            /\ ~old /\ new
            /\ w = [disk |-> t.disk \cup {h}, row |-> t.row \cup {h, r},
                    seen |-> t.seen \cup {h, r}, oos |-> t.oos, box |-> t.box, gone |-> t.gone]
            /\ z = FanOut(w, h, r, W, old, new)
      BY <3>2a
    <3>3. /\ Fields(w) /\ w.disk = t.disk \cup {h} /\ w.row = t.row \cup {h, r}
          /\ w.seen = t.seen \cup {h, r} /\ w.oos = t.oos /\ w.box = t.box
      BY <3>2 DEF Fields
    <3>4. Within(w, W)
      BY <1>2, <2>0, <3>3 DEF Orderly, Within
    <3>5. \A a, b \in BOOLEAN : Orderly(x, h, W, FanOut(w, h, r, W, a, b))
      BY <1>2, <1>5, <3>3, <3>4
    <3>6. Orderly(x, h, W, FanOut(w, h, r, W, old, new))
      BY <3>5
    <3> QED  BY <3>2, <3>6
  <2> QED  BY <2>1, <2>2, <2>3
<1> QED  BY <1>3, <1>6, <1>7, <1>8

\* After a tick, what it watched and saw is on disk, and what it did not watch has a row.
LEMMA TickWithin ==
  ASSUME NEW Q, Order \in Seq(Q), NEW D, NEW R \in SUBSET D, NEW h \in R, NEW x \in Item(D, R, h),
         NEW W \in SUBSET R, (x.seen \cup x.oos) \ W \subseteq x.row
  PROVE  Within(Tick(x, h, W), W)
<1> DEFINE changed == {r \in W : (r \in x.disk) # (r \in x.seen)}
           rejoins == {r \in changed \cap x.oos : (r \in x.disk) = (h \in x.disk)}
           queued  == {r \in changed \ rejoins : r \in x.oos => r \notin x.disk}
           y == Observe(x, h, W)
           S == {z \in Item(D, R, h) : Orderly(y, h, W, z)}
<1>1. y = [disk |-> x.disk, row |-> (x.row \ rejoins) \cup (rejoins \cap x.disk),
           seen |-> (((x.seen \ rejoins) \cup (rejoins \cap x.disk)) \ W) \cup (x.disk \cap W),
           oos |-> x.oos \ rejoins, box |-> queued, gone |-> FALSE]
  BY ItemFields, ObserveIs
<1>2. rejoins \subseteq W /\ queued \subseteq W
  OBVIOUS
<1>3. y \in Item(D, R, h)
  BY ObserveType
<1> HIDE DEF rejoins, queued, y
<1>4. Orderly(y, h, W, y)
  BY <1>1, <1>2 DEF Orderly, Within
<1>5. ASSUME NEW n \in 1 .. Len(Rounds), NEW z \in S
      PROVE  Round(y, h, W, n, z) \in S
  <2>1. Round(y, h, W, n, z) \in Item(D, R, h)
    BY RoundType
  <2>2. Orderly(y, h, W, Round(y, h, W, n, z))
    BY RoundWithin
  <2> QED  BY <2>1, <2>2
<1>6. y \in S
  BY <1>3, <1>4
<1>7. Apply(y, h, W) \in S
  BY <1>5, <1>6, ApplyInduct
<1>8. Within(Apply(y, h, W), W)
  BY <1>7 DEF Orderly
<1> QED  BY <1>8 DEF Tick, y

\* No copy and no row changed, and nothing that was seen.
Untouched(x, y) == y.disk = x.disk /\ y.row = x.row /\ y.seen = x.seen

\* A tick that watches nothing changes no row.
LEMMA TickOfNone ==
  ASSUME NEW Q, Order \in Seq(Q), NEW D, NEW R \in SUBSET D, NEW h \in R, NEW x \in Item(D, R, h)
  PROVE  Untouched(x, Tick(x, h, {}))
<1> DEFINE y == Observe(x, h, {})
           S == {y}
<1>1. y = [disk |-> x.disk, row |-> x.row, seen |-> x.seen, oos |-> x.oos, box |-> {}, gone |-> FALSE]
  <2> DEFINE changed == {r \in {} : (r \in x.disk) # (r \in x.seen)}
             rejoins == {r \in changed \cap x.oos : (r \in x.disk) = (h \in x.disk)}
             queued  == {r \in changed \ rejoins : r \in x.oos => r \notin x.disk}
  <2>1. rejoins = {} /\ queued = {}
    OBVIOUS
  <2>2. y = [disk |-> x.disk, row |-> (x.row \ rejoins) \cup (rejoins \cap x.disk),
             seen |-> (((x.seen \ rejoins) \cup (rejoins \cap x.disk)) \ {}) \cup (x.disk \cap {}),
             oos |-> x.oos \ rejoins, box |-> queued, gone |-> FALSE]
    BY ItemFields, ObserveIs
  <2> HIDE DEF y, rejoins, queued
  <2> QED  BY <2>1, <2>2
<1> HIDE DEF y
<1>2. ASSUME NEW n \in 1 .. Len(Rounds), NEW z \in S
      PROVE  Round(y, h, {}, n, z) \in S
  <2>1. z.box = {}
    BY <1>1
  <2> QED  BY <2>1 DEF Round
<1>3. Apply(y, h, {}) \in S
  BY <1>2, ApplyInduct
<1>4. Tick(x, h, {}) = y
  BY <1>3 DEF Tick, y
<1> QED  BY <1>1, <1>4 DEF Untouched
-----------------------------------------------------------------------------
\* Items whose hub copy stands

\* The targets that are seeded get a copy, and no copy goes.
LEMMA SeedSpares ==
  ASSUME NEW D, NEW R \in SUBSET D, NEW h \in R, NEW x \in Item(D, R, h), NEW T \in SUBSET R,
         NEW V, T \subseteq V, Shown(x, V), h \in x.disk
  PROVE  LET z == Seed(x, h, T) IN x.disk \cup T \subseteq z.disk /\ Shown(z, V)
<1> DEFINE new == {t \in T : t \notin x.row}
           z == Seed(x, h, T)
<1>1. CASE new = {}
  <2>1. z = x
    BY <1>1 DEF Seed
  <2>2. T \subseteq x.disk
    BY <1>1 DEF Shown
  <2> QED  BY <2>1, <2>2
<1>2. CASE new # {}
  <2> DEFINE y == [x EXCEPT !.disk = @ \cup new]
  <2>1. z = Record(y, new \cup {h}, TRUE)
    BY <1>2 DEF Seed
  <2>2. y = [disk |-> x.disk \cup new, row |-> x.row, seen |-> x.seen, oos |-> x.oos,
             box |-> x.box, gone |-> x.gone]
    BY ItemFields DEF Fields
  <2> HIDE DEF y, z
  <2>3. Fields(y)
    BY <2>2 DEF Fields
  <2>4. z = [disk |-> y.disk, row |-> Put(y.row, new \cup {h}, TRUE),
             seen |-> Put(y.seen, new \cup {h}, TRUE), oos |-> y.oos, box |-> y.box, gone |-> y.gone]
    BY <2>1, <2>3, RecordIs
  <2>5. /\ z.disk = x.disk \cup new /\ z.row = x.row \cup new \cup {h}
        /\ z.seen = x.seen \cup new \cup {h}
    BY <2>2, <2>4 DEF Put
  <2>6. T \subseteq x.row \cup new
    OBVIOUS
  <2> HIDE DEF new
  <2>7. x.disk \cup T \subseteq z.disk /\ Shown(z, V)
    BY <2>5, <2>6 DEF Shown
  <2> QED  BY <2>7 DEF z
<1> QED  BY <1>1, <1>2

\* A new target gets a copy of the hub's, and no copy goes.
LEMMA InstallSpares ==
  ASSUME NEW D, NEW R \in SUBSET D, NEW h \in R, NEW x \in Item(D, R, h), NEW T \in SUBSET R,
         NEW V, Shown(x, V), h \in x.disk, NEW recorded
  PROVE  LET z == InstallFresh(x, h, T, recorded) IN x.disk \cup T \subseteq z.disk /\ Shown(z, V)
<1> DEFINE y == [x EXCEPT !.disk = Put(@, T, h \in x.disk)]
           z == InstallFresh(x, h, T, recorded)
<1>1. z = RecordDisk(y, T)
  BY DEF InstallFresh
<1>2. y = [disk |-> x.disk \cup T, row |-> x.row, seen |-> x.seen, oos |-> x.oos,
           box |-> x.box, gone |-> x.gone]
  BY ItemFields DEF Fields, Put
<1> HIDE DEF y, z
<1>3. Fields(y)
  BY <1>2 DEF Fields
<1>4. z = [disk |-> y.disk, row  |-> (y.row \ T) \cup (T \cap y.disk),
                            seen |-> (y.seen \ T) \cup (T \cap y.disk),
           oos  |-> y.oos, box |-> y.box, gone |-> y.gone]
  BY <1>1, <1>3, RecordDiskIs
<1>5. x.disk \cup T \subseteq z.disk /\ Shown(z, V)
  BY <1>2, <1>4 DEF Shown
<1> QED  BY <1>5 DEF z

\* With no change to take for a delete, and a copy at the hub and at every target, a
\* catch-up finds nothing frozen.
LEMMA UnfreezeSpares ==
  ASSUME NEW Q, Order \in Seq(Q), NEW D, NEW R \in SUBSET D, NEW h \in R, NEW x \in Item(D, R, h),
         NEW T \in SUBSET R, NEW V, T \cup {h} \subseteq V, Shown(x, V), T \cup {h} \subseteq x.disk
  PROVE  LET z == Unfreeze(x, h, T) IN x.disk \subseteq z.disk /\ Shown(z, V)
<1> DEFINE frozen == {t \in T :
                       /\ (t \in x.disk) # (h \in x.disk)
                       /\ ~(t \in x.oos /\ (h \in x.disk \/ x.gone))
                       /\ (h \in x.disk) = (h \in x.row)
                       /\ (t \in x.disk) = (t \in x.row)}
           y1 == [x EXCEPT !.oos = @ \ frozen]
           y  == [y1 EXCEPT !.box = frozen]
           z  == Apply(y, h, T \cup {h})
<1>1. Unfreeze(x, h, T) = z
  BY DEF Unfreeze
<1>2. frozen = {}
  OBVIOUS
<1> HIDE DEF frozen
<1>3. y = [disk |-> x.disk, row |-> x.row, seen |-> x.seen, oos |-> x.oos, box |-> {}, gone |-> x.gone]
  <2>1. Fields(x)
    BY ItemFields
  <2>2. y1 = [disk |-> x.disk, row |-> x.row, seen |-> x.seen, oos |-> x.oos \ frozen, box |-> x.box,
              gone |-> x.gone]
    BY <2>1, PutOos
  <2> HIDE DEF y1
  <2>3. Fields(y1)
    BY <2>2 DEF Fields
  <2>4. y = [disk |-> y1.disk, row |-> y1.row, seen |-> y1.seen, oos |-> y1.oos, box |-> frozen,
             gone |-> y1.gone]
    BY <2>3, PutBox
  <2> QED  BY <1>2, <2>2, <2>4
<1> HIDE DEF y
<1>4. y \in Item(D, R, h)
  BY <1>3 DEF Item
<1>5. Shown(y, V) /\ y.box \subseteq y.disk /\ T \cup {h} \in SUBSET R
  BY <1>3 DEF Shown
<1>6. OnlyAdds(y, h, T \cup {h}, z, V)
  BY <1>4, <1>5, ApplyGrows
<1> HIDE DEF z
<1>7. x.disk \subseteq z.disk /\ Shown(z, V)
  BY <1>3, <1>6 DEF OnlyAdds, Grown
<1> QED  BY <1>1, <1>7

\* Every row, and every copy seen, is on disk, and so is the hub's: a catch-up then
\* deletes no copy, whether a target is mapped for the first time or not.
THEOREM CatchUpSpares ==
  ASSUME NEW Q, Order \in Seq(Q), NEW D, NEW R \in SUBSET D, NEW h \in R, NEW x \in Item(D, R, h),
         NEW T \in SUBSET R, NEW V, T \cup {h} \subseteq V, Shown(x, V), h \in x.disk, T \cup {h} \subseteq {Order[n] : n \in 1 .. Len(Order)},
         NEW fresh
  PROVE  LET z == CatchUpUpdate(x, h, T, fresh) IN x.disk \subseteq z.disk /\ Shown(z, V)
<1> DEFINE seeded == Seed(x, h, T \ fresh)
           W      == (T \ fresh) \cup {h}
           ticked == Tick(seeded, h, W)
           put    == InstallFresh(ticked, h, T \cap fresh, h \in seeded.row)
           z      == Unfreeze(put, h, T)
<1>1. CatchUpUpdate(x, h, T, fresh) = z
  BY DEF CatchUpUpdate
<1>2. T \ fresh \in SUBSET R /\ T \cap fresh \in SUBSET R /\ W \in SUBSET R
      /\ W \subseteq {Order[n] : n \in 1 .. Len(Order)} /\ W \cup {h} \subseteq V
      /\ T \ fresh \subseteq V
  OBVIOUS
<1>3. seeded \in Item(D, R, h)
  BY <1>2, SeedType
<1>4. x.disk \cup (T \ fresh) \subseteq seeded.disk /\ Shown(seeded, V)
  BY <1>2, SeedSpares
<1> HIDE DEF seeded, W
<1>5. ticked \in Item(D, R, h)
  BY <1>2, <1>3, TickType
<1>6. TickAdds(seeded, h, W, ticked, V)
  BY <1>2, <1>3, <1>4, TickGrows
<1> HIDE DEF ticked
<1>7. x.disk \cup (T \ fresh) \subseteq ticked.disk /\ Shown(ticked, V)
  BY <1>4, <1>6 DEF TickAdds
<1>8. put \in Item(D, R, h)
  BY <1>2, <1>5, InstallType
<1>9. ticked.disk \cup (T \cap fresh) \subseteq put.disk /\ Shown(put, V)
  BY <1>2, <1>5, <1>7, InstallSpares
<1> HIDE DEF put
<1>10. x.disk \subseteq put.disk /\ T \cup {h} \subseteq put.disk
  BY <1>7, <1>9
<1>11. put.disk \subseteq z.disk /\ Shown(z, V)
  BY <1>8, <1>9, <1>10, UnfreezeSpares
<1> QED  BY <1>1, <1>10, <1>11

\* A tick that finds nothing to apply and isolates or rejoins no replica records nothing.
QuietKeeps(x, h, W) ==
  Observe(x, h, W).box = {} /\ Tick(x, h, W).oos = x.oos => Tick(x, h, W).row = x.row

\* So it is with every tick.
LEMMA QuietTick ==
  ASSUME NEW Q, Order \in Seq(Q), NEW D, NEW R \in SUBSET D, NEW h \in R, NEW x \in Item(D, R, h),
         NEW W \in SUBSET R
  PROVE  QuietKeeps(x, h, W)
<1> SUFFICES ASSUME Observe(x, h, W).box = {}, Tick(x, h, W).oos = x.oos
             PROVE  Tick(x, h, W).row = x.row
  BY DEF QuietKeeps
<1> DEFINE changed == {r \in W : (r \in x.disk) # (r \in x.seen)}
           rejoins == {r \in changed \cap x.oos : (r \in x.disk) = (h \in x.disk)}
           queued_ == {r \in changed \ rejoins : r \in x.oos => r \notin x.disk}
           y == Observe(x, h, W)
           S == {y}
<1>1. y = [disk |-> x.disk, row |-> (x.row \ rejoins) \cup (rejoins \cap x.disk),
           seen |-> (((x.seen \ rejoins) \cup (rejoins \cap x.disk)) \ W) \cup (x.disk \cap W),
           oos |-> x.oos \ rejoins, box |-> queued_, gone |-> FALSE]
  BY ItemFields, ObserveIs
<1>2. rejoins \subseteq x.oos
  OBVIOUS
<1> HIDE DEF rejoins, queued_, y
<1>3. ASSUME NEW n \in 1 .. Len(Rounds), NEW z \in S
      PROVE  Round(y, h, W, n, z) \in S
  <2>1. z.box = {}
    BY DEF y
  <2> QED  BY <2>1 DEF Round
<1>4. Apply(y, h, W) \in S
  BY <1>3, ApplyInduct
<1>5. Tick(x, h, W) = y
  BY <1>4 DEF Tick, y
<1>6. rejoins = {}
  BY <1>1, <1>2, <1>5
<1> QED  BY <1>1, <1>5, <1>6

-----------------------------------------------------------------------------
\* What a fan-out and a round make of one root

\* Root t has the state that was fanned out, keeps its own and is isolated, or is
\* in y as it was in x.
Becomes(t, new, y) ==
  (t \in y.disk <=> new) /\ (t \in y.row <=> new) /\ (t \in y.seen <=> new) /\ t \notin y.oos
Isolates(x, t, y) ==
  /\ t \in y.disk <=> t \in x.disk
  /\ t \in y.row <=> t \in x.disk
  /\ t \in y.seen <=> t \in x.seen
  /\ t \in y.oos
Alike(x, t, y) ==
  /\ t \in y.disk <=> t \in x.disk
  /\ t \in y.row <=> t \in x.row
  /\ t \in y.seen <=> t \in x.seen
  /\ t \in y.oos <=> t \in x.oos

InReach(x, h, r, W, t) == t \in W \ ({h, r} \cup x.oos \cup x.box)

\* What a fan-out makes of x at each root.
FannedOut(x, h, r, W, old, new, y) ==
  /\ y.box = x.box
  /\ \A t :
       \/ InReach(x, h, r, W, t) /\ (t \in x.disk <=> old) /\ Becomes(t, new, y)
       \/ /\ InReach(x, h, r, W, t) \/ t \in x.oos
          /\ t \in x.disk <=> new
          /\ Becomes(t, new, y)
       \/ /\ InReach(x, h, r, W, t) /\ ~(t \in x.disk <=> old) /\ ~(t \in x.disk <=> new)
          /\ Isolates(x, t, y)
       \/ ~InReach(x, h, r, W, t) /\ (t \in x.oos => ~(t \in x.disk <=> new)) /\ Alike(x, t, y)

\* So it is with every fan-out.
LEMMA FanOutAt ==
  ASSUME NEW x, Fields(x), NEW h, NEW r, NEW W, NEW old \in BOOLEAN, NEW new \in BOOLEAN
  PROVE  FannedOut(x, h, r, W, old, new, FanOut(x, h, r, W, old, new))
<1> DEFINE y == FanOut(x, h, r, W, old, new)
           A == Agree(x, h, r, W, old)
           F == Differ(x, h, r, W, old)
           B == Back(x, h, r, W, old, new)
           d == Put(x.disk, A, new)
           row == Put(x.row, A, new)
           seen == Put(x.seen, A, new)
<1>1. y = [disk |-> d, row  |-> ((((row \ F) \cup (F \cap d)) \ B) \cup (B \cap d)),
           seen |-> (seen \ B) \cup (B \cap d),
           oos  |-> (x.oos \cup F) \ B, box |-> x.box, gone |-> x.gone]
  <2>1. FanOutFields(x, h, r, W, old, new, y)
    BY FanOutIs
  <2> QED  BY <2>1 DEF FanOutFields
<1>2. \A t : t \in A <=> InReach(x, h, r, W, t) /\ (t \in x.disk <=> old)
  BY DEF Agree, InReach
<1>3. \A t : t \in F <=> InReach(x, h, r, W, t) /\ ~(t \in x.disk <=> old)
  BY <1>2 DEF Differ, InReach
<1>4. \A t : t \in B <=> (t \in x.oos \/ t \in F) /\ (t \in d <=> new)
  BY DEF Back
<1>5. \A t : InReach(x, h, r, W, t) => t \notin x.oos
  BY DEF InReach
<1> HIDE DEF A, F, B, y
<1>6. /\ \A t : t \in d <=> IF t \in A THEN new ELSE t \in x.disk
      /\ \A t : t \in row <=> IF t \in A THEN new ELSE t \in x.row
      /\ \A t : t \in seen <=> IF t \in A THEN new ELSE t \in x.seen
  BY DEF Put
<1> HIDE DEF d, row, seen
<1>7. /\ y.disk = d /\ y.row = ((((row \ F) \cup (F \cap d)) \ B) \cup (B \cap d))
      /\ y.seen = (seen \ B) \cup (B \cap d) /\ y.oos = (x.oos \cup F) \ B /\ y.box = x.box
  BY <1>1
<1>8. ASSUME NEW t
      PROVE  \/ InReach(x, h, r, W, t) /\ (t \in x.disk <=> old) /\ Becomes(t, new, y)
             \/ /\ InReach(x, h, r, W, t) \/ t \in x.oos
                /\ t \in x.disk <=> new
                /\ Becomes(t, new, y)
             \/ /\ InReach(x, h, r, W, t) /\ ~(t \in x.disk <=> old) /\ ~(t \in x.disk <=> new)
                /\ Isolates(x, t, y)
             \/ ~InReach(x, h, r, W, t) /\ (t \in x.oos => ~(t \in x.disk <=> new)) /\ Alike(x, t, y)
  <2>1. CASE InReach(x, h, r, W, t) /\ (t \in x.disk <=> old)
    <3>1. t \in A /\ t \notin F /\ t \notin B
      BY <1>2, <1>3, <1>4, <1>5, <2>1
    <3>2. Becomes(t, new, y)
      BY <1>5, <1>6, <1>7, <2>1, <3>1 DEF Becomes
    <3> QED  BY <2>1, <3>2
  <2>2. CASE /\ InReach(x, h, r, W, t) \/ t \in x.oos
             /\ ~(InReach(x, h, r, W, t) /\ (t \in x.disk <=> old))
             /\ t \in x.disk <=> new
    <3>1. t \notin A /\ t \in B
      BY <1>2, <1>3, <1>4, <1>6, <2>2
    <3>2. Becomes(t, new, y)
      BY <1>6, <1>7, <2>2, <3>1 DEF Becomes
    <3> QED  BY <2>2, <3>2
  <2>3. CASE InReach(x, h, r, W, t) /\ ~(t \in x.disk <=> old) /\ ~(t \in x.disk <=> new)
    <3>1. t \notin A /\ t \in F /\ t \notin B
      BY <1>2, <1>3, <1>4, <1>6, <2>3
    <3>2. Isolates(x, t, y)
      BY <1>6, <1>7, <2>3, <3>1 DEF Isolates
    <3> QED  BY <2>3, <3>2
  <2>4. CASE ~InReach(x, h, r, W, t) /\ (t \in x.oos => ~(t \in x.disk <=> new))
    <3>1. t \notin A /\ t \notin F /\ t \notin B
      BY <1>2, <1>3, <1>4, <1>6, <2>4
    <3>2. Alike(x, t, y)
      BY <1>6, <1>7, <2>4, <3>1 DEF Alike
    <3> QED  BY <2>4, <3>2
  <2> QED  BY <1>5, <2>1, <2>2, <2>3, <2>4
<1>9. FannedOut(x, h, r, W, old, new, y)
  BY <1>7, <1>8 DEF FannedOut
<1> QED  BY <1>9 DEF y

\* The change of root r leaves the mailbox and nothing else happens, the replica is
\* isolated, or w, in which the change is recorded, is fanned out.
Skipped(y, r, z) ==
  /\ z.disk = y.disk /\ z.row = y.row /\ z.seen = y.seen /\ z.oos = y.oos
  /\ z.box = y.box \ {r}
Isolated(y, r, z) ==
  /\ z.disk = y.disk /\ z.row = (y.row \ {r}) \cup ({r} \cap y.disk) /\ z.seen = y.seen
  /\ z.oos = y.oos \cup {r} /\ z.box = y.box \ {r}

HubRecorded(y, h, old, new, w) ==
  /\ old <=> h \in y.row
  /\ new <=> h \in y.disk
  /\ w.disk = y.disk /\ w.row = Put(y.row, {h}, new) /\ w.seen = Put(y.seen, {h}, new)
  /\ w.oos = y.oos
DeleteRecorded(y, h, r, old, new, w) ==
  /\ old <=> h \in y.disk
  /\ ~new
  /\ w.disk = y.disk \ {h} /\ w.row = y.row \ {h, r} /\ w.seen = y.seen \ {h, r}
  /\ w.oos = y.oos \ {r}
CreateRecorded(y, h, r, old, new, w) ==
  /\ ~old /\ new
  /\ w.disk = y.disk \cup {h} /\ w.row = y.row \cup {h, r} /\ w.seen = y.seen \cup {h, r}
  /\ w.oos = y.oos

\* z is y after the round of root r; x was the item when the apply began.
Rounded(x, h, W, r, y, z) ==
  \/ z = y
  \/ /\ r \in y.box /\ r # h /\ r \in x.disk
     /\ \/ r \in y.oos /\ Skipped(y, r, z)
        \/ r \notin y.oos /\ h \in y.disk /\ Isolated(y, r, z)
  \/ /\ r \in y.box
     /\ \E w : \E old, new \in BOOLEAN :
          /\ w.box = y.box \ {r}
          /\ FannedOut(w, h, r, W, old, new, z)
          /\ \/ r = h /\ HubRecorded(y, h, old, new, w)
             \/ r # h /\ r \notin x.disk /\ DeleteRecorded(y, h, r, old, new, w)
             \/ /\ r # h /\ r \in x.disk /\ r \notin y.oos /\ h \notin y.disk
                /\ CreateRecorded(y, h, r, old, new, w)

\* So is every round.
LEMMA RoundIs ==
  ASSUME NEW D, NEW R, NEW h, NEW x, NEW W, NEW n, NEW y \in Item(D, R, h)
  PROVE  Rounded(x, h, W, Rounds[n], y, Round(x, h, W, n, y))
<1> DEFINE r == Rounds[n]
           t == After(y, r)
           z == Round(x, h, W, n, y)
<1>1. t = [disk |-> y.disk, row |-> y.row, seen |-> y.seen, oos |-> y.oos, box |-> y.box \ {r},
           gone |-> y.gone]
  BY DEF After
<1>2. /\ Fields(t) /\ t.disk = y.disk /\ t.row = y.row /\ t.seen = y.seen /\ t.oos = y.oos
      /\ t.box = y.box \ {r}
  BY <1>1 DEF Fields
<1>3. \/ z = y
      \/ r \in y.box /\ r = h /\ z = ApplyHub(t, h, W)
      \/ r \in y.box /\ r # h /\ r \notin x.disk /\ z = ApplyDelete(t, h, r, W)
      \/ r \in y.box /\ r # h /\ r \in x.disk /\ z = ApplyCreate(t, h, r, W)
  <2>1. \/ z = y /\ ~Taken(x, n, y)
        \/ /\ Taken(x, n, y)
           /\ \/ r = h /\ z = ApplyHub(t, h, W)
              \/ r # h /\ r \notin x.disk /\ z = ApplyDelete(t, h, r, W)
              \/ r # h /\ r \in x.disk /\ z = ApplyCreate(t, h, r, W)
    BY RoundCases
  <2>2. Taken(x, n, y) => r \in y.box
    BY DEF Taken
  <2> HIDE DEF z, t, r
  <2> QED  BY <2>1, <2>2
<1> HIDE DEF t, z, r
<1> SUFFICES Rounded(x, h, W, r, y, z)
  BY DEF z, r
<1>6. CASE r \in y.box /\ r = h /\ z = ApplyHub(t, h, W)
  <2>1. HubChange(t, h, W, z)
    BY <1>2, <1>6, ApplyHubIs
  <2>2a. PICK w : \E old, new \in BOOLEAN :
          /\ (old <=> h \in t.row) /\ (new <=> h \in t.disk)
          /\ w = [disk |-> t.disk, row |-> Put(t.row, {h}, new), seen |-> Put(t.seen, {h}, new),
                  oos |-> t.oos, box |-> t.box, gone |-> t.gone \/ ~new]
          /\ z = FanOut(w, h, h, W, old, new)
    BY <2>1 DEF HubChange
  <2>2. PICK old \in BOOLEAN, new \in BOOLEAN :
          /\ (old <=> h \in t.row) /\ (new <=> h \in t.disk)
          /\ w = [disk |-> t.disk, row |-> Put(t.row, {h}, new), seen |-> Put(t.seen, {h}, new),
                  oos |-> t.oos, box |-> t.box, gone |-> t.gone \/ ~new]
          /\ z = FanOut(w, h, h, W, old, new)
    BY <2>2a
  <2>3. Fields(w) /\ w.disk = t.disk /\ w.row = Put(t.row, {h}, new) /\ w.seen = Put(t.seen, {h}, new)
        /\ w.oos = t.oos /\ w.box = t.box
    BY <2>2 DEF Fields
  <2>4. FannedOut(w, h, r, W, old, new, z)
    <3>1. \A a, b \in BOOLEAN : FannedOut(w, h, h, W, a, b, FanOut(w, h, h, W, a, b))
      BY <2>3, FanOutAt
    <3>2. FannedOut(w, h, h, W, old, new, FanOut(w, h, h, W, old, new))
      BY <3>1
    <3> QED  BY <1>6, <2>2, <3>2
  <2>5. HubRecorded(y, h, old, new, w) /\ w.box = y.box \ {r}
    BY <1>2, <2>2, <2>3 DEF HubRecorded
  <2> QED  BY <1>6, <2>4, <2>5 DEF Rounded
<1>7. CASE r \in y.box /\ r # h /\ r \notin x.disk /\ z = ApplyDelete(t, h, r, W)
  <2>1. DeleteChange(t, h, r, W, z)
    BY <1>2, <1>7, ApplyDeleteIs
  <2>2a. PICK w : \E old, new \in BOOLEAN :
          /\ (old <=> h \in t.disk) /\ ~new
          /\ w = [disk |-> t.disk \ {h}, row |-> t.row \ {h, r}, seen |-> t.seen \ {h, r},
                  oos |-> t.oos \ {r}, box |-> t.box, gone |-> TRUE]
          /\ z = FanOut(w, h, r, W, old, new)
    BY <2>1 DEF DeleteChange
  <2>2. PICK old \in BOOLEAN, new \in BOOLEAN :
          /\ (old <=> h \in t.disk) /\ ~new
          /\ w = [disk |-> t.disk \ {h}, row |-> t.row \ {h, r}, seen |-> t.seen \ {h, r},
                  oos |-> t.oos \ {r}, box |-> t.box, gone |-> TRUE]
          /\ z = FanOut(w, h, r, W, old, new)
    BY <2>2a
  <2>3. Fields(w) /\ w.disk = t.disk \ {h} /\ w.row = t.row \ {h, r} /\ w.seen = t.seen \ {h, r}
        /\ w.oos = t.oos \ {r} /\ w.box = t.box
    BY <2>2 DEF Fields
  <2>4. FannedOut(w, h, r, W, old, new, z)
    <3>1. \A a, b \in BOOLEAN : FannedOut(w, h, r, W, a, b, FanOut(w, h, r, W, a, b))
      BY <2>3, FanOutAt
    <3>2. FannedOut(w, h, r, W, old, new, FanOut(w, h, r, W, old, new))
      BY <3>1
    <3> QED  BY <2>2, <3>2
  <2>5. DeleteRecorded(y, h, r, old, new, w) /\ w.box = y.box \ {r}
    BY <1>2, <2>2, <2>3 DEF DeleteRecorded
  <2> QED  BY <1>7, <2>4, <2>5 DEF Rounded
<1>8. CASE r \in y.box /\ r # h /\ r \in x.disk /\ z = ApplyCreate(t, h, r, W)
  <2>1. CASE r \in t.oos
    <3>1. z = t
      BY <1>8, <2>1 DEF ApplyCreate
    <3> QED  BY <1>2, <1>8, <2>1, <3>1 DEF Rounded, Skipped
  <2>2. CASE r \notin t.oos /\ h \in t.disk
    <3>1. z = MarkOos(t, {r})
      BY <1>8, <2>2 DEF ApplyCreate
    <3>2. z = [disk |-> t.disk, row |-> (t.row \ {r}) \cup ({r} \cap t.disk), seen |-> t.seen,
               oos  |-> t.oos \cup {r}, box |-> t.box, gone |-> t.gone]
      BY <1>2, <3>1, MarkOosIs
    <3>3. Isolated(y, r, z)
      BY <1>2, <3>2 DEF Isolated
    <3> QED  BY <1>2, <1>8, <2>2, <3>3 DEF Rounded
  <2>3. CASE r \notin t.oos /\ h \notin t.disk
    <3>1. CreateChange(t, h, r, W, z)
      BY <1>2, <1>8, <2>3, ApplyCreateIs
    <3>2a. PICK w : \E old, new \in BOOLEAN :
            /\ ~old /\ new
            /\ w = [disk |-> t.disk \cup {h}, row |-> t.row \cup {h, r},
                    seen |-> t.seen \cup {h, r}, oos |-> t.oos, box |-> t.box, gone |-> t.gone]
            /\ z = FanOut(w, h, r, W, old, new)
      BY <3>1 DEF CreateChange
    <3>2. PICK old \in BOOLEAN, new \in BOOLEAN :
            /\ ~old /\ new
            /\ w = [disk |-> t.disk \cup {h}, row |-> t.row \cup {h, r},
                    seen |-> t.seen \cup {h, r}, oos |-> t.oos, box |-> t.box, gone |-> t.gone]
            /\ z = FanOut(w, h, r, W, old, new)
      BY <3>2a
    <3>3. /\ Fields(w) /\ w.disk = t.disk \cup {h} /\ w.row = t.row \cup {h, r}
          /\ w.seen = t.seen \cup {h, r} /\ w.oos = t.oos /\ w.box = t.box
      BY <3>2 DEF Fields
    <3>4. FannedOut(w, h, r, W, old, new, z)
      <4>1. \A a, b \in BOOLEAN : FannedOut(w, h, r, W, a, b, FanOut(w, h, r, W, a, b))
        BY <3>3, FanOutAt
      <4>2. FannedOut(w, h, r, W, old, new, FanOut(w, h, r, W, old, new))
        BY <4>1
      <4> QED  BY <3>2, <4>2
    <3>5. CreateRecorded(y, h, r, old, new, w) /\ w.box = y.box \ {r}
      BY <1>2, <3>2, <3>3 DEF CreateRecorded
    <3> QED  BY <1>2, <1>8, <2>3, <3>4, <3>5 DEF Rounded
  <2> QED  BY <2>1, <2>2, <2>3
<1>9. CASE z = y
  BY <1>9 DEF Rounded
<1> QED  BY <1>3, <1>6, <1>7, <1>8, <1>9

-----------------------------------------------------------------------------
\* Who is even with the hub

\* Replica t is isolated, or the baseline has it exactly when it has the hub's copy.
Even(x, h, t) == t \in x.oos \/ (t \in x.row <=> h \in x.row)

\* A fan-out that comes with the change recorded at the hub and at its source evens
\* every replica whose own change is not pending.
LEMMA FanOutEvens ==
  ASSUME NEW x, NEW h, NEW r, NEW W, NEW old \in BOOLEAN, NEW new \in BOOLEAN, NEW y,
         FannedOut(x, h, r, W, old, new, y), h \notin x.oos,
         h \in x.row <=> new, r \in x.row <=> new,
         NEW t \in W, t \notin x.box
  PROVE  Even(y, h, t)
<1>1. h \in y.row <=> new
  BY DEF FannedOut, InReach, Becomes, Alike
<1>2. t \in y.oos \/ (t \in y.row <=> new)
  <2>1. CASE InReach(x, h, r, W, t)
    <3>1. Becomes(t, new, y) \/ Isolates(x, t, y)
      BY <2>1 DEF FannedOut
    <3> QED  BY <3>1 DEF Becomes, Isolates
  <2>2. CASE ~InReach(x, h, r, W, t) /\ t \in x.oos
    <3>1. Becomes(t, new, y) \/ Alike(x, t, y)
      BY <2>2 DEF FannedOut
    <3> QED  BY <2>2, <3>1 DEF Becomes, Alike
  <2>3. CASE ~InReach(x, h, r, W, t) /\ t \notin x.oos
    <3>1. Alike(x, t, y) /\ t \in {h, r}
      BY <2>3 DEF FannedOut, InReach
    <3> QED  BY <3>1 DEF Alike
  <2> QED  BY <2>1, <2>2, <2>3
<1> QED  BY <1>1, <1>2 DEF Even

\* t and the hub are in y as they were in x, also in the mailbox.
Waits(x, h, t, y) ==
  /\ Alike(x, t, y) /\ (t \in y.box <=> t \in x.box)
  /\ Alike(x, h, y) /\ (h \in y.box <=> h \in x.box)

\* An apply has every replica of W even, apart from those whose change is pending
\* and those to which nothing has happened.
EvensOut(x, h, W, y) == \A t \in W \ {h} : t \in y.box \/ Even(y, h, t) \/ Waits(x, h, t, y)

\* So it is after each round.
LEMMA RoundEvens ==
  ASSUME NEW D, NEW R, NEW h, NEW x, NEW W, NEW n, NEW y \in Item(D, R, h), EvensOut(x, h, W, y)
  PROVE  EvensOut(x, h, W, Round(x, h, W, n, y))
<1> DEFINE r == Rounds[n]
           z == Round(x, h, W, n, y)
<1>1. Rounded(x, h, W, r, y, z)
  BY RoundIs
<1>2. h \notin y.oos
  BY DEF Item
<1> HIDE DEF z, r
<1> SUFFICES ASSUME NEW t \in W \ {h} PROVE t \in z.box \/ Even(z, h, t) \/ Waits(x, h, t, z)
  BY DEF EvensOut, z
<1>3. CASE z = y
  BY <1>3 DEF EvensOut
<1>4. CASE r \in y.box /\ r # h /\ r \in y.oos /\ Skipped(y, r, z)
  BY <1>4 DEF EvensOut, Skipped, Even, Waits, Alike
<1>5. CASE r \in y.box /\ r # h /\ Isolated(y, r, z)
  BY <1>5 DEF EvensOut, Isolated, Even, Waits, Alike
<1>6. ASSUME NEW w, NEW old \in BOOLEAN, NEW new \in BOOLEAN, FannedOut(w, h, r, W, old, new, z),
             h \notin w.oos, h \in w.row <=> new, r \in w.row <=> new
      PROVE  t \in z.box \/ Even(z, h, t)
  <2>1. z.box = w.box
    BY <1>6 DEF FannedOut
  <2>2. CASE t \notin w.box
    BY <1>6, <2>2, FanOutEvens
  <2> QED  BY <2>1, <2>2
<1>7. ASSUME NEW w, NEW old \in BOOLEAN, NEW new \in BOOLEAN, FannedOut(w, h, r, W, old, new, z),
             \/ r = h /\ HubRecorded(y, h, old, new, w)
             \/ r # h /\ r \notin x.disk /\ DeleteRecorded(y, h, r, old, new, w)
             \/ /\ r # h /\ r \in x.disk /\ r \notin y.oos /\ h \notin y.disk
                /\ CreateRecorded(y, h, r, old, new, w)
      PROVE  t \in z.box \/ Even(z, h, t)
  <2>1. h \notin w.oos /\ (h \in w.row <=> new) /\ (r \in w.row <=> new)
    BY <1>2, <1>7 DEF HubRecorded, DeleteRecorded, CreateRecorded, Put
  <2> QED  BY <1>6, <1>7, <2>1
<1> QED  BY <1>1, <1>3, <1>4, <1>5, <1>7 DEF Rounded

\* So an apply leaves every replica of W even or untouched, with nothing pending.
EvenOrWaiting(x, h, W, y) == \A t \in W \ {h} :
  Even(y, h, t) \/ (Alike(x, t, y) /\ Alike(x, h, y) /\ t \notin x.box /\ h \notin x.box)

\* Every apply does, of an item whose pending changes are at ordered roots.
LEMMA ApplyEvens ==
  ASSUME NEW Q, Order \in Seq(Q), NEW D, NEW R \in SUBSET D, NEW h \in R, NEW x \in Item(D, R, h),
         NEW W \in SUBSET R, x.box \subseteq {Order[n] : n \in 1 .. Len(Order)}
  PROVE  EvenOrWaiting(x, h, W, Apply(x, h, W))
<1> DEFINE S == {y \in Item(D, R, h) : EvensOut(x, h, W, y)}
<1>1. x \in S
  BY DEF EvensOut, Waits, Alike
<1>2. ASSUME NEW n \in 1 .. Len(Rounds), NEW y \in S
      PROVE  Round(x, h, W, n, y) \in S
  <2>1. Round(x, h, W, n, y) \in Item(D, R, h)
    BY RoundType
  <2>2. EvensOut(x, h, W, Round(x, h, W, n, y))
    BY RoundEvens
  <2> QED  BY <2>1, <2>2
<1>3. Apply(x, h, W) \in S
  BY <1>1, <1>2, ApplyInduct
<1>4. Apply(x, h, W).box = {}
  BY ApplyEmptiesBox
<1> DEFINE z == Apply(x, h, W)
<1>5. EvensOut(x, h, W, z) /\ z.box = {}
  BY <1>3, <1>4
<1> HIDE DEF z
<1>6. EvenOrWaiting(x, h, W, z)
  BY <1>5 DEF EvensOut, EvenOrWaiting, Waits
<1> QED  BY <1>6 DEF z

\* What an apply has last seen of W is what the disk shows, and the replicas whose
\* change is pending have the copies they had.
Sees(x, h, W, y) ==
  /\ \A t \in W : t \in y.seen <=> t \in y.disk
  /\ \A t \in y.box \ {h} : t \in y.disk <=> t \in x.disk

\* So it is after each round.
LEMMA RoundSees ==
  ASSUME NEW D, NEW R, NEW h, NEW x, NEW W, NEW n, NEW y \in Item(D, R, h), Sees(x, h, W, y)
  PROVE  Sees(x, h, W, Round(x, h, W, n, y))
<1> DEFINE r == Rounds[n]
           z == Round(x, h, W, n, y)
<1>1. Rounded(x, h, W, r, y, z)
  BY RoundIs
<1>2. h \notin y.oos
  BY DEF Item
<1>2a. r \in y.box /\ r # h => (r \in y.disk <=> r \in x.disk)
  BY DEF Sees
<1> HIDE DEF z, r
<1> SUFFICES Sees(x, h, W, z)
  BY DEF z
<1>3. CASE z = y
  BY <1>3
<1>4. CASE Skipped(y, r, z) \/ Isolated(y, r, z)
  BY <1>4 DEF Sees, Skipped, Isolated
<1>5. ASSUME NEW w, NEW old \in BOOLEAN, NEW new \in BOOLEAN, FannedOut(w, h, r, W, old, new, z),
             w.box = y.box \ {r},
             \A t \in W : t \in w.seen <=> t \in w.disk,
             \A t \in w.box \ {h} : t \in w.disk <=> t \in x.disk
      PROVE  Sees(x, h, W, z)
  <2>1. ASSUME NEW t \in W PROVE t \in z.seen <=> t \in z.disk
    <3>1. Becomes(t, new, z) \/ Isolates(w, t, z) \/ Alike(w, t, z)
      BY <1>5 DEF FannedOut
    <3> QED  BY <1>5, <3>1 DEF Becomes, Isolates, Alike
  <2>2. ASSUME NEW t \in z.box \ {h} PROVE t \in z.disk <=> t \in x.disk
    <3>1. t \in w.box
      BY <1>5, <2>2 DEF FannedOut
    <3>2. t \in z.disk <=> t \in w.disk
      BY <1>5, <3>1 DEF FannedOut, InReach, Becomes, Isolates, Alike
    <3> QED  BY <1>5, <3>1, <3>2
  <2> QED  BY <2>1, <2>2 DEF Sees
<1>6. ASSUME NEW w, NEW old \in BOOLEAN, NEW new \in BOOLEAN, FannedOut(w, h, r, W, old, new, z),
             r \in y.box, w.box = y.box \ {r},
             \/ r = h /\ HubRecorded(y, h, old, new, w)
             \/ r # h /\ r \notin x.disk /\ DeleteRecorded(y, h, r, old, new, w)
             \/ /\ r # h /\ r \in x.disk /\ r \notin y.oos /\ h \notin y.disk
                /\ CreateRecorded(y, h, r, old, new, w)
      PROVE  Sees(x, h, W, z)
  <2>1. \A t \in W : t \in w.seen <=> t \in w.disk
    BY <1>2a, <1>6 DEF HubRecorded, DeleteRecorded, CreateRecorded, Put, Sees
  <2>2. \A t \in w.box \ {h} : t \in w.disk <=> t \in x.disk
    BY <1>6 DEF HubRecorded, DeleteRecorded, CreateRecorded, Sees
  <2> QED  BY <1>5, <1>6, <2>1, <2>2
<1> QED  BY <1>1, <1>3, <1>4, <1>6 DEF Rounded

\* An apply of a disk that was seen leaves one that was seen.
LEMMA ApplySees ==
  ASSUME NEW Q, Order \in Seq(Q), NEW D, NEW R \in SUBSET D, NEW h \in R, NEW x \in Item(D, R, h),
         NEW W \in SUBSET R, \A t \in W : t \in x.seen <=> t \in x.disk
  PROVE  \A t \in W : t \in Apply(x, h, W).seen <=> t \in Apply(x, h, W).disk
<1> DEFINE S == {y \in Item(D, R, h) : Sees(x, h, W, y)}
<1>1. x \in S
  BY DEF Sees
<1>2. ASSUME NEW n \in 1 .. Len(Rounds), NEW y \in S
      PROVE  Round(x, h, W, n, y) \in S
  <2>1. Round(x, h, W, n, y) \in Item(D, R, h)
    BY RoundType
  <2>2. Sees(x, h, W, Round(x, h, W, n, y))
    BY RoundSees
  <2> QED  BY <2>1, <2>2
<1>3. Apply(x, h, W) \in S
  BY <1>1, <1>2, ApplyInduct
<1> QED  BY <1>3 DEF Sees

\* What holds through an apply of an item whose rows are what was last seen: isolated
\* replicas have a row, the hub's row is right or its change is pending, and when it
\* comes back with a row, the replicas that follow it have the item.
Rowed(x, h, W, y) ==
  /\ y.oos \subseteq y.row
  /\ h \notin y.box => (h \in y.row <=> h \in y.disk)
  /\ h \in y.box \cap y.disk \cap y.row => W \ {h} \subseteq y.disk \cup y.box \cup y.oos
  /\ \A t \in y.box \ {h} : t \in y.disk <=> t \in x.disk
  /\ y.box \cap y.oos \cap x.disk = {}

\* So it is after each round.
LEMMA RoundRowed ==
  ASSUME NEW D, NEW R, NEW h, NEW x, NEW W, NEW n, NEW y \in Item(D, R, h), Rowed(x, h, W, y)
  PROVE  Rowed(x, h, W, Round(x, h, W, n, y))
<1> DEFINE r == Rounds[n]
           z == Round(x, h, W, n, y)
<1>1. Rounded(x, h, W, r, y, z)
  BY RoundIs
<1>2. h \notin y.oos
  BY DEF Item
<1>2a. r \in y.box /\ r # h => (r \in y.disk <=> r \in x.disk)
  BY DEF Rowed
<1> HIDE DEF z, r
<1> SUFFICES Rowed(x, h, W, z)
  BY DEF z
<1>3. CASE z = y
  BY <1>3
<1>4. CASE r # h /\ r \in y.oos /\ Skipped(y, r, z)
  BY <1>4 DEF Rowed, Skipped
<1>5. CASE r \in y.box /\ r # h /\ r \in x.disk /\ Isolated(y, r, z)
  BY <1>2a, <1>5 DEF Rowed, Isolated
<1>6. ASSUME NEW w, NEW old \in BOOLEAN, NEW new \in BOOLEAN, FannedOut(w, h, r, W, old, new, z),
             w.box = y.box \ {r}, h \notin w.oos, w.oos \subseteq w.row,
             h \in w.row <=> new, h \in w.disk <=> new,
             \A t : InReach(w, h, r, W, t) /\ ~(t \in w.disk <=> old) /\ ~(t \in w.disk <=> new)
                     => t \in w.disk,
             h \in w.box /\ new => ~old /\ r \in w.disk /\ r \notin w.oos,
             \A t \in w.box \ {h} : t \in w.disk <=> t \in x.disk,
             w.box \cap w.oos \cap x.disk = {}
      PROVE  Rowed(x, h, W, z)
  <2>1. z.box = w.box
    BY <1>6 DEF FannedOut
  <2>2. (h \in z.row <=> new) /\ (h \in z.disk <=> new)
    BY <1>6 DEF FannedOut, InReach, Becomes, Alike
  <2>3. ASSUME NEW t \in z.oos PROVE t \in z.row
    <3>1. CASE InReach(w, h, r, W, t)
      <4>1. /\ ~(t \in w.disk <=> old) /\ ~(t \in w.disk <=> new)
            /\ Isolates(w, t, z)
        BY <1>6, <2>3, <3>1 DEF FannedOut, Becomes
      <4> QED  BY <1>6, <3>1, <4>1 DEF Isolates
    <3>2. CASE ~InReach(w, h, r, W, t)
      <4>1. Alike(w, t, z)
        BY <1>6, <2>3, <3>2 DEF FannedOut, Becomes
      <4> QED  BY <1>6, <2>3, <4>1 DEF Alike
    <3> QED  BY <3>1, <3>2
  <2>4. ASSUME h \in z.box, h \in z.disk, NEW t \in W \ {h}
        PROVE  t \in z.disk \cup z.box \cup z.oos
    <3>1. new /\ ~old /\ r \in w.disk /\ r \notin w.oos
      BY <1>6, <2>1, <2>2, <2>4
    <3>2. CASE InReach(w, h, r, W, t)
      <4>1. Becomes(t, new, z)
        BY <1>6, <3>1, <3>2 DEF FannedOut
      <4> QED  BY <3>1, <4>1 DEF Becomes
    <3>3. CASE ~InReach(w, h, r, W, t) /\ t \in w.oos
      <4>1. Becomes(t, new, z) \/ Alike(w, t, z)
        BY <1>6, <3>3 DEF FannedOut
      <4> QED  BY <3>1, <3>3, <4>1 DEF Becomes, Alike
    <3>4. CASE ~InReach(w, h, r, W, t) /\ t \notin w.oos
      <4>1. Alike(w, t, z)
        BY <1>6, <3>4 DEF FannedOut
      <4>2. t = r \/ t \in w.box
        BY <2>4, <3>4 DEF InReach
      <4> QED  BY <2>1, <3>1, <4>1, <4>2 DEF Alike
    <3> QED  BY <3>2, <3>3, <3>4
  <2>5. ASSUME NEW t \in z.box \ {h} PROVE t \in z.disk <=> t \in x.disk
    <3>1. t \in w.box /\ ~InReach(w, h, r, W, t)
      BY <2>1, <2>5 DEF InReach
    <3>2. t \in z.disk <=> t \in w.disk
      BY <1>6, <3>1 DEF FannedOut, Becomes, Alike
    <3> QED  BY <1>6, <2>5, <3>1, <3>2
  <2>6. z.box \cap z.oos \cap x.disk = {}
    <3>1. ASSUME NEW t \in z.box, t \in z.oos PROVE t \in w.oos
      BY <1>6, <2>1, <3>1 DEF FannedOut, InReach, Becomes, Alike
    <3> QED  BY <1>6, <2>1, <3>1
  <2> QED  BY <2>2, <2>3, <2>4, <2>5, <2>6 DEF Rowed
<1>7. ASSUME NEW w, NEW old \in BOOLEAN, NEW new \in BOOLEAN, FannedOut(w, h, r, W, old, new, z),
             r \in y.box, w.box = y.box \ {r}
      PROVE  /\ r = h /\ HubRecorded(y, h, old, new, w) => Rowed(x, h, W, z)
             /\ r # h /\ r \notin x.disk /\ DeleteRecorded(y, h, r, old, new, w) => Rowed(x, h, W, z)
             /\ r # h /\ r \in x.disk /\ r \notin y.oos /\ h \notin y.disk
                  /\ CreateRecorded(y, h, r, old, new, w) => Rowed(x, h, W, z)
  <2>1. CASE r = h /\ HubRecorded(y, h, old, new, w)
    <3>1. w.oos = y.oos /\ w.disk = y.disk /\ h \notin w.box
      BY <1>7, <2>1 DEF HubRecorded
    <3>2. w.oos \subseteq w.row /\ (h \in w.row <=> new) /\ (h \in w.disk <=> new)
      BY <1>2, <2>1 DEF HubRecorded, Put, Rowed
    <3>3. ASSUME NEW t, InReach(w, h, r, W, t), ~(t \in w.disk <=> old), ~(t \in w.disk <=> new)
          PROVE  t \in w.disk
      <4>1. (old <=> h \in y.row) /\ (new <=> h \in y.disk)
        BY <2>1 DEF HubRecorded
      <4>2. t \in W \ {h} /\ t \notin y.box /\ t \notin y.oos
        BY <1>7, <2>1, <3>1, <3>3 DEF InReach
      <4> QED  BY <1>7, <2>1, <3>1, <3>3, <4>1, <4>2 DEF Rowed
    <3>4. /\ \A t \in w.box \ {h} : t \in w.disk <=> t \in x.disk
          /\ w.box \cap w.oos \cap x.disk = {}
      BY <1>7, <3>1 DEF Rowed
    <3> QED  BY <1>2, <1>6, <1>7, <3>1, <3>2, <3>3, <3>4
  <2>2. CASE r # h /\ r \notin x.disk /\ DeleteRecorded(y, h, r, old, new, w)
    <3>1. w.oos = y.oos \ {r} /\ w.disk = y.disk \ {h} /\ ~new
      BY <2>2 DEF DeleteRecorded
    <3>2. w.oos \subseteq w.row /\ (h \in w.row <=> new) /\ (h \in w.disk <=> new)
      BY <1>2, <2>2 DEF DeleteRecorded, Rowed
    <3>3. /\ \A t \in w.box \ {h} : t \in w.disk <=> t \in x.disk
          /\ w.box \cap w.oos \cap x.disk = {}
      BY <1>7, <3>1 DEF Rowed
    <3> QED  BY <1>2, <1>6, <1>7, <3>1, <3>2, <3>3
  <2>3. CASE /\ r # h /\ r \in x.disk /\ r \notin y.oos /\ h \notin y.disk
             /\ CreateRecorded(y, h, r, old, new, w)
    <3>1. w.oos = y.oos /\ w.disk = y.disk \cup {h} /\ new /\ ~old
      BY <2>3 DEF CreateRecorded
    <3>2. w.oos \subseteq w.row /\ (h \in w.row <=> new) /\ (h \in w.disk <=> new)
      BY <2>3 DEF CreateRecorded, Rowed
    <3>3. /\ \A t \in w.box \ {h} : t \in w.disk <=> t \in x.disk
          /\ w.box \cap w.oos \cap x.disk = {}
      BY <1>7, <3>1 DEF Rowed
    <3>4. r \in w.disk /\ r \notin w.oos
      BY <1>2a, <1>7, <2>3, <3>1
    <3> QED  BY <1>2, <1>6, <1>7, <3>1, <3>2, <3>3, <3>4
  <2> QED  BY <2>1, <2>2, <2>3
<1> QED  BY <1>1, <1>3, <1>4, <1>5, <1>7 DEF Rounded

\* With every change taken, isolated replicas have a row and the hub's row is right.
LEMMA ApplyRowed ==
  ASSUME NEW Q, Order \in Seq(Q), NEW D, NEW R \in SUBSET D, NEW h \in R, NEW x \in Item(D, R, h),
         NEW W \in SUBSET R, x.box \subseteq {Order[n] : n \in 1 .. Len(Order)}, Rowed(x, h, W, x)
  PROVE  LET z == Apply(x, h, W) IN z.oos \subseteq z.row /\ (h \in z.row <=> h \in z.disk)
<1> DEFINE S == {y \in Item(D, R, h) : Rowed(x, h, W, y)}
<1>1. x \in S
  OBVIOUS
<1>2. ASSUME NEW n \in 1 .. Len(Rounds), NEW y \in S
      PROVE  Round(x, h, W, n, y) \in S
  <2>1. Round(x, h, W, n, y) \in Item(D, R, h)
    BY RoundType
  <2>2. Rowed(x, h, W, Round(x, h, W, n, y))
    BY RoundRowed
  <2> QED  BY <2>1, <2>2
<1>3. Apply(x, h, W) \in S
  BY <1>1, <1>2, ApplyInduct
<1>4. Apply(x, h, W).box = {}
  BY ApplyEmptiesBox
<1> QED  BY <1>3, <1>4 DEF Rowed

-----------------------------------------------------------------------------
\* Who is accounted for

\* Root t shows what the scan has of x: it rejoined, being equal to the hub; or it is
\* as it was and its change, if any is to be applied, is pending.
Rejoined(x, h, t, y) ==
  /\ ~(t \in x.disk <=> t \in x.seen) /\ t \in x.oos /\ (t \in x.disk <=> h \in x.disk)
  /\ (t \in y.row <=> t \in x.disk) /\ t \notin y.oos /\ t \notin y.box
Scanned(x, t, y) ==
  /\ (t \in y.row <=> t \in x.row) /\ (t \in y.oos <=> t \in x.oos)
  /\ t \in y.box <=> ~(t \in x.disk <=> t \in x.seen) /\ (t \in x.oos => t \notin x.disk)
Observed(x, h, W, y) ==
  /\ y.disk = x.disk /\ y.box \subseteq W
  /\ \A t \in W : (t \in y.seen <=> t \in x.disk) /\ (Rejoined(x, h, t, y) \/ Scanned(x, t, y))
  /\ \A t : t \notin W => Alike(x, t, y)

\* What a scan makes of an item at each root.
LEMMA ObserveAt ==
  ASSUME NEW x, Fields(x), NEW h, NEW W
  PROVE  Observed(x, h, W, Observe(x, h, W))
<1> DEFINE changed == {r \in W : (r \in x.disk) # (r \in x.seen)}
           rejoins == {r \in changed \cap x.oos : (r \in x.disk) = (h \in x.disk)}
           queued  == {r \in changed \ rejoins : r \in x.oos => r \notin x.disk}
           y       == Observe(x, h, W)
<1>1. y = [disk |-> x.disk, row |-> (x.row \ rejoins) \cup (rejoins \cap x.disk),
           seen |-> (((x.seen \ rejoins) \cup (rejoins \cap x.disk)) \ W) \cup (x.disk \cap W),
           oos |-> x.oos \ rejoins, box |-> queued, gone |-> FALSE]
  BY ObserveIs
<1>2. \A t : t \in rejoins <=> /\ t \in W /\ ~(t \in x.disk <=> t \in x.seen) /\ t \in x.oos
                               /\ t \in x.disk <=> h \in x.disk
  OBVIOUS
<1>3. \A t : t \in queued <=> /\ t \in W /\ ~(t \in x.disk <=> t \in x.seen) /\ t \notin rejoins
                              /\ t \in x.oos => t \notin x.disk
  BY <1>2
<1> HIDE DEF rejoins, queued, y
<1>4. /\ y.disk = x.disk /\ y.row = (x.row \ rejoins) \cup (rejoins \cap x.disk)
      /\ y.seen = (((x.seen \ rejoins) \cup (rejoins \cap x.disk)) \ W) \cup (x.disk \cap W)
      /\ y.oos = x.oos \ rejoins /\ y.box = queued
  BY <1>1
<1>5. ASSUME NEW t \in W PROVE Rejoined(x, h, t, y) \/ Scanned(x, t, y)
  <2>1. CASE t \in rejoins
    BY <1>2, <1>3, <1>4, <2>1 DEF Rejoined
  <2>2. CASE t \notin rejoins
    BY <1>2, <1>3, <1>4, <2>2 DEF Scanned
  <2> QED  BY <2>1, <2>2
<1>6. ASSUME NEW t, t \notin W PROVE Alike(x, t, y) \/ t \in x.box
  <2>1. t \notin rejoins /\ t \notin queued
    BY <1>2, <1>3, <1>6
  <2> QED  BY <1>4, <1>6, <2>1 DEF Alike
<1>7. ASSUME NEW t, t \notin W PROVE Alike(x, t, y)
  <2>1. t \notin rejoins
    BY <1>2, <1>7
  <2> QED  BY <1>4, <1>7, <2>1 DEF Alike
<1>8. /\ y.disk = x.disk /\ y.box \subseteq W
      /\ \A t \in W : t \in y.seen <=> t \in x.disk
  BY <1>3, <1>4
<1>9. Observed(x, h, W, y)
  BY <1>5, <1>7, <1>8 DEF Observed
<1> QED  BY <1>9 DEF y

\* Replica t is even with the hub, or one of the two was last seen different from its
\* row: a later tick or catch-up has something to do.
Accounted(x, h, t) ==
  Even(x, h, t) \/ ~((t \in x.seen <=> t \in x.row) /\ (h \in x.seen <=> h \in x.row))

\* A tick keeps account of every watched replica.
LEMMA TickAccounts ==
  ASSUME NEW Q, Order \in Seq(Q), NEW D, NEW R \in SUBSET D, NEW h \in R, NEW x \in Item(D, R, h),
         NEW W \in SUBSET R, W \subseteq {Order[n] : n \in 1 .. Len(Order)}, h \in W,
         NEW t \in W, t # h, Accounted(x, h, t)
  PROVE  Accounted(Tick(x, h, W), h, t)
<1> DEFINE y == Observe(x, h, W)
           z == Tick(x, h, W)
<1>1. Observed(x, h, W, y)
  BY ItemFields, ObserveAt
<1>2. y \in Item(D, R, h)
  BY ObserveType
<1>3. z = Apply(y, h, W)
  BY DEF Tick
<1>4. y.box \subseteq {Order[n] : n \in 1 .. Len(Order)}
  BY <1>1 DEF Observed
<1> HIDE DEF y
<1>5. EvenOrWaiting(y, h, W, z)
  <2>1. EvenOrWaiting(y, h, W, Apply(y, h, W))
    BY <1>2, <1>4, ApplyEvens
  <2> QED  BY <1>3, <2>1
<1> HIDE DEF z
<1>6. CASE Even(z, h, t)
  BY <1>6 DEF Accounted, z
<1>7. CASE Alike(y, t, z) /\ Alike(y, h, z) /\ t \notin y.box /\ h \notin y.box
  <2>1. h \notin x.oos
    BY DEF Item
  <2>2. /\ t \in y.seen <=> t \in x.disk
        /\ h \in y.seen <=> h \in x.disk
        /\ Rejoined(x, h, t, y) \/ Scanned(x, t, y)
        /\ Rejoined(x, h, h, y) \/ Scanned(x, h, y)
    BY <1>1 DEF Observed
  <2>3. (h \in y.row <=> h \in x.row) /\ (h \in x.disk <=> h \in x.seen)
    BY <1>7, <2>1, <2>2 DEF Rejoined, Scanned
  <2>4. CASE Rejoined(x, h, t, y)
    <3>1. (t \in y.row <=> h \in x.disk)
      BY <2>4 DEF Rejoined
    <3> QED  BY <1>7, <2>2, <2>3, <3>1 DEF Accounted, Even, Alike, z
  <2>5. CASE Scanned(x, t, y)
    <3>1. /\ (t \in y.row <=> t \in x.row) /\ (t \in y.oos <=> t \in x.oos)
          /\ (t \in x.disk <=> t \in x.seen) \/ t \in x.oos
      BY <1>7, <2>5 DEF Scanned
    <3> QED  BY <1>7, <2>2, <2>3, <3>1 DEF Accounted, Even, Alike, z
  <2> QED  BY <2>2, <2>4, <2>5
<1> QED  BY <1>5, <1>6, <1>7 DEF EvenOrWaiting

\* After a tick the last scan shows the disk of every watched root.
LEMMA TickSees ==
  ASSUME NEW Q, Order \in Seq(Q), NEW D, NEW R \in SUBSET D, NEW h \in R, NEW x \in Item(D, R, h),
         NEW W \in SUBSET R
  PROVE  \A t \in W : t \in Tick(x, h, W).seen <=> t \in Tick(x, h, W).disk
<1> DEFINE y == Observe(x, h, W)
<1>1. Observed(x, h, W, y)
  BY ItemFields, ObserveAt
<1>2. y \in Item(D, R, h)
  BY ObserveType
<1>3. Tick(x, h, W) = Apply(y, h, W)
  BY DEF Tick
<1> HIDE DEF y
<1>4. \A t \in W : t \in y.seen <=> t \in y.disk
  BY <1>1 DEF Observed
<1> QED  BY <1>2, <1>3, <1>4, ApplySees

\* A round of an apply does nothing to a root that is not watched and has no change
\* of its own, unless the root is isolated.
LEMMA RoundOutside ==
  ASSUME NEW D, NEW R, NEW h, NEW x, NEW W, W = {} \/ h \in W, NEW n,
         NEW y \in Item(D, R, h), y.box \subseteq W, NEW t, t \notin W, t \notin x.oos, Alike(x, t, y)
  PROVE  Alike(x, t, Round(x, h, W, n, y)) /\ Round(x, h, W, n, y).box \subseteq W
<1> DEFINE r == Rounds[n]
           z == Round(x, h, W, n, y)
<1>1. Rounded(x, h, W, r, y, z)
  BY RoundIs
<1> HIDE DEF r, z
<1> SUFFICES Alike(x, t, z) /\ z.box \subseteq W
  BY DEF z
<1>2. CASE z = y
  BY <1>2
<1>3. CASE r \in y.box /\ (Skipped(y, r, z) \/ Isolated(y, r, z))
  BY <1>3 DEF Skipped, Isolated, Alike
<1>4. ASSUME NEW w, NEW old \in BOOLEAN, NEW new \in BOOLEAN, FannedOut(w, h, r, W, old, new, z),
             r \in y.box, w.box = y.box \ {r},
             \/ r = h /\ HubRecorded(y, h, old, new, w)
             \/ DeleteRecorded(y, h, r, old, new, w)
             \/ CreateRecorded(y, h, r, old, new, w)
      PROVE  Alike(x, t, z) /\ z.box \subseteq W
  <2>1. t # h /\ t # r /\ t \notin y.oos
    BY <1>4 DEF Alike
  <2>2. Alike(y, t, w)
    BY <1>4, <2>1 DEF HubRecorded, DeleteRecorded, CreateRecorded, Put, Alike
  <2>3. t \notin w.oos /\ ~InReach(w, h, r, W, t)
    BY <2>1, <2>2 DEF Alike, InReach
  <2>4. Alike(w, t, z) /\ z.box = w.box
    BY <1>4, <2>3 DEF FannedOut
  <2> QED  BY <1>4, <2>2, <2>4 DEF Alike
<1> QED  BY <1>1, <1>2, <1>3, <1>4 DEF Rounded

\* Nor does a tick.
LEMMA TickOutside ==
  ASSUME NEW Q, Order \in Seq(Q), NEW D, NEW R \in SUBSET D, NEW h \in R, NEW x \in Item(D, R, h),
         NEW W \in SUBSET R, W = {} \/ h \in W, NEW t, t \notin W, t \notin x.oos
  PROVE  Alike(x, t, Tick(x, h, W))
<1> DEFINE y == Observe(x, h, W)
<1>1. Observed(x, h, W, y)
  BY ItemFields, ObserveAt
<1>2. y \in Item(D, R, h)
  BY ObserveType
<1>3. Tick(x, h, W) = Apply(y, h, W)
  BY DEF Tick
<1> HIDE DEF y
<1>4. Alike(x, t, y) /\ y.box \subseteq W
  BY <1>1 DEF Observed
<1>5. t \notin y.oos
  BY <1>4 DEF Alike
<1> DEFINE S == {w \in Item(D, R, h) : Alike(y, t, w) /\ w.box \subseteq W}
<1>6. y \in S
  BY <1>2, <1>4 DEF Alike
<1>7. ASSUME NEW n \in 1 .. Len(Rounds), NEW w \in S
      PROVE  Round(y, h, W, n, w) \in S
  <2>1. Round(y, h, W, n, w) \in Item(D, R, h)
    BY RoundType
  <2>2. Alike(y, t, Round(y, h, W, n, w)) /\ Round(y, h, W, n, w).box \subseteq W
    BY <1>5, RoundOutside
  <2> QED  BY <2>1, <2>2
<1>8. Apply(y, h, W) \in S
  BY <1>6, <1>7, ApplyInduct
<1> QED  BY <1>3, <1>4, <1>8 DEF Alike

-----------------------------------------------------------------------------
\* Catch-ups keep account

\* What a seed makes of x: nothing, or copies at some of the targets without a row.
FromSeed(x, h, T, y) ==
  \/ y = x
  \/ \E new :
       /\ h \in x.disk /\ new \subseteq T /\ T \subseteq x.row \cup new
       /\ y.disk = x.disk \cup new /\ y.oos = x.oos
       /\ y.row = x.row \cup new \cup {h} /\ y.seen = x.seen \cup new \cup {h}

\* So it is with every seed.
LEMMA SeedAt ==
  ASSUME NEW x, Fields(x), NEW h, NEW T
  PROVE  FromSeed(x, h, T, Seed(x, h, T))
<1> DEFINE new == {t \in T : t \notin x.row}
           d == x.disk \cup new
           y == [x EXCEPT !.disk = d]
           z == Seed(x, h, T)
<1>1. z = x \/ (h \in x.disk /\ z = Record(y, new \cup {h}, TRUE))
  BY DEF Seed
<1>2. new \subseteq T /\ T \subseteq x.row \cup new
  OBVIOUS
<1>3. y = [disk |-> d, row |-> x.row, seen |-> x.seen, oos |-> x.oos, box |-> x.box,
           gone |-> x.gone]
  BY DEF Fields
<1> HIDE DEF new, d, y, z
<1>4. Fields(y)
  BY <1>3 DEF Fields
<1>5. Record(y, new \cup {h}, TRUE) =
        [disk |-> y.disk, row |-> Put(y.row, new \cup {h}, TRUE),
         seen |-> Put(y.seen, new \cup {h}, TRUE), oos |-> y.oos, box |-> y.box, gone |-> y.gone]
  BY <1>4, RecordIs
<1>6. CASE h \in x.disk /\ z = Record(y, new \cup {h}, TRUE)
  <2>1. /\ z.disk = d /\ z.oos = x.oos
        /\ z.row = Put(x.row, new \cup {h}, TRUE) /\ z.seen = Put(x.seen, new \cup {h}, TRUE)
    <3>1. y.disk = d /\ y.row = x.row /\ y.seen = x.seen /\ y.oos = x.oos
      BY <1>3
    <3>2. z = [disk |-> y.disk, row |-> Put(y.row, new \cup {h}, TRUE),
               seen |-> Put(y.seen, new \cup {h}, TRUE), oos |-> y.oos, box |-> y.box,
               gone |-> y.gone]
      BY <1>5, <1>6
    <3> QED  BY <3>1, <3>2
  <2>2. /\ z.disk = x.disk \cup new /\ z.oos = x.oos
        /\ z.row = x.row \cup new \cup {h} /\ z.seen = x.seen \cup new \cup {h}
    BY <2>1 DEF Put, d
  <2> QED  BY <1>2, <1>6, <2>2 DEF FromSeed, z
<1> QED  BY <1>1, <1>6 DEF FromSeed, z

\* What an install of the targets T makes of x.
BuiltFrom(x, h, T, recorded, y) ==
  /\ y.oos = x.oos
  /\ \A t : t \notin T => Alike(x, t, y)
  /\ \A t \in T : t \in y.disk <=> h \in x.disk
  /\ h \in x.disk \/ recorded =>
       \A t \in T : (t \in y.row <=> h \in x.disk) /\ (t \in y.seen <=> h \in x.disk)
  /\ ~(h \in x.disk \/ recorded) => \A t \in T : t \in y.row <=> t \in x.row

\* So it is with every install.
LEMMA InstallAt ==
  ASSUME NEW x, Fields(x), NEW h, NEW T, NEW recorded \in BOOLEAN
  PROVE  BuiltFrom(x, h, T, recorded, InstallFresh(x, h, T, recorded))
<1> DEFINE d == Put(x.disk, T, h \in x.disk)
           y == [x EXCEPT !.disk = d]
           z == InstallFresh(x, h, T, recorded)
<1>1. z = IF h \in x.disk \/ recorded THEN RecordDisk(y, T) ELSE y
  BY DEF InstallFresh
<1>2. \A t : t \in d <=> IF t \in T THEN h \in x.disk ELSE t \in x.disk
  BY DEF Put
<1> HIDE DEF d, z
<1>3. y = [disk |-> d, row |-> x.row, seen |-> x.seen, oos |-> x.oos, box |-> x.box,
           gone |-> x.gone]
  BY DEF Fields
<1> HIDE DEF y
<1>4. Fields(y)
  BY <1>3 DEF Fields
<1>5. RecordDisk(y, T) = [disk |-> y.disk, row  |-> (y.row \ T) \cup (T \cap y.disk),
                          seen |-> (y.seen \ T) \cup (T \cap y.disk),
                          oos |-> y.oos, box |-> y.box, gone |-> y.gone]
  BY <1>4, RecordDiskIs
<1>6. CASE h \in x.disk \/ recorded
  <2>1. /\ z.disk = d /\ z.row = (x.row \ T) \cup (T \cap d)
        /\ z.seen = (x.seen \ T) \cup (T \cap d) /\ z.oos = x.oos
    BY <1>1, <1>3, <1>5, <1>6
  <2>2. BuiltFrom(x, h, T, recorded, z)
    BY <1>2, <1>6, <2>1 DEF BuiltFrom, Alike
  <2> QED  BY <2>2 DEF z
<1>7. CASE ~(h \in x.disk \/ recorded)
  <2>1. z.disk = d /\ z.row = x.row /\ z.seen = x.seen /\ z.oos = x.oos
    BY <1>1, <1>3, <1>7
  <2>2. BuiltFrom(x, h, T, recorded, z)
    BY <1>2, <1>7, <2>1 DEF BuiltFrom, Alike
  <2> QED  BY <2>2 DEF z
<1> QED  BY <1>6, <1>7

\* Target t is a mismatch nobody made since the rows: apply_frozen_mismatches takes it.
Frozen(x, h, t) ==
  /\ ~(t \in x.disk <=> h \in x.disk)
  /\ ~(t \in x.oos /\ (h \in x.disk \/ x.gone))
  /\ h \in x.disk <=> h \in x.row
  /\ t \in x.disk <=> t \in x.row

\* x with the mismatches of T pending.
Thawed(x, h, T, y) ==
  /\ y.disk = x.disk /\ y.row = x.row /\ y.seen = x.seen
  /\ y.oos = x.oos \ y.box
  /\ y.box \subseteq T /\ \A t \in T : t \in y.box <=> Frozen(x, h, t)

\* z is an apply of such an item.
AppliesThawed(D, R, h, x, T, z) ==
  \E y \in Item(D, R, h) : Thawed(x, h, T, y) /\ z = Apply(y, h, T \cup {h})

\* So is every thaw.
LEMMA UnfreezeAt ==
  ASSUME NEW D, NEW R \in SUBSET D, NEW h, NEW x \in Item(D, R, h), NEW T \in SUBSET R
  PROVE  AppliesThawed(D, R, h, x, T, Unfreeze(x, h, T))
<1> DEFINE frozen == {t \in T :
                   /\ (t \in x.disk) # (h \in x.disk)
                   /\ ~(t \in x.oos /\ (h \in x.disk \/ x.gone))
                   /\ (h \in x.disk) = (h \in x.row)
                   /\ (t \in x.disk) = (t \in x.row)}
           y == [x EXCEPT !.oos = @ \ frozen, !.box = frozen]
<1>1. Unfreeze(x, h, T) = Apply(y, h, T \cup {h})
  BY DEF Unfreeze
<1>2. frozen \subseteq T /\ \A t \in T : t \in frozen <=> Frozen(x, h, t)
  BY DEF Frozen
<1> HIDE DEF frozen
<1>3. /\ y \in Item(D, R, h)
      /\ y.disk = x.disk /\ y.row = x.row /\ y.seen = x.seen /\ y.oos = x.oos \ frozen
      /\ y.box = frozen
  BY <1>2 DEF Item
<1> HIDE DEF y
<1>4. Thawed(x, h, T, y)
  BY <1>2, <1>3 DEF Thawed
<1> QED  BY <1>1, <1>3, <1>4 DEF AppliesThawed

\* It leaves every target even, or as it was and no mismatch.
EvenOrThawed(x, h, T, z) == \A t \in T :
  Even(z, h, t) \/ (Alike(x, t, z) /\ Alike(x, h, z) /\ ~Frozen(x, h, t))

\* So does every thaw of ordered targets.
LEMMA UnfreezeEvens ==
  ASSUME NEW Q, Order \in Seq(Q), NEW D, NEW R \in SUBSET D, NEW h \in R, NEW x \in Item(D, R, h),
         NEW T \in SUBSET R, h \notin T, T \subseteq {Order[n] : n \in 1 .. Len(Order)}
  PROVE  EvenOrThawed(x, h, T, Unfreeze(x, h, T))
<1> DEFINE z == Unfreeze(x, h, T)
<1>0. AppliesThawed(D, R, h, x, T, z)
  BY UnfreezeAt
<1> HIDE DEF z
<1>1. PICK y \in Item(D, R, h) : Thawed(x, h, T, y) /\ z = Apply(y, h, T \cup {h})
  BY <1>0 DEF AppliesThawed
<1>2. T \cup {h} \in SUBSET R /\ y.box \subseteq {Order[n] : n \in 1 .. Len(Order)}
  BY <1>1 DEF Thawed
<1>3. EvenOrWaiting(y, h, T \cup {h}, Apply(y, h, T \cup {h}))
  BY <1>2, ApplyEvens
<1>4. EvenOrWaiting(y, h, T \cup {h}, z)
  BY <1>1, <1>3
<1>5. ASSUME NEW t \in T, ~Even(z, h, t)
      PROVE  Alike(x, t, z) /\ Alike(x, h, z) /\ ~Frozen(x, h, t)
  <2>1. Alike(y, t, z) /\ Alike(y, h, z) /\ t \notin y.box /\ h \notin y.box
    BY <1>4, <1>5 DEF EvenOrWaiting
  <2> QED  BY <1>1, <2>1 DEF Thawed, Alike
<1> QED  BY <1>5 DEF EvenOrThawed, z

\* What a tick makes of an item whose rows are what was last seen.
Settles(h, W, z) ==
  /\ z.oos \subseteq z.row
  /\ h \in z.row <=> h \in z.disk
  /\ \A t \in W \ {h} : Even(z, h, t) \/ (t \in z.row <=> t \in z.disk)

\* Every tick of such an item settles it.
LEMMA TickSettles ==
  ASSUME NEW Q, Order \in Seq(Q), NEW D, NEW R \in SUBSET D, NEW h \in R, NEW x \in Item(D, R, h),
         NEW W \in SUBSET R, W \subseteq {Order[n] : n \in 1 .. Len(Order)}, h \in W,
         x.seen = x.row, x.oos \subseteq x.row
  PROVE  Settles(h, W, Tick(x, h, W))
<1> DEFINE y == Observe(x, h, W)
           z == Tick(x, h, W)
<1>1. Observed(x, h, W, y)
  BY ItemFields, ObserveAt
<1>2. y \in Item(D, R, h)
  BY ObserveType
<1>3. z = Apply(y, h, W)
  BY DEF Tick
<1>4. y.box \subseteq {Order[n] : n \in 1 .. Len(Order)}
  BY <1>1 DEF Observed
<1>5. h \notin x.oos
  BY DEF Item
<1> HIDE DEF y
<1>6. EvenOrWaiting(y, h, W, z)
  <2>1. EvenOrWaiting(y, h, W, Apply(y, h, W))
    BY <1>2, <1>4, ApplyEvens
  <2> QED  BY <1>3, <2>1
<1>7. Rowed(y, h, W, y)
  <2>1. ASSUME NEW t, t \in y.oos PROVE t \in y.row
    BY <1>1, <2>1 DEF Observed, Rejoined, Scanned, Alike
  <2>2. Scanned(x, h, y)
    BY <1>1, <1>5 DEF Observed, Rejoined
  <2>3. /\ h \notin y.box => (h \in y.row <=> h \in y.disk)
        /\ h \in y.box => ~(h \in y.row <=> h \in y.disk)
    BY <1>1, <1>5, <2>2 DEF Observed, Scanned
  <2>4. ASSUME NEW t, t \in y.box, t \in y.oos PROVE t \notin y.disk
    <3>1. t \in W
      BY <1>1, <2>4 DEF Observed
    <3>2. Scanned(x, t, y)
      BY <1>1, <2>4, <3>1 DEF Observed, Rejoined
    <3> QED  BY <1>1, <2>4, <3>2 DEF Observed, Scanned
  <2> QED  BY <2>1, <2>3, <2>4 DEF Rowed
<1>8. z.oos \subseteq z.row /\ (h \in z.row <=> h \in z.disk)
  <2>1. Apply(y, h, W).oos \subseteq Apply(y, h, W).row
        /\ (h \in Apply(y, h, W).row <=> h \in Apply(y, h, W).disk)
    BY <1>2, <1>4, <1>7, ApplyRowed
  <2> QED  BY <1>3, <2>1
<1> HIDE DEF z
<1>9. ASSUME NEW t \in W \ {h}, ~Even(z, h, t) PROVE t \in z.row <=> t \in z.disk
  <2>1. Alike(y, t, z) /\ t \notin y.box
    BY <1>6, <1>9 DEF EvenOrWaiting
  <2>2. t \in y.row <=> t \in y.disk
    <3>1. CASE Rejoined(x, h, t, y)
      BY <1>1, <3>1 DEF Rejoined, Observed
    <3>2. CASE Scanned(x, t, y)
      BY <1>1, <2>1, <3>2 DEF Scanned, Observed
    <3> QED  BY <1>1, <3>1, <3>2 DEF Observed
  <2> QED  BY <2>1, <2>2 DEF Alike
<1> QED  BY <1>8, <1>9 DEF Settles, z

\* The parts of a catch-up: what is seeded, ticked, installed.
SeededOf(x, h, T, fresh) == Seed(x, h, T \ fresh)
TickedOf(x, h, T, fresh) == Tick(SeededOf(x, h, T, fresh), h, (T \ fresh) \cup {h})
InstalledOf(x, h, T, fresh) ==
  InstallFresh(TickedOf(x, h, T, fresh), h, T \cap fresh, h \in SeededOf(x, h, T, fresh).row)

\* They are items, and what is said of each part alone is so of them.
CatchUpParts(D, R, x, h, T, fresh, y, z, full) ==
  /\ y \in Item(D, R, h) /\ z \in Item(D, R, h) /\ full \in Item(D, R, h)
  /\ FromSeed(x, h, T \ fresh, y)
  /\ BuiltFrom(z, h, T \cap fresh, h \in y.row, full)
  /\ \A t \in (T \ fresh) \cup {h} : t \in z.seen <=> t \in z.disk
  /\ \A t \in T \cap fresh : t \notin y.oos => Alike(y, t, z)

\* Every catch-up has such parts.
LEMMA CatchUpInParts ==
  ASSUME NEW Q, Order \in Seq(Q), NEW D, NEW R \in SUBSET D, NEW h \in R, NEW x \in Item(D, R, h),
         NEW T \in SUBSET R, h \notin T, NEW fresh
  PROVE  CatchUpParts(D, R, x, h, T, fresh, SeededOf(x, h, T, fresh), TickedOf(x, h, T, fresh),
                      InstalledOf(x, h, T, fresh))
<1> DEFINE y == SeededOf(x, h, T, fresh)
           W == (T \ fresh) \cup {h}
           z == TickedOf(x, h, T, fresh)
           recorded == h \in y.row
           full == InstalledOf(x, h, T, fresh)
<1>2. y = Seed(x, h, T \ fresh) /\ z = Tick(y, h, W)
  BY DEF SeededOf, TickedOf
<1>3. full = InstallFresh(z, h, T \cap fresh, recorded)
  BY DEF InstalledOf
<1>4. W \in SUBSET R /\ h \in W /\ T \cap fresh \in SUBSET R /\ recorded \in BOOLEAN
  OBVIOUS
<1>5. \A t \in T \cap fresh : t \notin W
  OBVIOUS
<1> HIDE DEF y, z, full, recorded
<1>6. y \in Item(D, R, h) /\ FromSeed(x, h, T \ fresh, y)
  BY <1>2, SeedType, SeedAt, ItemFields
<1> HIDE DEF W
<1>7. z \in Item(D, R, h)
  BY <1>2, <1>4, <1>6, TickType
<1>8. \A t \in W : t \in z.seen <=> t \in z.disk
  <2>1. \A t \in W : t \in Tick(y, h, W).seen <=> t \in Tick(y, h, W).disk
    BY <1>4, <1>6, TickSees
  <2> QED  BY <1>2, <2>1
<1>9. ASSUME NEW t \in T \cap fresh, t \notin y.oos PROVE Alike(y, t, z)
  BY <1>2, <1>4, <1>5, <1>6, <1>9, TickOutside
<1>10. full \in Item(D, R, h)
  BY <1>3, <1>4, <1>7, InstallType
<1>11. BuiltFrom(z, h, T \cap fresh, recorded, full)
  BY <1>3, <1>4, <1>7, InstallAt, ItemFields
<1>12. CatchUpParts(D, R, x, h, T, fresh, y, z, full)
  BY <1>6, <1>7, <1>8, <1>9, <1>10, <1>11 DEF CatchUpParts, W, recorded
<1> QED  BY <1>12 DEF y, z, full

\* All of the targets T are accounted for.
AccountedFor(h, T, z) == \A t \in T : Accounted(z, h, t)

\* A catch-up accounts for every target, when nothing is known of those that have no
\* tree.
THEOREM CatchUpAccounts ==
  ASSUME NEW Q, Order \in Seq(Q), NEW D, NEW R \in SUBSET D, NEW h \in R, NEW x \in Item(D, R, h),
         NEW T \in SUBSET R, h \notin T, T \subseteq {Order[n] : n \in 1 .. Len(Order)},
         NEW fresh, fresh \cap (x.row \cup x.oos) = {}
  PROVE  AccountedFor(h, T, CatchUpUpdate(x, h, T, fresh))
<1> DEFINE y == SeededOf(x, h, T, fresh)
           z == TickedOf(x, h, T, fresh)
           full == InstalledOf(x, h, T, fresh)
           end == CatchUpUpdate(x, h, T, fresh)
<1>1. end = Unfreeze(full, h, T)
  BY DEF CatchUpUpdate, SeededOf, TickedOf, InstalledOf
<1>2. CatchUpParts(D, R, x, h, T, fresh, y, z, full)
  BY CatchUpInParts
<1> HIDE DEF y, z, full, end
<1>3. EvenOrThawed(full, h, T, end)
  BY <1>1, <1>2, UnfreezeEvens DEF CatchUpParts
<1> SUFFICES ASSUME NEW t \in T, ~Even(end, h, t),
                    t \in end.seen <=> t \in end.row, h \in end.seen <=> h \in end.row
             PROVE  FALSE
  BY DEF AccountedFor, Accounted, end
<1>4. /\ ~Frozen(full, h, t) /\ ~(t \in full.row <=> h \in full.row) /\ t \notin full.oos
      /\ t \in full.seen <=> t \in full.row
      /\ h \in full.seen <=> h \in full.row
  BY <1>3 DEF EvenOrThawed, Alike, Even
<1>5. h \in full.seen <=> h \in full.disk
  <2>1. Alike(z, h, full) /\ (h \in z.seen <=> h \in z.disk)
    BY <1>2 DEF CatchUpParts, BuiltFrom
  <2> QED  BY <2>1 DEF Alike
<1>6. CASE t \in full.seen <=> t \in full.disk
  BY <1>4, <1>5, <1>6 DEF Frozen
<1>7. CASE t \notin fresh
  <2>1. Alike(z, t, full) /\ (t \in z.seen <=> t \in z.disk)
    BY <1>2, <1>7 DEF CatchUpParts, BuiltFrom
  <2> QED  BY <1>6, <2>1 DEF Alike
<1>8. CASE t \in fresh /\ (h \in z.disk \/ h \in y.row)
  BY <1>2, <1>6, <1>8 DEF CatchUpParts, BuiltFrom
<1>9. CASE t \in fresh /\ ~(h \in z.disk \/ h \in y.row)
  <2>1. t \notin y.row /\ t \notin y.oos
    BY <1>2, <1>9 DEF CatchUpParts, FromSeed
  <2>2. Alike(y, t, z)
    BY <1>2, <1>9, <2>1 DEF CatchUpParts
  <2>3. t \notin full.row /\ h \notin full.disk
    BY <1>2, <1>9, <2>1, <2>2 DEF CatchUpParts, BuiltFrom, Alike
  <2> QED  BY <1>4, <1>5, <2>3
<1> QED  BY <1>7, <1>8, <1>9

\* All of the targets T are even, and whoever is isolated has a row.
AllEven(h, T, z) == z.oos \subseteq z.row /\ \A t \in T : Even(z, h, t)

\* A catch-up from trees, in which what was last seen is what the rows say, leaves all
\* targets even, and a row for each that is isolated.
THEOREM CatchUpEvens ==
  ASSUME NEW Q, Order \in Seq(Q), NEW D, NEW R \in SUBSET D, NEW h \in R, NEW x \in Item(D, R, h),
         NEW T \in SUBSET R, h \notin T, T \cup {h} \subseteq {Order[n] : n \in 1 .. Len(Order)},
         NEW fresh, fresh \cap x.row = {}, x.seen = x.row, x.oos \subseteq x.row
  PROVE  AllEven(h, T, CatchUpUpdate(x, h, T, fresh))
<1> DEFINE y == SeededOf(x, h, T, fresh)
           W == (T \ fresh) \cup {h}
           z == TickedOf(x, h, T, fresh)
           full == InstalledOf(x, h, T, fresh)
           end == CatchUpUpdate(x, h, T, fresh)
<1>1. end = Unfreeze(full, h, T)
  BY DEF CatchUpUpdate, SeededOf, TickedOf, InstalledOf
<1>2. CatchUpParts(D, R, x, h, T, fresh, y, z, full)
  BY CatchUpInParts
<1>3. z = Tick(y, h, W)
  BY DEF TickedOf
<1>4. W \in SUBSET R /\ h \in W /\ W \subseteq {Order[n] : n \in 1 .. Len(Order)}
  OBVIOUS
<1> HIDE DEF y, z, full, end
<1>5. y.seen = y.row /\ y.oos \subseteq y.row
  BY <1>2 DEF CatchUpParts, FromSeed
<1>6. Settles(h, W, z)
  BY <1>2, <1>3, <1>4, <1>5, TickSettles DEF CatchUpParts
<1>7. \A t \in T \cap fresh : (t \notin z.row /\ t \notin z.oos) \/ t \in y.row
  BY <1>2, <1>5 DEF CatchUpParts, Alike
<1>8. \A t \in T \cap fresh : t \notin z.row /\ t \notin z.oos
  <2>1. \A t \in T \cap fresh : t \notin y.row
    BY <1>2 DEF CatchUpParts, FromSeed
  <2> QED  BY <1>7, <2>1
<1>9. Settles(h, T, full)
  <2>1. full.oos \subseteq full.row
    BY <1>2, <1>6, <1>8 DEF CatchUpParts, BuiltFrom, Settles, Alike
  <2>2. /\ h \in full.row <=> h \in full.disk
        /\ h \in full.row <=> h \in z.row
        /\ h \in full.disk <=> h \in z.disk
    BY <1>2, <1>6 DEF CatchUpParts, BuiltFrom, Settles, Alike
  <2>3. ASSUME NEW t \in T PROVE Even(full, h, t) \/ (t \in full.row <=> t \in full.disk)
    <3>1. CASE t \notin fresh
      <4>1. Alike(z, t, full) /\ t \in W \ {h}
        BY <1>2, <3>1 DEF CatchUpParts, BuiltFrom, W
      <4> QED  BY <1>6, <2>2, <4>1 DEF Settles, Even, Alike
    <3>2. CASE t \in fresh
      BY <1>2, <1>6, <1>8, <2>2, <3>2 DEF CatchUpParts, BuiltFrom, Settles, Even
    <3> QED  BY <3>1, <3>2
  <2> QED  BY <2>1, <2>2, <2>3 DEF Settles
<1>10. EvenOrThawed(full, h, T, end)
  BY <1>1, <1>2, UnfreezeEvens DEF CatchUpParts
<1>11. ASSUME NEW t \in T PROVE Even(end, h, t)
  BY <1>9, <1>10 DEF EvenOrThawed, Settles, Even, Frozen, Alike
<1>12. end.oos \subseteq end.row
  <2>1. AppliesThawed(D, R, h, full, T, end)
    BY <1>1, <1>2, UnfreezeAt DEF CatchUpParts
  <2>2. PICK w \in Item(D, R, h) : Thawed(full, h, T, w) /\ end = Apply(w, h, T \cup {h})
    BY <2>1 DEF AppliesThawed
  <2>3. T \cup {h} \in SUBSET R /\ w.box \subseteq {Order[n] : n \in 1 .. Len(Order)}
    BY <2>2 DEF Thawed
  <2>4. Rowed(w, h, T \cup {h}, w)
    BY <1>9, <2>2 DEF Thawed, Rowed, Settles
  <2>5. Apply(w, h, T \cup {h}).oos \subseteq Apply(w, h, T \cup {h}).row
    BY <2>3, <2>4, ApplyRowed
  <2> QED  BY <2>2, <2>5
<1> QED  BY <1>11, <1>12 DEF AllEven, end

\* What a tick records is of roots that had a row, are isolated, or are watched.
LEMMA TickNear ==
  ASSUME NEW Q, Order \in Seq(Q), NEW D, NEW R \in SUBSET D, NEW h \in R, NEW x \in Item(D, R, h),
         NEW W \in SUBSET R, W = {} \/ h \in W
  PROVE  Tick(x, h, W).row \cup Tick(x, h, W).oos \subseteq x.row \cup x.oos \cup W
<1> DEFINE y == Tick(x, h, W)
<1>1. ASSUME NEW t, t \notin W, t \notin x.oos PROVE Alike(x, t, y)
  BY <1>1, TickOutside
<1> HIDE DEF y
<1>2. y.row \cup y.oos \subseteq x.row \cup x.oos \cup W
  BY <1>1 DEF Alike
<1> QED  BY <1>2 DEF y

\* So is what a catch-up records.
LEMMA CatchUpNear ==
  ASSUME NEW Q, Order \in Seq(Q), NEW D, NEW h \in D, NEW x \in Item(D, D, h), x.box = {},
         NEW T \in SUBSET D, NEW fresh, x.seen \subseteq x.row \cup T \cup {h}
  PROVE  CatchUpUpdate(x, h, T, fresh).row \cup CatchUpUpdate(x, h, T, fresh).oos
           \subseteq x.row \cup x.oos \cup T \cup {h}
<1> DEFINE R == x.row \cup x.oos \cup T \cup {h}
           y == CatchUpUpdate(x, h, T, fresh)
<1>1. R \in SUBSET D /\ h \in R /\ T \in SUBSET R
  BY DEF Item
<1>2. x \in Item(D, R, h)
  BY <1>1 DEF Item
<1> HIDE DEF R
<1>3. y \in Item(D, R, h)
  BY <1>1, <1>2, CatchUpType
<1> HIDE DEF y
<1>4. y.row \cup y.oos \subseteq R
  BY <1>3 DEF Item
<1> QED  BY <1>4 DEF y, R
=============================================================================
