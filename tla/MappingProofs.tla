---------------------------- MODULE MappingProofs ----------------------------
(***************************************************************************)
(* What module Mapping promises of `revlink create` and `revlink restore`  *)
(* together, for any number of mappings of any length: the one undoes the  *)
(* other.                                                                  *)
(***************************************************************************)
EXTENDS Mapping, TLAPS

\* The place where an appended path is found, when it was nowhere before, is the last.
LEMMA FoundLast ==
  ASSUME NEW m \in Mappings, NEW path, ~m.all, ~Lists(m, path)
  PROVE  LET d == [m EXCEPT !.subpaths = Append(@, path)]
         IN  /\ Lists(d, path)
             /\ (CHOOSE j \in DOMAIN d.subpaths : d.subpaths[j] = path) = Len(m.subpaths) + 1
<1> DEFINE d == [m EXCEPT !.subpaths = Append(@, path)]
           n == Len(m.subpaths)
<1>1. m.subpaths \in Seq(Paths) /\ n \in Nat /\ DOMAIN m.subpaths = 1 .. n
  BY DEF Mappings
<1>2. d.all = m.all /\ d.subpaths = Append(m.subpaths, path)
  BY DEF Mappings
<1> HIDE DEF d
<1>3. /\ DOMAIN d.subpaths = 1 .. n + 1
      /\ d.subpaths[n + 1] = path
      /\ \A j \in 1 .. n : d.subpaths[j] = m.subpaths[j]
  BY <1>1, <1>2
<1>4. \A j \in 1 .. n : m.subpaths[j] # path
  BY <1>1 DEF Lists
<1>5. \A j \in DOMAIN d.subpaths : d.subpaths[j] = path <=> j = n + 1
  BY <1>1, <1>3, <1>4
<1>6. n + 1 \in DOMAIN d.subpaths
  BY <1>1, <1>3
<1>7. (CHOOSE j \in DOMAIN d.subpaths : d.subpaths[j] = path) = n + 1
  BY <1>5, <1>6
<1> QED  BY <1>2, <1>5, <1>6, <1>7 DEF Lists, d

\* A mapping that did not list the item is as it was after both.
LEMMA WithdrawnDeclared ==
  ASSUME NEW m \in Mappings, NEW path \in Paths, ~Lists(m, path)
  PROVE  Withdrawn(Declared(m, path), path) = m
<1>1. CASE m.all
  BY <1>1 DEF Declared, Withdrawn, Lists
<1>2. CASE ~m.all
  <2> DEFINE d == [m EXCEPT !.subpaths = Append(@, path)]
             n == Len(m.subpaths)
             k == CHOOSE j \in DOMAIN d.subpaths : d.subpaths[j] = path
  <2>1. Declared(m, path) = d
    BY <1>2 DEF Declared
  <2>2. Lists(d, path) /\ k = n + 1
    BY <1>2, FoundLast
  <2>3. m.subpaths \in Seq(Paths) /\ n \in Nat
    BY DEF Mappings
  <2>4. d.subpaths = Append(m.subpaths, path) /\ Len(d.subpaths) = n + 1
    BY <2>3 DEF Mappings
  <2>5. SubSeq(d.subpaths, 1, n) \o SubSeq(d.subpaths, n + 2, n + 1) = m.subpaths
    <3>1. SubSeq(d.subpaths, 1, n) = m.subpaths
      BY <2>3, <2>4
    <3>2. SubSeq(d.subpaths, n + 2, n + 1) = << >>
      BY <2>3, <2>4
    <3>3. m.subpaths \o << >> = m.subpaths
      BY <2>3
    <3> QED  BY <3>1, <3>2, <3>3
  <2>6. Withdrawn(d, path) =
          [d EXCEPT !.subpaths = SubSeq(@, 1, k - 1) \o SubSeq(@, k + 1, Len(@))]
    BY <2>2 DEF Withdrawn
  <2>7. Withdrawn(d, path) = [d EXCEPT !.subpaths = m.subpaths]
    <3> HIDE DEF k, d, n
    <3>1. k - 1 = n /\ k + 1 = n + 2
      BY <2>2, <2>3
    <3>2. Withdrawn(d, path) = [d EXCEPT !.subpaths = SubSeq(d.subpaths, 1, n) \o SubSeq(d.subpaths, n + 2, n + 1)]
      BY <2>4, <2>6, <3>1
    <3> QED  BY <2>5, <3>2
  <2>8. [d EXCEPT !.subpaths = m.subpaths] = m
    BY DEF Mappings
  <2> QED  BY <2>1, <2>7, <2>8
<1> QED  BY <1>1, <1>2

\* `revlink restore` is the inverse of `revlink create` (docs/cli-reference.md): an item
\* that no mapping of the project listed is created and restored, and every mapping is as
\* it was, those that map everything and those with an empty list included.
THEOREM RestoreUndoesCreate ==
  ASSUME NEW ms \in Seq(Mappings), NEW path \in Paths,
         \A i \in DOMAIN ms : ~Lists(ms[i], path)
  PROVE  AllWithdrawn(AllDeclared(ms, path), path) = ms
<1>1. \A i \in DOMAIN ms : Withdrawn(Declared(ms[i], path), path) = ms[i]
  BY WithdrawnDeclared
<1>2. AllWithdrawn(AllDeclared(ms, path), path) = [i \in DOMAIN ms |-> ms[i]]
  BY <1>1 DEF AllDeclared, AllWithdrawn
<1> QED  BY <1>2
==============================================================================
