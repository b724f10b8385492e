------------------------- MODULE PairedIndexProofs -------------------------
(***************************************************************************)
(* Theorems about PairedIndex, for any number of inserts, deletions,       *)
(* compactions, saves and reloads.                                         *)
(***************************************************************************)
EXTENDS PairedIndex, FiniteSetTheorems, TLAPS

-----------------------------------------------------------------------------
(* What an operation does to the ids of a side                             *)

IsSequence(q) == \E S : q \in Seq(S)

LEMMA AppendGrows ==
  ASSUME NEW q, IsSequence(q), NEW e
  PROVE  /\ IsSequence(Append(q, e))
         /\ DOMAIN Append(q, e) = DOMAIN q \union {Len(q) + 1}
         /\ DOMAIN q = 1..Len(q) /\ Len(q) \in Nat
         /\ Len(Append(q, e)) = Len(q) + 1
<1>1. PICK S : q \in Seq(S)
  BY DEF IsSequence
<1> DEFINE T == S \union {e}
<1>2. q \in Seq(T) /\ e \in T
  BY <1>1
<1> HIDE DEF T
<1>3. /\ Append(q, e) \in Seq(T) /\ Len(Append(q, e)) = Len(q) + 1
      /\ Len(q) \in Nat /\ DOMAIN q = 1..Len(q)
      /\ DOMAIN Append(q, e) = 1..(Len(q) + 1)
  BY <1>2
<1>4. \A n \in Nat : 1..(n + 1) = 1..n \union {n + 1}
  OBVIOUS
<1>5. QED
  BY <1>3, <1>4 DEF IsSequence

LEMMA EmptyIsSequence == IsSequence(<<>>) /\ DOMAIN <<>> = {}
  BY DEF IsSequence

LEMMA SurvivorsFinite ==
  ASSUME NEW s, IsSequence(s.items)
  PROVE  Cardinality(Survivors(s)) \in Nat
<1>1. PICK n \in Nat : DOMAIN s.items = 1..n
  BY DEF IsSequence
<1>2. IsFiniteSet(1..n)
  BY FS_Interval
<1>3. IsFiniteSet(Survivors(s))
  BY <1>1, <1>2, FS_Subset DEF Survivors
<1>4. QED
  BY <1>3, FS_CardinalityType

\* Compaction numbers the survivors densely.
LEMMA CompactedItems ==
  ASSUME NEW s, IsSequence(s.items)
  PROVE  /\ IsSequence(Compacted(s).items)
         /\ DOMAIN Compacted(s).items = 1..Cardinality(Survivors(s))
         /\ Compacted(s).dead = {} /\ Compacted(s).mapped = FALSE
         /\ Compacted(s).dim = IF Survivors(s) = {} THEN NoDim ELSE s.dim
<1> DEFINE n == Cardinality(Survivors(s))
           item(i) == s.items[OldIds(s)[i]]
           q == [i \in 1..n |-> item(i)]
           S == {item(i) : i \in 1..n}
<1>1. n \in Nat
  BY SurvivorsFinite
<1>2. Compacted(s) = [items |-> q, dead |-> {}, mapped |-> FALSE,
                      dim |-> IF Survivors(s) = {} THEN NoDim ELSE s.dim]
  BY DEF Compacted
<1> HIDE DEF n, item
<1>3. q \in [1..n -> S]
  OBVIOUS
<1>4. q \in Seq(S) /\ DOMAIN q = 1..n
  BY <1>1, <1>3
<1>5. /\ Compacted(s).items = q /\ Compacted(s).dead = {} /\ Compacted(s).mapped = FALSE
      /\ Compacted(s).dim = IF Survivors(s) = {} THEN NoDim ELSE s.dim
  BY <1>2
<1> HIDE DEF q, S
<1>6. IsSequence(Compacted(s).items)
  BY <1>4, <1>5 DEF IsSequence
<1>7. QED
  BY <1>4, <1>5, <1>6 DEF n

LEMMA EqualLengths ==
  ASSUME NEW p, NEW q, IsSequence(p), IsSequence(q), Len(p) = Len(q)
  PROVE  DOMAIN p = DOMAIN q
<1>1. DOMAIN p = 1..Len(p) /\ DOMAIN q = 1..Len(q)
  BY DEF IsSequence
<1>2. QED
  BY <1>1

-----------------------------------------------------------------------------
(* Side B may lack ids of side A, but has no tombstone side A lacks.       *)

Sequences ==
  /\ IsSequence(a.items) /\ IsSequence(b.items)
  /\ IsSequence(fileA.items) /\ IsSequence(fileB.items)

BWithinA ==
  /\ Sequences
  /\ DOMAIN b.items \subseteq DOMAIN a.items
  /\ b.dead \subseteq a.dead
  /\ writing = "sideA" => a.dead = {}

LEMMA InitBWithinA == PairInit => BWithinA
  BY EmptyIsSequence DEF PairInit, BWithinA, Sequences, EmptySide, NoFile, Idle

LEMMA InsertWithinA == ASSUME BWithinA, InsertPair PROVE BWithinA'
<1>1. PICK da \in Dims, db \in Dims :
        a' = Inserted(a, da) /\ b' = IF SideAccepts(b, db) THEN Inserted(b, db) ELSE b
  BY DEF InsertPair
<1>2. /\ a'.items = Append(a.items, inserts + 1) /\ a'.dead = a.dead
      /\ b'.items = IF SideAccepts(b, db) THEN Append(b.items, inserts + 1) ELSE b.items
      /\ b'.dead = b.dead
  BY <1>1 DEF Inserted
<1>3. /\ fileA' = fileA /\ fileB' = fileB /\ writing' = writing
  BY DEF InsertPair
<1>4. IsSequence(a.items) /\ IsSequence(b.items) /\ DOMAIN b.items \subseteq DOMAIN a.items
  BY DEF BWithinA, Sequences
<1>5. /\ IsSequence(a'.items) /\ IsSequence(Append(b.items, inserts + 1))
      /\ DOMAIN a'.items = DOMAIN a.items \union {Len(a.items) + 1}
      /\ DOMAIN Append(b.items, inserts + 1) = DOMAIN b.items \union {Len(b.items) + 1}
      /\ DOMAIN a.items = 1..Len(a.items) /\ Len(a.items) \in Nat
      /\ DOMAIN b.items = 1..Len(b.items) /\ Len(b.items) \in Nat
  BY <1>2, <1>4, AppendGrows
<1>6. Len(b.items) + 1 \in DOMAIN a.items \union {Len(a.items) + 1}
  <2>1. \A m, n \in Nat : 1..n \subseteq 1..m => n + 1 \in 1..m \union {m + 1}
    <3>1. SUFFICES ASSUME NEW m \in Nat, NEW n \in Nat, 1..n \subseteq 1..m
                   PROVE  n <= m
      OBVIOUS
    <3>2. CASE n = 0
      BY <3>2
    <3>3. CASE n > 0
      <4>1. n \in 1..n
        BY <3>3
      <4>2. QED
        BY <3>1, <4>1
    <3>4. QED
      BY <3>2, <3>3
  <2>2. QED
    BY <1>4, <1>5, <2>1
<1>7. DOMAIN b'.items \subseteq DOMAIN a'.items /\ IsSequence(b'.items)
  BY <1>2, <1>4, <1>5, <1>6
<1>8. QED
  BY <1>2, <1>3, <1>5, <1>7 DEF BWithinA, Sequences

\* Tombstones change on both sides; items do not.
LEMMA TombstonesWithinA ==
  ASSUME BWithinA, NEW id,
         RemoveBoth(id) \/ RestoreBoth(id),
         Idle, UNCHANGED <<fileA, fileB, writing>>
  PROVE  BWithinA'
<1>1. /\ a'.items = a.items /\ b'.items = b.items
      /\ b'.dead \subseteq a'.dead
  <2>1. CASE RemoveBoth(id)
    BY <2>1 DEF BWithinA, RemoveBoth, Removed, WithDead
  <2>2. CASE RestoreBoth(id)
    BY <2>2 DEF BWithinA, RestoreBoth, Restored, WithDead
  <2>3. QED
    BY <2>1, <2>2
<1>2. writing' = "idle" /\ fileA' = fileA /\ fileB' = fileB
  BY DEF Idle
<1>3. QED
  BY <1>1, <1>2 DEF BWithinA, Sequences

LEMMA CompactWithinA == ASSUME BWithinA, CompactPair PROVE BWithinA'
<1>1. /\ a' = Compacted(a) /\ b' = Compacted(b) /\ Survivors(a) = Survivors(b)
      /\ fileA' = fileA /\ fileB' = fileB /\ writing' = "idle"
  BY DEF CompactPair, Renumberable, Idle
<1>2. IsSequence(a.items) /\ IsSequence(b.items)
  BY DEF BWithinA, Sequences
<1>3. /\ IsSequence(a'.items) /\ IsSequence(b'.items) /\ a'.dead = {} /\ b'.dead = {}
      /\ DOMAIN a'.items = DOMAIN b'.items
  BY <1>1, <1>2, CompactedItems
<1>4. QED
  BY <1>1, <1>3 DEF BWithinA, Sequences

LEMMA SavingWithinA ==
  ASSUME BWithinA, SaveSideA \/ SaveSideB \/ EndSavePair
  PROVE  BWithinA'
<1>1. a' = a /\ b' = b
  BY DEF SaveSideA, SaveSideB, EndSavePair
<1>2. fileA' \in {fileA, Snapshot(a)} /\ fileB' \in {fileB, Snapshot(b)}
  BY DEF SaveSideA, SaveSideB, EndSavePair
<1>3. IsSequence(fileA'.items) /\ IsSequence(fileB'.items)
  BY <1>2 DEF BWithinA, Sequences, Snapshot
<1>4. writing' = "sideA" => a.dead = {}
  BY DEF SaveSideA, SaveSideB, EndSavePair, Idle
<1>5. QED
  BY <1>1, <1>3, <1>4 DEF BWithinA, Sequences

LEMMA InterruptWithinA == ASSUME BWithinA, InterruptSave PROVE BWithinA'
<1>1. /\ (a' = a /\ b' = b) \/ (a' = EmptySide /\ b' = EmptySide)
      /\ fileA' = fileA /\ fileB' = fileB /\ writing' = "idle"
  BY DEF InterruptSave
<1>2. QED
  BY <1>1, EmptyIsSequence DEF BWithinA, Sequences, EmptySide

LEMMA LoadWithinA == ASSUME BWithinA, LoadPair PROVE BWithinA'
<1>1. /\ a'.items = fileA.items /\ b'.items = fileB.items
      /\ a'.dead = {} /\ b'.dead = {}
      /\ fileA' = fileA /\ fileB' = fileB /\ writing' = "idle"
  BY DEF LoadPair, Loaded, Idle
<1>2. DOMAIN fileA.items = DOMAIN fileB.items
  BY EqualLengths DEF BWithinA, Sequences, LoadPair, SameLength
<1>3. QED
  BY <1>1, <1>2 DEF BWithinA, Sequences

LEMMA StutterWithinA == ASSUME BWithinA, UNCHANGED pairVars PROVE BWithinA'
  BY DEF BWithinA, Sequences, pairVars

LEMMA AlwaysBWithinA == PairSpec => []BWithinA
<1>1. ASSUME BWithinA, [PairNext]_pairVars PROVE BWithinA'
  <2>1. CASE RemovePair
    <3>1. PICK id : RemoveBoth(id)
      BY <2>1 DEF RemovePair
    <3>2. QED
      BY <1>1, <2>1, <3>1, TombstonesWithinA DEF RemovePair
  <2>2. CASE RestorePair
    <3>1. PICK id : RestoreBoth(id)
      BY <2>2 DEF RestorePair
    <3>2. QED
      BY <1>1, <2>2, <3>1, TombstonesWithinA DEF RestorePair
  <2>3. QED
    BY <1>1, <2>1, <2>2, InsertWithinA, CompactWithinA, SavingWithinA,
       InterruptWithinA, LoadWithinA, StutterWithinA DEF PairNext
<1>2. QED
  BY <1>1, InitBWithinA, PTL DEF PairSpec

\* save is never refused for tombstones of side B once side A is on disk,
\* whatever inserts were half done before.
THEOREM SaveIsWhole == PairSpec => []SaveNotRefused
<1>1. BWithinA => SaveNotRefused
  BY DEF BWithinA, SaveNotRefused
<1>2. QED
  BY <1>1, AlwaysBWithinA, PTL

-----------------------------------------------------------------------------
(* While no insert was half done, an operation does the same to the ids of  *)
(* both sides.                                                             *)

InStep == Sequences /\ SameIds

LEMMA InitInStep == PairInit => InStep
  BY EmptyIsSequence DEF PairInit, InStep, Sequences, SameIds, EmptySide, NoFile

LEMMA InsertInStep == ASSUME InStep, InsertPair PROVE InStep'
<1>1. PICK da \in Dims, db \in Dims :
        /\ a' = Inserted(a, da) /\ b' = IF SideAccepts(b, db) THEN Inserted(b, db) ELSE b
        /\ halfDone' = (halfDone \/ ~SideAccepts(b, db))
  BY DEF InsertPair
<1>2. /\ a'.items = Append(a.items, inserts + 1) /\ a'.dead = a.dead
      /\ b'.items = IF SideAccepts(b, db) THEN Append(b.items, inserts + 1) ELSE b.items
      /\ b'.dead = b.dead
  BY <1>1 DEF Inserted
<1>3. IsSequence(a.items) /\ IsSequence(b.items)
  BY DEF InStep, Sequences
<1>4. /\ IsSequence(a'.items) /\ IsSequence(Append(b.items, inserts + 1))
      /\ DOMAIN a'.items = DOMAIN a.items \union {Len(a.items) + 1}
      /\ DOMAIN Append(b.items, inserts + 1) = DOMAIN b.items \union {Len(b.items) + 1}
      /\ DOMAIN a.items = 1..Len(a.items) /\ Len(a.items) \in Nat
      /\ DOMAIN b.items = 1..Len(b.items) /\ Len(b.items) \in Nat
  BY <1>2, <1>3, AppendGrows
<1>5. Sequences'
  BY <1>2, <1>3, <1>4 DEF InStep, Sequences, InsertPair
<1>6. ASSUME ~halfDone' PROVE DOMAIN a'.items = DOMAIN b'.items /\ a'.dead = b'.dead
  <2>1. ~halfDone /\ b'.items = Append(b.items, inserts + 1)
    BY <1>1, <1>2, <1>6
  <2>2. DOMAIN a.items = DOMAIN b.items /\ a.dead = b.dead
    BY <2>1 DEF InStep, SameIds
  <2>3. \A m, n \in Nat : 1..m = 1..n => m = n
    <3>1. SUFFICES ASSUME NEW m \in Nat, NEW n \in Nat, 1..m = 1..n, m < n PROVE FALSE
      OBVIOUS
    <3>2. n \in 1..n /\ n \notin 1..m
      BY <3>1
    <3>3. QED
      BY <3>1, <3>2
  <2>4. Len(a.items) = Len(b.items)
    BY <1>4, <2>2, <2>3
  <2>5. QED
    BY <1>2, <1>4, <2>1, <2>2, <2>4
<1>7. QED
  BY <1>5, <1>6 DEF InStep, SameIds

\* Tombstones change on both sides alike.
LEMMA TombstonesAlike ==
  ASSUME a.dead = b.dead, DOMAIN a.items = DOMAIN b.items, NEW id,
         RemoveBoth(id) \/ RestoreBoth(id)
  PROVE  a'.dead = b'.dead
<1>1. CASE RemoveBoth(id)
  BY <1>1 DEF RemoveBoth, Removed, WithDead
<1>2. CASE RestoreBoth(id)
  BY <1>2 DEF RestoreBoth, Restored, WithDead
<1>3. QED
  BY <1>1, <1>2

LEMMA ItemsKept ==
  ASSUME NEW id, RemoveBoth(id) \/ RestoreBoth(id)
  PROVE  a'.items = a.items /\ b'.items = b.items
<1>1. CASE RemoveBoth(id)
  BY <1>1 DEF RemoveBoth, Removed, WithDead
<1>2. CASE RestoreBoth(id)
  BY <1>2 DEF RestoreBoth, Restored, WithDead
<1>3. QED
  BY <1>1, <1>2

LEMMA TombstonesInStep == ASSUME InStep, RemovePair \/ RestorePair PROVE InStep'
<1>1. PICK id : RemoveBoth(id) \/ RestoreBoth(id)
  BY DEF RemovePair, RestorePair
<1>2. fileA' = fileA /\ fileB' = fileB /\ halfDone' = halfDone
  BY DEF RemovePair, RestorePair
<1>3. a'.items = a.items /\ b'.items = b.items
  BY <1>1, ItemsKept
<1>4. ~halfDone => a'.dead = b'.dead
  BY <1>1, TombstonesAlike DEF InStep, SameIds
<1>5. QED
  BY <1>2, <1>3, <1>4 DEF InStep, Sequences, SameIds

LEMMA CompactInStep == ASSUME InStep, CompactPair PROVE InStep'
<1>1. /\ a' = Compacted(a) /\ b' = Compacted(b) /\ Survivors(a) = Survivors(b)
      /\ fileA' = fileA /\ fileB' = fileB
  BY DEF CompactPair, Renumberable
<1>2. IsSequence(a.items) /\ IsSequence(b.items)
  BY DEF InStep, Sequences
<1>3. /\ IsSequence(a'.items) /\ IsSequence(b'.items) /\ a'.dead = {} /\ b'.dead = {}
      /\ DOMAIN a'.items = DOMAIN b'.items
  BY <1>1, <1>2, CompactedItems
<1>4. QED
  BY <1>1, <1>3 DEF InStep, Sequences, SameIds

LEMMA SavingInStep ==
  ASSUME InStep, SaveSideA \/ SaveSideB \/ EndSavePair
  PROVE  InStep'
<1>1. /\ a' = a /\ b' = b /\ halfDone' = halfDone
      /\ fileA' \in {fileA, Snapshot(a)} /\ fileB' \in {fileB, Snapshot(b)}
  BY DEF SaveSideA, SaveSideB, EndSavePair
<1>2. IsSequence(fileA'.items) /\ IsSequence(fileB'.items)
  BY <1>1 DEF InStep, Sequences, Snapshot
<1>3. QED
  BY <1>1, <1>2 DEF InStep, Sequences, SameIds

LEMMA InterruptInStep == ASSUME InStep, InterruptSave PROVE InStep'
<1>1. /\ (a' = a /\ b' = b) \/ (a' = EmptySide /\ b' = EmptySide)
      /\ fileA' = fileA /\ fileB' = fileB /\ halfDone' = halfDone
  BY DEF InterruptSave
<1>2. CASE a' = a /\ b' = b
  BY <1>1, <1>2 DEF InStep, Sequences, SameIds
<1>3. CASE a' = EmptySide /\ b' = EmptySide
  BY <1>1, <1>3, EmptyIsSequence DEF InStep, Sequences, SameIds, EmptySide
<1>4. QED
  BY <1>1, <1>2, <1>3

LEMMA LoadInStep == ASSUME InStep, LoadPair PROVE InStep'
<1>1. /\ a'.items = fileA.items /\ b'.items = fileB.items
      /\ a'.dead = {} /\ b'.dead = {}
      /\ fileA' = fileA /\ fileB' = fileB
  BY DEF LoadPair, Loaded
<1>2. DOMAIN fileA.items = DOMAIN fileB.items
  BY EqualLengths DEF InStep, Sequences, LoadPair, SameLength
<1>3. QED
  BY <1>1, <1>2 DEF InStep, Sequences, SameIds

LEMMA StutterInStep == ASSUME InStep, UNCHANGED pairVars PROVE InStep'
  BY DEF InStep, Sequences, SameIds, pairVars

\* An id of one side is an id of the other with the same tombstone unless an
\* insert was half done, also after saves cut short between the two files:
\* load compares the lengths.
THEOREM IdsShared == PairSpec => []SameIds
<1>1. ASSUME InStep, [PairNext]_pairVars PROVE InStep'
  BY <1>1, InsertInStep, TombstonesInStep, CompactInStep, SavingInStep,
     InterruptInStep, LoadInStep, StutterInStep DEF PairNext
<1>2. InStep => SameIds
  BY DEF InStep
<1>3. QED
  BY <1>1, <1>2, InitInStep, PTL DEF PairSpec

-----------------------------------------------------------------------------
(* No save cut short either: the sides, and the files, hold equal items.   *)

Undisturbed == ~halfDone /\ interrupted = 0

SidesEqual ==
  /\ a.items = b.items /\ a.dead = b.dead
  /\ writing = "sideA" => fileA.items = a.items /\ a.dead = {}
  /\ writing # "sideA" => fileA.items = fileB.items

Aligned ==
  /\ interrupted \in Nat
  /\ Undisturbed => SidesEqual

LEMMA InitAligned == PairInit => Aligned
  BY DEF PairInit, Aligned, SidesEqual, EmptySide, NoFile

\* Nothing undoes a half-done insert or an interruption.
LEMMA StaysDisturbed ==
  ASSUME Aligned, [PairNext]_pairVars
  PROVE  interrupted' \in Nat /\ (Undisturbed' => Undisturbed)
<1>1. interrupted' \in {interrupted, interrupted + 1}
  BY DEF PairNext, pairVars, InsertPair, RemovePair, RestorePair, CompactPair, SaveSideA, SaveSideB,
     EndSavePair, InterruptSave, LoadPair
<1>2. halfDone => halfDone'
  <2>1. CASE InsertPair
    <3>1. PICK db : halfDone' = (halfDone \/ ~SideAccepts(b, db))
      BY <2>1 DEF InsertPair
    <3>2. QED
      BY <3>1
  <2>2. CASE ~InsertPair
    <3>1. halfDone' = halfDone
      BY <2>2 DEF PairNext, pairVars, RemovePair, RestorePair, CompactPair, SaveSideA, SaveSideB,
         EndSavePair, InterruptSave, LoadPair
    <3>2. QED
      BY <3>1
  <2>3. QED
    BY <2>1, <2>2
<1>3. QED
  BY <1>1, <1>2 DEF Aligned, Undisturbed

LEMMA InsertEqual == ASSUME SidesEqual, InsertPair, ~halfDone' PROVE SidesEqual'
<1>1. PICK da \in Dims, db \in Dims :
        a' = Inserted(a, da) /\ b' = Inserted(b, db)
  BY DEF InsertPair
<1>2. a'.items = b'.items /\ a'.dead = b'.dead
  BY <1>1 DEF SidesEqual, Inserted
<1>3. QED
  BY <1>2 DEF SidesEqual, InsertPair, Idle

LEMMA TombstonesEqual == ASSUME SidesEqual, RemovePair \/ RestorePair PROVE SidesEqual'
<1>1. PICK id : RemoveBoth(id) \/ RestoreBoth(id)
  BY DEF RemovePair, RestorePair
<1>2. a'.items = b'.items /\ a'.dead = b'.dead
  BY <1>1, ItemsKept, TombstonesAlike DEF SidesEqual
<1>3. writing' = writing /\ writing = "idle" /\ fileA' = fileA /\ fileB' = fileB
  BY DEF RemovePair, RestorePair, Idle
<1>4. QED
  BY <1>2, <1>3 DEF SidesEqual

LEMMA CompactEqual == ASSUME SidesEqual, CompactPair PROVE SidesEqual'
<1>1. a' = Compacted(a) /\ b' = Compacted(b) /\ Survivors(a) = Survivors(b)
  BY DEF CompactPair, Renumberable
<1>2. OldIds(a) = OldIds(b)
  BY <1>1 DEF OldIds
<1>3. a'.items = b'.items /\ a'.dead = b'.dead
  BY <1>1, <1>2 DEF SidesEqual, Compacted
<1>4. QED
  BY <1>3 DEF SidesEqual, CompactPair, Idle

LEMMA SavingEqual ==
  ASSUME SidesEqual, SaveSideA \/ SaveSideB \/ EndSavePair
  PROVE  SidesEqual'
<1>1. CASE SaveSideA
  BY <1>1 DEF SaveSideA, SidesEqual, Idle, Snapshot
<1>2. CASE SaveSideB
  BY <1>2 DEF SaveSideB, SidesEqual, Snapshot
<1>3. CASE EndSavePair
  BY <1>3 DEF EndSavePair, SidesEqual
<1>4. QED
  BY <1>1, <1>2, <1>3

LEMMA LoadEqual == ASSUME SidesEqual, LoadPair PROVE SidesEqual'
<1>1. a'.items = fileA.items /\ b'.items = fileB.items /\ a'.dead = {} /\ b'.dead = {}
  BY DEF LoadPair, Loaded
<1>2. writing' = "idle" /\ writing = "idle" /\ fileA' = fileA /\ fileB' = fileB
  BY DEF LoadPair, Idle
<1>3. QED
  BY <1>1, <1>2 DEF SidesEqual

LEMMA NextAligned == ASSUME Aligned, [PairNext]_pairVars PROVE Aligned'
<1>1. interrupted' \in Nat /\ (Undisturbed' => Undisturbed)
  BY StaysDisturbed
<1>2. ASSUME Undisturbed' PROVE SidesEqual'
  <2>1. SidesEqual /\ Undisturbed /\ ~halfDone' /\ interrupted = interrupted'
    BY <1>1, <1>2 DEF Aligned, Undisturbed
  <2>2. ~InterruptSave
    BY <2>1 DEF InterruptSave, Undisturbed
  <2>3. CASE UNCHANGED pairVars
    BY <2>1, <2>3 DEF SidesEqual, pairVars
  <2>4. QED
    BY <2>1, <2>2, <2>3, InsertEqual, TombstonesEqual, CompactEqual,
       SavingEqual, LoadEqual DEF PairNext
<1>3. QED
  BY <1>1, <1>2 DEF Aligned

\* When moreover no save was cut short, an id names the same item, deleted or
\* live, on both sides in memory.
THEOREM SidesAligned == PairSpec => []PairsAligned
<1>1. Aligned => PairsAligned
  BY DEF Aligned, Undisturbed, SidesEqual, PairsAligned
<1>2. QED
  BY <1>1, InitAligned, NextAligned, PTL DEF PairSpec

\* And what is on disk between saves, and so what load opens, is two sides of
\* one pair.
THEOREM FilesAligned == PairSpec => []FilesPair
<1>1. Aligned => FilesPair
  BY DEF Aligned, Undisturbed, SidesEqual, FilesPair, Idle
<1>2. QED
  BY <1>1, InitAligned, NextAligned, PTL DEF PairSpec
=============================================================================
