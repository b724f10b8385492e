---------------------------- MODULE PairedIndex ----------------------------
(***************************************************************************)
(* Two indexes over one set of items, addressed by one shared id           *)
(* (src/paired.rs).  Every operation is applied to side A and then to      *)
(* side B, and either half may fail: the sides must still agree on which   *)
(* item an id names and on which items are deleted.  An item is the number *)
(* of the insert call that brought it; ids count from 1.                   *)
(***************************************************************************)
EXTENDS Integers, Sequences, FiniteSets

CONSTANTS Dims,            \* lengths of the embeddings callers pass
          NoDim,           \* dim: None
          MaxInserts,      \* bound: calls of insert
          MaxInterrupted   \* bound: saves cut short

ASSUME PairAssumption ==
  NoDim \notin Dims /\ MaxInserts \in Nat /\ MaxInterrupted \in Nat

VARIABLES a, b,           \* the two sides
          fileA, fileB,   \* {base}_a.hnsw and {base}_b.hnsw
          writing,          \* where save is: "idle", "sideA", "sideB"
          inserts,        \* insert calls so far
          interrupted,    \* saves cut short so far
          halfDone        \* history: side B once refused what side A took

pairVars == <<a, b, fileA, fileB, writing, inserts, interrupted, halfDone>>

NoFile == [items |-> <<>>, dim |-> NoDim, exists |-> FALSE]
EmptySide == [items |-> <<>>, dead |-> {}, dim |-> NoDim, mapped |-> FALSE]

-----------------------------------------------------------------------------
(* One side: an Hnsw.  `dead` are its tombstones, `mapped` says that its    *)
(* vectors are a read-only mapping.                                        *)

SideAccepts(s, d) == ~s.mapped /\ s.dim \in {NoDim, d}
Inserted(s, d) ==
  [items |-> Append(s.items, inserts + 1), dead |-> s.dead, dim |-> d, mapped |-> FALSE]

WithDead(s, dead) == [items |-> s.items, dead |-> dead, dim |-> s.dim, mapped |-> s.mapped]
Removed(s, id) == WithDead(s, s.dead \union ({id} \intersect DOMAIN s.items))
Restored(s, id) == WithDead(s, s.dead \ {id})

Survivors(s) == DOMAIN s.items \ s.dead

\* From new id to old id: the survivors in ascending order.
OldIds(s) ==
  CHOOSE f \in [1..Cardinality(Survivors(s)) -> Survivors(s)] :
    \A i, j \in DOMAIN f : i < j => f[i] < f[j]

CompactedStillDead(s) ==   \* mutant: the tombstones are carried over
  [items |-> [i \in 1..Cardinality(Survivors(s)) |-> s.items[OldIds(s)[i]]],
   dead |-> s.dead, mapped |-> FALSE, dim |-> s.dim]
Compacted(s) ==
  [items |-> [i \in 1..Cardinality(Survivors(s)) |-> s.items[OldIds(s)[i]]],
   dead |-> {}, mapped |-> FALSE,
   dim |-> IF Survivors(s) = {} THEN NoDim ELSE s.dim]

Snapshot(s) == [items |-> s.items, dim |-> s.dim, exists |-> TRUE]
Loaded(f, mapped) == [items |-> f.items, dead |-> {}, dim |-> f.dim, mapped |-> mapped]

-----------------------------------------------------------------------------
(* The pair.  A call that side A refuses changes nothing and is not a step. *)

Idle == writing = "idle"

InsertPair ==
  /\ Idle
  /\ inserts < MaxInserts
  /\ \E da, db \in Dims :
       /\ SideAccepts(a, da)
       /\ a' = Inserted(a, da)
       /\ b' = IF SideAccepts(b, db) THEN Inserted(b, db) ELSE b
       /\ halfDone' = (halfDone \/ ~SideAccepts(b, db))
  /\ inserts' = inserts + 1
  /\ UNCHANGED <<fileA, fileB, writing, interrupted>>

RemoveShort(id) ==   \* mutant: index_a.remove(id) || index_b.remove(id)
  /\ a' = Removed(a, id)
  /\ b' = IF a' # a THEN b ELSE Removed(b, id)
RemoveBoth(id) == a' = Removed(a, id) /\ b' = Removed(b, id)

RemovePair ==
  /\ Idle
  /\ \E id \in DOMAIN a.items \union DOMAIN b.items : RemoveBoth(id)
  /\ UNCHANGED <<fileA, fileB, writing, inserts, interrupted, halfDone>>

RestoreShort(id) ==   \* mutant: index_a.restore(id) || index_b.restore(id)
  /\ a' = Restored(a, id)
  /\ b' = IF a' # a THEN b ELSE Restored(b, id)
RestoreBoth(id) == a' = Restored(a, id) /\ b' = Restored(b, id)

RestorePair ==
  /\ Idle
  /\ \E id \in a.dead \union b.dead : RestoreBoth(id)
  /\ UNCHANGED <<fileA, fileB, writing, inserts, interrupted, halfDone>>

\* Equal lists of survivors: the lists ascend.
Renumberable == Survivors(a) = Survivors(b)

\* The caller replaces the pair by the compacted one.
CompactPair ==
  /\ Idle
  /\ Renumberable
  /\ a' = Compacted(a) /\ b' = Compacted(b)
  /\ UNCHANGED <<fileA, fileB, writing, inserts, interrupted, halfDone>>

\* save: tombstones of side A are refused before anything is written.  A
\* pair that maps its files is not saved over them (load_mmap forbids it).
SaveSideA ==
  /\ Idle
  /\ a.dead = {}
  /\ ~a.mapped /\ ~b.mapped
  /\ fileA' = Snapshot(a)
  /\ writing' = "sideA"
  /\ UNCHANGED <<a, b, fileB, inserts, interrupted, halfDone>>

SaveSideBOverA ==   \* mutant: both saves are given the path ending in "_a"
  /\ writing = "sideA"
  /\ IF b.dead = {} THEN fileA' = Snapshot(b) /\ writing' = "sideB"
                    ELSE fileA' = fileA /\ writing' = "idle"
  /\ UNCHANGED <<a, b, fileB, inserts, interrupted, halfDone>>

\* Side B's own check comes when side A is on disk.
SaveSideB ==
  /\ writing = "sideA"
  /\ IF b.dead = {} THEN fileB' = Snapshot(b) /\ writing' = "sideB"
                    ELSE fileB' = fileB /\ writing' = "idle"
  /\ UNCHANGED <<a, b, fileA, inserts, interrupted, halfDone>>

EndSavePair ==
  /\ writing = "sideB"
  /\ writing' = "idle"
  /\ UNCHANGED <<a, b, fileA, fileB, inserts, interrupted, halfDone>>

\* Writing fails, or the process dies: the index in memory survives the one
\* and not the other.
InterruptSave ==
  /\ ~Idle
  /\ interrupted < MaxInterrupted
  /\ interrupted' = interrupted + 1
  /\ writing' = "idle"
  /\ \/ UNCHANGED <<a, b>>
     \/ a' = EmptySide /\ b' = EmptySide
  /\ UNCHANGED <<fileA, fileB, inserts, halfDone>>

LengthsUnchecked == TRUE   \* mutant
SameLength == Len(fileA.items) = Len(fileB.items)

\* load and load_mmap replace the index of a process that starts or reopens.
\* A file an interrupted save left is refused, or reads as what was being
\* written: its vectors come first.
LoadPair ==
  /\ Idle
  /\ fileA.exists /\ fileB.exists
  /\ SameLength
  /\ \E mapped \in BOOLEAN : a' = Loaded(fileA, mapped) /\ b' = Loaded(fileB, mapped)
  /\ UNCHANGED <<fileA, fileB, writing, inserts, interrupted, halfDone>>

PairInit ==
  /\ a = EmptySide /\ b = EmptySide
  /\ fileA = NoFile /\ fileB = NoFile
  /\ writing = "idle" /\ inserts = 0 /\ interrupted = 0 /\ halfDone = FALSE

PairNext ==
  \/ InsertPair \/ RemovePair \/ RestorePair \/ CompactPair
  \/ SaveSideA \/ SaveSideB \/ EndSavePair \/ InterruptSave \/ LoadPair

PairSpec == PairInit /\ [][PairNext]_pairVars

-----------------------------------------------------------------------------
KnownDim == Dims \union {NoDim}
Side == [items : Seq(Nat), dead : SUBSET Nat, dim : KnownDim, mapped : BOOLEAN]
File == [items : Seq(Nat), dim : KnownDim, exists : BOOLEAN]

\* Sides hold items with tombstones among their own ids; where a save is and
\* the counters are in range.
PairTypeOK ==
  /\ a \in Side /\ b \in Side
  /\ a.dead \subseteq DOMAIN a.items /\ b.dead \subseteq DOMAIN b.items
  /\ fileA \in File /\ fileB \in File
  /\ writing \in {"idle", "sideA", "sideB"}
  /\ inserts \in 0..MaxInserts /\ interrupted \in 0..MaxInterrupted
  /\ halfDone \in BOOLEAN

\* The comment above remove: the paired methods exist "so callers cannot
\* tombstone one side and leave the other reachable".
TombstonesAgree ==
  \A id \in DOMAIN a.items \intersect DOMAIN b.items : id \in a.dead <=> id \in b.dead

\* Once side A is on disk side B is not refused for tombstones, though save
\* checks side A alone and an insert may have reached side A only.
SaveNotRefused == writing = "sideA" => b.dead = {}

\* Unless an insert was half done, every id of one side is an id of the
\* other with the same tombstone, also after a save was cut short between the
\* two files: the id a search of one side returns is found on the other.
SameIds ==
  ~halfDone => DOMAIN a.items = DOMAIN b.items /\ a.dead = b.dead

\* Unless moreover a save was cut short, the two sides name the same item by
\* the same id, through deletions, compaction and reloading.
PairsAligned ==
  ~halfDone /\ interrupted = 0 => a.items = b.items /\ a.dead = b.dead

\* And when no save is under way the two files are two sides of one pair.
FilesPair ==
  ~halfDone /\ interrupted = 0 /\ Idle => fileA.items = fileB.items

\* The comment in load_mmap: the sides are separate files that share an id
\* space, "so mismatched files must be rejected here".
LoadedTogether == a.items = b.items
=============================================================================
