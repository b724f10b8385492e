--------------------------- MODULE SelectionLoop ---------------------------
(***************************************************************************)
(* The loop of the diversity heuristic, comparison by comparison, as in    *)
(* select_neighbours_heuristic and prune_connections_heuristic             *)
(* (src/hnsw.rs) and select_neighbours (src/parallel.rs), its shortcut by  *)
(* the triangle inequality and candidates at equal distances included.     *)
(* NeighbourSelection states what it returns.                              *)
(***************************************************************************)
EXTENDS Integers, Sequences, FiniteSets, SequencesExt

CONSTANTS Point,      \* vectors
          Indexes,    \* the sets of them that are in one index, under one metric
          Distance,   \* Distance[a][b], of any sign
          Limits      \* the limits a list is selected for

ASSUME LoopAssumption ==
  /\ IsFiniteSet(Point) /\ Indexes \subseteq SUBSET Point /\ Limits \subseteq Nat \ {0}
  /\ Distance \in [Point -> [Point -> Int]]

VARIABLES
  q, limit, keep,   \* the arguments, and Config::keep_pruned
  pruning,          \* a full list is pruned: every caller is over the limit
  cands,            \* the candidates, closest first
  at, against,      \* positions of the two loops
  selected, discarded,
  stage

selectionVars == <<q, limit, keep, pruning, cands, at, against, selected, discarded, stage>>

Away(x) == Distance[q][x]

\* An unstable sort leaves candidates at equal distances in any order.
Sorted(S) ==
  {s \in [1..Cardinality(S) -> S] :
     /\ IsInjective(s)
     /\ \A a, b \in DOMAIN s : a < b => Away(s[a]) <= Away(s[b])}

\* Fewer candidates than slots: all are taken.
TakeAll ==
  /\ stage = "start" /\ ~pruning /\ Len(cands) <= limit
  /\ selected' = cands
  /\ stage' = "done"
  /\ UNCHANGED <<q, limit, keep, pruning, cands, at, against, discarded>>

BeginScan ==
  /\ stage = "start" /\ (pruning \/ Len(cands) > limit)
  /\ stage' = "outer"
  /\ UNCHANGED <<q, limit, keep, pruning, cands, at, against, selected, discarded>>

Examines == at <= Len(cands) /\ Len(selected) < limit

NextCandidate ==
  /\ stage = "outer" /\ Examines
  /\ against' = 1
  /\ stage' = "inner"
  /\ UNCHANGED <<q, limit, keep, pruning, cands, at, selected, discarded>>

Compares == stage = "inner" /\ against <= Len(selected)
SkipsLoosely == Compares /\ 2 * Away(selected[against]) > Away(cands[at])   \* mutant: the factor on the wrong side
Skips == Compares /\ Away(selected[against]) > 2 * Away(cands[at])

Shortcut ==
  /\ Skips
  /\ against' = against + 1
  /\ UNCHANGED <<q, limit, keep, pruning, cands, at, selected, discarded, stage>>

Redundant == Distance[cands[at]][selected[against]] <= Away(cands[at])

Pass ==
  /\ Compares /\ ~Skips /\ ~Redundant
  /\ against' = against + 1
  /\ UNCHANGED <<q, limit, keep, pruning, cands, at, selected, discarded, stage>>

Reject ==
  /\ Compares /\ ~Skips /\ Redundant
  /\ discarded' = IF keep THEN Append(discarded, cands[at]) ELSE discarded
  /\ at' = at + 1
  /\ stage' = "outer"
  /\ UNCHANGED <<q, limit, keep, pruning, cands, against, selected>>

Accept ==
  /\ stage = "inner" /\ against > Len(selected)
  /\ selected' = Append(selected, cands[at])
  /\ at' = at + 1
  /\ stage' = "outer"
  /\ UNCHANGED <<q, limit, keep, pruning, cands, against, discarded>>

Needed == limit - Len(selected)

Fill ==
  /\ stage = "outer" /\ ~Examines
  /\ selected' = selected \o SubSeq(discarded, 1, IF Needed < Len(discarded) THEN Needed ELSE Len(discarded))
  /\ stage' = "done"
  /\ UNCHANGED <<q, limit, keep, pruning, cands, at, against, discarded>>

SelectionInit ==
  /\ limit \in Limits /\ keep \in BOOLEAN /\ pruning \in BOOLEAN
  /\ \E I \in Indexes :
       /\ q \in I
       /\ \E S \in SUBSET (I \ {q}) :
            /\ pruning => Cardinality(S) > limit
            /\ cands \in Sorted(S)
  /\ at = 1 /\ against = 1 /\ selected = <<>> /\ discarded = <<>>
  /\ stage = "start"

SelectionNext ==
  \/ TakeAll \/ BeginScan \/ NextCandidate \/ Shortcut \/ Pass \/ Reject \/ Accept \/ Fill

SelectionSpec == SelectionInit /\ [][SelectionNext]_selectionVars

-----------------------------------------------------------------------------
Keeping == INSTANCE NeighbourSelection WITH Node <- Point, Dist <- Distance, KeepPruned <- TRUE
Dropping == INSTANCE NeighbourSelection WITH Node <- Point, Dist <- Distance, KeepPruned <- FALSE

\* Algorithm 4 without the shortcut: the positions kept of the first n.
Kept ==
  LET kept[n \in 0..Len(cands)] ==
        IF n = 0 THEN {}
        ELSE LET e == cands[n] IN
             IF /\ Cardinality(kept[n - 1]) < limit
                /\ \A s \in kept[n - 1] : Distance[e][cands[s]] > Away(e)
             THEN kept[n - 1] \union {n} ELSE kept[n - 1]
  IN  kept[Len(cands)]

Ties == \E a, b \in DOMAIN cands : a # b /\ Away(cands[a]) = Away(cands[b])

Nonnegative == \A a \in DOMAIN cands : Away(cands[a]) >= 0

\* For distances that are not negative the loop keeps what Algorithm 4
\* keeps, the shortcut and ties notwithstanding; and without ties it returns
\* the list that the other models take from NeighbourSelection.
PickIsAlgorithm4 ==
  stage = "done" /\ Nonnegative =>
    /\ Len(cands) > limit => {cands[n] : n \in Kept} \subseteq ToSet(selected)
    /\ Len(cands) > limit /\ ~keep => {cands[n] : n \in Kept} = ToSet(selected)
    /\ ~Ties => selected \in IF keep THEN Keeping!Selections(q, cands, limit, TRUE)
                             ELSE Dropping!Selections(q, cands, limit, TRUE)

\* What the comment on the shortcut says: where it fires, the comparison it
\* saves would have passed.
ShortcutIsSound == Skips => ~Redundant
=============================================================================
