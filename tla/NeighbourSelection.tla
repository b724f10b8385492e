------------------------- MODULE NeighbourSelection -------------------------
(***************************************************************************)
(* How an adjacency list is chosen: `select_neighbours` (Algorithm 4, the  *)
(* diversity heuristic), its plain variant "the m closest", and the list   *)
(* that pruning leaves behind.  The loops of the source are stated by what *)
(* they return: a pick is a sequence of positions of the edge list, and    *)
(* IsSelection says which pick the code ends with.                         *)
(*                                                                         *)
(* Dist[a][b] is the metric on the stored vectors.  The source stores the  *)
(* distance in each edge and may do so because the metric is symmetric     *)
(* (hnsw.rs, module docs); an edge is therefore its target alone here.     *)
(***************************************************************************)
EXTENDS Integers, Sequences, FiniteSets

CONSTANTS Node,        \* node ids, allocated densely from 0
          Dist,        \* the metric
          KeepPruned   \* Config::keep_pruned

ASSUME NodeAssumption == IsFiniteSet(Node) /\ Node \subseteq Nat

\* Two different nodes are never at the same distance of a third one: the
\* outcome of a tie depends on an unstable sort and is not modelled.
ASSUME DistAssumption ==
  /\ Dist \in [Node -> [Node -> Int]]
  /\ \A a, b \in Node : Dist[a][b] = Dist[b][a]
  /\ \A a, b, c \in Node : Dist[a][b] = Dist[a][c] => b = c

ASSUME KeepPrunedAssumption == KeepPruned \in BOOLEAN

-----------------------------------------------------------------------------
(* Searching: DistId orders by distance, then by id.                       *)

Closer(q, a, b) == Dist[q][a] < Dist[q][b]

\* The k members of S closest to q: what a result heap that evicts its
\* farthest entry beyond k holds once all of S has been offered to it.
Closest(q, S, k) ==
  {x \in S : Cardinality({y \in S : Closer(q, y, x)}) < k}

-----------------------------------------------------------------------------
(* Selecting.  `edges` maps positions to nodes: an adjacency list, or the  *)
(* identity on a set of search results.                                    *)

Precedes(q, edges, s, t) ==
  \/ Closer(q, edges[s], edges[t])
  \/ edges[s] = edges[t] /\ s < t

\* The kept entry at s makes the candidate at t redundant.
Blocks(q, edges, s, t) ==
  /\ Dist[q][edges[s]] <= 2 * Dist[q][edges[t]]
  /\ Dist[edges[t]][edges[s]] <= Dist[q][edges[t]]

\* The loop looks at t only while fewer than m entries are kept.
Examined(q, edges, m, kept, t) ==
  Cardinality({s \in kept : Precedes(q, edges, s, t)}) < m

IsDiverse(q, edges, m, kept) ==
  \A t \in DOMAIN edges :
    t \in kept <=> /\ Examined(q, edges, m, kept, t)
                   /\ \A s \in kept : Precedes(q, edges, s, t)
                                        => ~Blocks(q, edges, s, t)

\* What keep_pruned may add once the diverse entries are chosen.
Discarded(q, edges, m, kept) ==
  IF KeepPruned
  THEN {t \in DOMAIN edges \ kept : Examined(q, edges, m, kept, t)}
  ELSE {}

\* `pick` lists the first m entries of kept, then of spare, closest first.
IsListing(q, edges, m, kept, spare, pick) ==
  LET Before(s, t) ==
        \/ s \in kept /\ t \in spare
        \/ (s \in kept <=> t \in kept) /\ Precedes(q, edges, s, t)
      chosen == {pick[i] : i \in DOMAIN pick}
  IN  /\ chosen \subseteq kept \union spare
      /\ \A i, j \in DOMAIN pick : i < j => Before(pick[i], pick[j])
      /\ \A t \in (kept \union spare) \ chosen :
           /\ Len(pick) = m
           /\ \A s \in chosen : Before(s, t)

Picks(edges, m) == UNION {[1..k -> DOMAIN edges] : k \in 0..m}

\* The (single) pick of the heuristic.
DiversePicks(q, edges, m) ==
  LET diverse == {kept \in SUBSET DOMAIN edges : IsDiverse(q, edges, m, kept)}
  IN  {pick \in Picks(edges, m) : \E kept \in diverse :
         IsListing(q, edges, m, kept, Discarded(q, edges, m, kept), pick)}

\* The pick of "sort and truncate".
NearestPicks(q, edges, m) ==
  {pick \in Picks(edges, m) : IsListing(q, edges, m, DOMAIN edges, {}, pick)}

ListsOf(edges, picks) == {[i \in DOMAIN pick |-> edges[pick[i]]] : pick \in picks}

\* The list that selecting at most m of edges for q returns.  The heuristic
\* is not consulted when there is nothing to choose from.
Selections(q, edges, m, heuristic) ==
  ListsOf(edges, IF heuristic /\ Cardinality(DOMAIN edges) > m
                 THEN DiversePicks(q, edges, m)
                 ELSE NearestPicks(q, edges, m))

\* Pruning a list: untouched while it fits.
PrunedShort(q, list, m, heuristic) ==   \* mutant: one link too few is kept
  IF Len(list) <= m THEN {list} ELSE Selections(q, list, m - 1, heuristic)
PrunedLate(q, list, m, heuristic) ==   \* mutant: the limit may be exceeded by one
  IF Len(list) <= m + 1 THEN {list} ELSE Selections(q, list, m, heuristic)
Pruned(q, list, m, heuristic) ==
  IF Len(list) <= m THEN {list} ELSE Selections(q, list, m, heuristic)
=============================================================================
