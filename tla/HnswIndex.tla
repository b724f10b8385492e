----------------------------- MODULE HnswIndex -----------------------------
(***************************************************************************)
(* The single-threaded index (src/hnsw.rs): insertion, plain and filtered  *)
(* search, tombstones and compaction.  An operation runs alone; it is cut  *)
(* here into the steps of its loops.                                       *)
(*                                                                         *)
(* A vector stands for itself: the id the program gives it is its position *)
(* in `order`, and the graph, which the program keeps by id, is kept by    *)
(* vector.                                                                 *)
(***************************************************************************)
EXTENDS NeighbourSelection, SequencesExt

CONSTANTS TopLevel,          \* bound: highest layer random_level may return
          M, M0,             \* Config::m and Config::m0()
          EfConstruction,    \* Config::ef_construction
          UseHeuristic,      \* Config::use_heuristic
          ExtendCandidates,  \* Config::extend_candidates
          PruneHeuristic,    \* Config::prune_strategy = Heuristic
          MaxK,              \* bound: the largest k a caller asks for
          MaxDead,           \* bound: how many tombstones there are at a time
          EfSearch,          \* the ef a caller asks for
          Filters            \* the sets of vectors callers' predicates accept

\* Config::validate.
ASSUME ConfigAssumption ==
  /\ M \in Nat /\ M0 \in Nat /\ EfConstruction \in Nat
  /\ 2 <= M /\ M <= EfConstruction /\ M <= M0
  /\ UseHeuristic \in BOOLEAN /\ PruneHeuristic \in BOOLEAN
  /\ ExtendCandidates \in BOOLEAN

ASSUME CallerAssumption ==
  /\ TopLevel \in Nat /\ MaxK \in Nat /\ MaxDead \in Nat /\ EfSearch \in Nat
  /\ Filters \subseteq SUBSET Node

VARIABLES
  order,         \* vec_store: the vectors, by id
  levels,        \* number of connection lists of a vector, less one; -1: none
  links,         \* links[n][l]: adjacency list of n on layer l
  entry,         \* entry_point: (id, level)
  deleted,       \* Vec<bool>, possibly shorter than vec_store
  deletedCount,
  task,          \* what the running operation was called with
  pc, layer,     \* where its loops are
  visited, frontier, found,  \* search_layer: visited set, the two heaps
  pending,       \* edge_buf: selected neighbours still to be pruned
  old,           \* compacted: the index it reads,
  next,          \*   the next position it looks at (0: not running)
  answer         \* search results

graphVars   == <<order, levels, links, entry>>
tombVars    == <<deleted, deletedCount>>
searchVars  == <<visited, frontier, found>>
compactVars == <<old, next>>
vars == <<graphVars, tombVars, task, pc, layer, searchVars, pending,
          compactVars, answer>>

Layer == 0..TopLevel
MaxLinks(l) == IF l = 0 THEN M0 ELSE M
NoEntry == [id |-> 0, level |-> -1]
NoTask  == [kind |-> "none", target |-> 0, level |-> 0, beam |-> 0, k |-> 0,
            accepts |-> {}]
NoIndex == [order |-> <<>>, deleted |-> <<>>]
NoLinks == [n \in Node |-> [l \in Layer |-> <<>>]]

Targets(n, l) == ToSet(links[n][l])
Least(a, b) == IF a < b THEN a ELSE b
Greatest(a, b) == IF a < b THEN b ELSE a

\* is_deleted: a position past the end of `deleted` is live.
Dead == {order[i] : i \in {j \in DOMAIN deleted : deleted[j]}}

-----------------------------------------------------------------------------
(* search_layer, in its three versions                                     *)

\* Above task.level the operation only descends, with a beam of one.
Width(t, l) == IF l > t.level THEN 1 ELSE t.beam

\* What may enter the result heap: the filtered version screens layer 0.
ScreenedAll(t, l, S) == S   \* mutant: tombstones and filter are ignored
Screened(t, l, S) ==
  IF t.kind = "filtered" /\ l = 0 THEN (S \intersect t.accepts) \ Dead ELSE S

BeginLayerStale(t, l, entries) ==   \* mutant: the visited set is not cleared
  /\ layer' = l
  /\ visited' = visited \union entries
  /\ frontier' = entries
  /\ found' = Closest(t.target, Screened(t, l, entries), Width(t, l))
BeginLayer(t, l, entries) ==
  /\ layer' = l
  /\ visited' = entries
  /\ frontier' = entries
  /\ found' = Closest(t.target, Screened(t, l, entries), Width(t, l))

\* No candidate is left or the nearest is farther than the worst result; the
\* filtered version goes on while it has fewer results than it may keep.
LayerDoneEarly(t) ==   \* mutant: the filtered version stops like the others
  \A c \in frontier : found # {} /\ \A r \in found : Closer(t.target, r, c)
LayerDone(t) ==
  \A c \in frontier :
    /\ t.kind = "filtered" /\ layer = 0 => Cardinality(found) >= Width(t, layer)
    /\ \A r \in found : Closer(t.target, r, c)

FreshUnvisited(c) == Targets(c, layer)   \* mutant: the visited set is not consulted
Fresh(c) == Targets(c, layer) \ visited

\* Worth following: the results are not full, or it beats the worst of them.
Promising(t, x, best) ==
  \/ Cardinality(best) < Width(t, layer)
  \/ \E r \in best : x = r \/ Closer(t.target, x, r)

Expand ==
  /\ pc = "search"
  /\ ~LayerDone(task)
  /\ \E c \in frontier :
       /\ \A d \in frontier : d = c \/ Closer(task.target, c, d)
       /\ LET best == Closest(task.target,
                              found \union Screened(task, layer, Fresh(c)),
                              Width(task, layer))
          IN  /\ visited' = visited \union Fresh(c)
              /\ found' = best
              /\ frontier' = (frontier \ {c}) \union
                               {x \in Fresh(c) : Promising(task, x, best)}
  /\ UNCHANGED <<graphVars, tombVars, task, pc, layer, pending, compactVars, answer>>

Descend ==
  /\ pc = "search"
  /\ LayerDone(task)
  /\ layer > task.level
  /\ BeginLayer(task, layer - 1, found)
  /\ UNCHANGED <<graphVars, tombVars, task, pc, pending, compactVars, answer>>

-----------------------------------------------------------------------------
(* insert                                                                  *)

\* Back to the caller, or to the loop of `compacted`; the locals are dead.
Finish ==
  /\ pc' = "idle"
  /\ task' = NoTask
  /\ layer' = 0
  /\ visited' = {} /\ frontier' = {} /\ found' = {}
  /\ pending' = <<>>

\* Store the vector and its empty lists, then search down from the entry
\* point; the very first vector becomes the entry point.
BeginInsert(n, level) ==
  /\ order' = Append(order, n)
  /\ levels' = [levels EXCEPT ![n] = level]
  /\ IF entry = NoEntry
     THEN /\ entry' = [id |-> n, level |-> level]
          /\ UNCHANGED <<task, pc, layer, searchVars>>
     ELSE LET t == [NoTask EXCEPT !.kind = "insert", !.target = n,
                                  !.level = level, !.beam = EfConstruction]
          IN  /\ task' = t
              /\ pc' = "search"
              /\ BeginLayer(t, entry.level, {entry.id})
              /\ UNCHANGED entry
  /\ UNCHANGED <<links, tombVars, pending>>

Insert ==
  /\ pc = "idle" /\ next = 0
  /\ \E n \in Node \ ToSet(order), level \in Layer : BeginInsert(n, level)
  /\ answer' = <<>>
  /\ UNCHANGED compactVars

\* extend_candidates: the results, and every neighbour of a result that is
\* not itself a result, once for each list it is on.  <<c, 0>> is the result
\* c and <<c, i>> its i-th neighbour; ids are dense, so that places differ.
Edges(pairs) ==
  LET place(p) == p[1] + p[2] * Cardinality(Node)
      node(p) == IF p[2] = 0 THEN p[1] ELSE links[p[1]][layer][p[2]]
  IN  [at \in {place(p) : p \in pairs} |-> node(CHOOSE p \in pairs : place(p) = at)]
Offered(c) == {<<c, i>> : i \in DOMAIN links[c][layer]}

ExtendedAll ==   \* mutant: neighbours that are results are added again
  Edges(found \X {0} \union UNION {Offered(c) : c \in found})
Extended ==
  Edges(found \X {0}
        \union {p \in UNION {Offered(c) : c \in found} : links[p[1]][layer][p[2]] \notin found})

\* select_neighbours_heuristic or select_neighbours_simple.
Selected(m) ==
  IF UseHeuristic /\ ExtendCandidates
  THEN LET edges == Extended IN ListsOf(edges, DiversePicks(task.target, edges, m))
  ELSE Selections(task.target, [c \in found |-> c], m, UseHeuristic)

\* Pass 1: the forward edges and all the reverse edges.
OneWay(n, l, selected) ==   \* mutant: the reverse edges are forgotten
  [links EXCEPT ![n][l] = @ \o selected]
BackTwice(n, l, selected) ==   \* mutant: the reverse edges are added twice
  [x \in Node |->
     [links[x] EXCEPT ![l] =
        IF x = n THEN @ \o selected
        ELSE IF x \in ToSet(selected) THEN @ \o <<n, n>> ELSE @]]
WithEdges(n, l, selected) ==
  [x \in Node |->
     [links[x] EXCEPT ![l] =
        IF x = n THEN @ \o selected
        ELSE @ \o [i \in 1..Cardinality({j \in DOMAIN selected : selected[j] = x}) |-> n]]]

ConnectsAbove(t) == t.kind = "insert" /\ layer <= t.level + 1   \* mutant: off by one
Connects(t) == t.kind = "insert" /\ layer <= t.level

Connect ==
  /\ pc = "search"
  /\ LayerDone(task)
  /\ Connects(task)
  /\ \E selected \in Selected(MaxLinks(layer)) :
       /\ links' = WithEdges(task.target, layer, selected)
       /\ pending' = selected
  /\ pc' = "prune"
  /\ UNCHANGED <<order, levels, entry, tombVars, task, layer, searchVars,
                 compactVars, answer>>

\* Pass 2: one neighbour's list is cut back to the limit.
Prune ==
  /\ pc = "prune"
  /\ pending # <<>>
  /\ LET nb == Head(pending)
     IN \E list \in Pruned(nb, links[nb][layer], MaxLinks(layer), PruneHeuristic) :
          links' = [links EXCEPT ![nb][layer] = list]
  /\ pending' = Tail(pending)
  /\ UNCHANGED <<order, levels, entry, tombVars, task, pc, layer, searchVars,
                 compactVars, answer>>

\* A vector drawn above the entry point replaces it, once it is linked.
PromotesTies(t) == t.level >= entry.level   \* mutant: equal levels promote too
Promotes(t) == t.level > entry.level

NextLayer ==
  /\ pc = "prune"
  /\ pending = <<>>
  /\ IF layer > 0
     THEN /\ BeginLayer(task, layer - 1, found)
          /\ pc' = "search"
          /\ UNCHANGED <<entry, task, pending>>
     ELSE /\ entry' = IF Promotes(task)
                      THEN [id |-> task.target, level |-> task.level]
                      ELSE entry
          /\ Finish
  /\ UNCHANGED <<order, levels, links, tombVars, compactVars, answer>>

-----------------------------------------------------------------------------
(* search and search_filtered                                              *)

BeginQuery(kind, q, k, accepts) ==
  IF entry = NoEntry
  THEN answer' = <<>> /\ UNCHANGED <<task, pc, layer, searchVars>>
  ELSE LET t == [kind |-> kind, target |-> q, level |-> 0,
                 beam |-> Greatest(EfSearch, k), k |-> k, accepts |-> accepts]
       IN  /\ task' = t
           /\ pc' = "search"
           /\ answer' = <<>>
           /\ BeginLayer(t, entry.level, {entry.id})

\* A search of an index with tombstones takes the filtered version.
Route == IF deletedCount > 0 THEN "filtered" ELSE "plain"

Search ==
  /\ pc = "idle" /\ next = 0
  /\ \E q \in Node, k \in 1..MaxK : BeginQuery(Route, q, k, Node)
  /\ UNCHANGED <<graphVars, tombVars, pending, compactVars>>

SearchFiltered ==
  /\ pc = "idle" /\ next = 0
  /\ \E q \in Node, k \in 1..MaxK, accepts \in Filters :
       BeginQuery("filtered", q, k, accepts)
  /\ UNCHANGED <<graphVars, tombVars, pending, compactVars>>

\* The results, closest first, truncated to k.
Answer ==
  /\ pc = "search"
  /\ LayerDone(task)
  /\ task.kind # "insert" /\ layer = 0
  /\ answer' \in Selections(task.target, [x \in found |-> x], task.k, FALSE)
  /\ Finish
  /\ UNCHANGED <<graphVars, tombVars, compactVars>>

\* exact_search: one pass over the ids, keeping the k closest live ones met
\* so far.  It changes nothing, and is an operator here.
TopK(q, k) ==
  LET worst[i \in 0..Len(order)] ==
        IF i = 0 THEN {}
        ELSE IF i \in DOMAIN deleted /\ deleted[i] THEN worst[i - 1]
        ELSE Closest(q, worst[i - 1] \union {order[i]}, k)
  IN  worst[Len(order)]

-----------------------------------------------------------------------------
(* remove and restore                                                      *)

\* `deleted` grows to the length of vec_store when a removal needs it.
Resized == [i \in DOMAIN order |-> i \in DOMAIN deleted /\ deleted[i]]

CountTwice(i) == deletedCount + 1   \* mutant: a second removal counts again
CountNever(i) == deletedCount       \* mutant: only restore counts
CountRemoved(i) == IF Resized[i] THEN deletedCount ELSE deletedCount + 1

RemoveVector ==
  /\ pc = "idle" /\ next = 0
  /\ \E i \in DOMAIN order :
       /\ Resized[i] \/ Cardinality(Dead) < MaxDead
       /\ deleted' = [Resized EXCEPT ![i] = TRUE]
       /\ deletedCount' = CountRemoved(i)
  /\ answer' = <<>>
  /\ UNCHANGED <<graphVars, task, pc, layer, searchVars, pending, compactVars>>

RestoreVector ==
  /\ pc = "idle" /\ next = 0
  /\ \E i \in DOMAIN deleted :
       /\ deleted[i]
       /\ deleted' = [deleted EXCEPT ![i] = FALSE]
  /\ deletedCount' = deletedCount - 1
  /\ answer' = <<>>
  /\ UNCHANGED <<graphVars, task, pc, layer, searchVars, pending, compactVars>>

-----------------------------------------------------------------------------
(* compacted, and the caller putting the result in the index's place       *)

\* Only with tombstones: rebuilding what has none is building it anew.
BeginCompact ==
  /\ pc = "idle" /\ next = 0
  /\ Dead # {}
  /\ old' = [order |-> order, deleted |-> deleted]
  /\ next' = 1
  /\ order' = <<>>
  /\ levels' = [n \in Node |-> -1]
  /\ links' = NoLinks
  /\ entry' = NoEntry
  /\ deleted' = <<>> /\ deletedCount' = 0
  /\ answer' = <<>>
  /\ UNCHANGED <<task, pc, layer, searchVars, pending>>

WasDead(i) == i \in DOMAIN old.deleted /\ old.deleted[i]

Skip ==
  /\ pc = "idle" /\ next \in DOMAIN old.order
  /\ WasDead(next)
  /\ next' = next + 1
  /\ UNCHANGED <<graphVars, tombVars, task, pc, layer, searchVars, pending, old, answer>>

Reinsert ==
  /\ pc = "idle" /\ next \in DOMAIN old.order
  /\ ~WasDead(next)
  /\ \E level \in Layer : BeginInsert(old.order[next], level)
  /\ next' = next + 1
  /\ UNCHANGED <<old, answer>>

EndCompact ==
  /\ pc = "idle" /\ next > Len(old.order)
  /\ next' = 0
  /\ old' = NoIndex
  /\ UNCHANGED <<graphVars, tombVars, task, pc, layer, searchVars, pending, answer>>

-----------------------------------------------------------------------------
Init ==
  /\ order = <<>>
  /\ levels = [n \in Node |-> -1]
  /\ links = NoLinks
  /\ entry = NoEntry
  /\ deleted = <<>> /\ deletedCount = 0
  /\ task = NoTask
  /\ pc = "idle" /\ layer = 0
  /\ visited = {} /\ frontier = {} /\ found = {}
  /\ pending = <<>>
  /\ old = NoIndex /\ next = 0
  /\ answer = <<>>

\* What an operation does once it is called.
Run ==
  \/ Expand \/ Descend \/ Connect \/ Prune \/ NextLayer \/ Answer
  \/ Skip \/ Reinsert \/ EndCompact

Call == Insert \/ Search \/ SearchFiltered \/ RemoveVector \/ RestoreVector \/ BeginCompact

Next == Run \/ Call

Spec == Init /\ [][Next]_vars

\* An operation is under way, or a rebuild.
Busy == pc # "idle" \/ next # 0

\* An operation that was called keeps executing.  This is WF_vars(Run) with its
\* ENABLED written out, which TLC would evaluate in every state: there always is a
\* step while Busy (else TLC finds a deadlock), only steps of Run are possible
\* then, and every one of them changes a variable.
FairSpec == Spec /\ ([]<>~Busy \/ []<><<Busy>>_vars)

-----------------------------------------------------------------------------
\* Every variable has its type.
TypeOK ==
  /\ order \in Seq(Node)
  /\ levels \in [Node -> Layer \union {-1}]
  /\ links \in [Node -> [Layer -> Seq(Node)]]
  /\ entry \in [id : Node, level : Layer] \union {NoEntry}
  /\ deleted \in Seq(BOOLEAN) /\ deletedCount \in Nat
  /\ task.kind \in {"none", "insert", "plain", "filtered"}
  /\ task.target \in Node \union {0} /\ task.level \in Layer /\ task.beam \in Nat
  /\ task.k \in 0..MaxK /\ task.accepts \in SUBSET Node
  /\ pc \in {"idle", "search", "prune"} /\ layer \in Layer
  /\ visited \in SUBSET Node /\ frontier \in SUBSET Node /\ found \in SUBSET Node
  /\ pending \in Seq(Node)
  /\ old.order \in Seq(Node) /\ old.deleted \in Seq(BOOLEAN) /\ next \in Nat
  /\ answer \in Seq(Node)

-----------------------------------------------------------------------------
(* The graph                                                               *)

\* Whenever a list is about to be pruned it is one over its limit, what the
\* comment on prune_connections_heuristic demands of its caller; all other
\* lists are within the limit.
PruneSeesOneExtra ==
  \A n \in Node, l \in Layer :
    Len(links[n][l]) <= MaxLinks(l)
      + (IF pc = "prune" /\ layer = l /\ n \in ToSet(pending) THEN 1 ELSE 0)

\* No node is listed twice, and none lists itself.
NoDuplicates ==
  \A n \in Node, l \in Layer :
    IsInjective(links[n][l]) /\ n \notin Targets(n, l)

\* An edge on a layer joins two vectors that have it: insertion indexes the
\* neighbour's lists without checking.
LinksStayOnLayer ==
  \A n \in Node, l \in Layer : \A t \in Targets(n, l) :
    l <= levels[n] /\ l <= levels[t]

\* On a layer of two vectors or more each of them has a link, the one being
\* inserted excepted until it is connected there.
UpperLayersLinked ==
  \A l \in Layer : \A n, t \in {x \in Node : levels[x] >= l} :
    n # t /\ task.target \notin {n, t} => links[n][l] # <<>>

\* The entry point is the first vector of the highest level present.
EntryIsFirstOfTop ==
  LET linked == IF task.kind = "insert" THEN Front(order) ELSE order
      Top(i) == \A j \in DOMAIN linked : levels[linked[j]] <= levels[linked[i]]
  IN  IF linked = <<>> THEN entry = NoEntry
      ELSE \E i \in DOMAIN linked :
             /\ Top(i) /\ \A j \in 1..(i - 1) : ~Top(j)
             /\ entry = [id |-> linked[i], level |-> levels[linked[i]]]

\* The count that routes searches and sizes the compacted index is the
\* number of tombstones, and no tombstone is past the last vector.
TombstonesCounted ==
  /\ deletedCount = Cardinality(Dead)
  /\ Len(deleted) <= Len(order)

-----------------------------------------------------------------------------
(* The answers                                                             *)

\* The vectors that layer 0 leads to from the ones a search has visited.
Reachable ==
  LET reach[i \in 0..Cardinality(Node)] ==
        IF i = 0 THEN visited
        ELSE reach[i - 1] \union UNION {Targets(n, 0) : n \in reach[i - 1]}
  IN  reach[Cardinality(Node)]

Eligible(t) == IF t.kind = "filtered" THEN t.accepts \ Dead ELSE Node

\* A search that stops short of k results has exhausted what is reachable,
\* and one whose eligible vectors all fit the beam answers exactly: the k
\* closest of them, and what exact_search answers if they are all there are.
AnswerIsComplete ==
  [][Answer =>
       LET eligible == Reachable \intersect Eligible(task)
       IN  /\ Len(answer') = Least(task.k, Cardinality(eligible))
           /\ Cardinality(eligible) <= task.beam =>
                /\ ToSet(answer') = Closest(task.target, eligible, task.k)
                /\ eligible = ToSet(order) \ Dead => ToSet(answer') = TopK(task.target, task.k)]_vars

\* No eligible neighbour of the best answer is closer than it.
AnswerIsLocallyClosest ==
  [][Answer /\ answer' # <<>> =>
       \A t \in Targets(answer'[1], 0) \intersect Eligible(task) :
         ~Closer(task.target, t, answer'[1])]_vars

\* The index behaves as a collection of vectors with ids and tombstones; a
\* compaction takes effect when the rebuilt index is complete.
Collection == INSTANCE VectorCollection WITH
  vectors <- IF next = 0 THEN order ELSE old.order,
  dead    <- LET d == IF next = 0 THEN deleted ELSE old.deleted
             IN  {i \in DOMAIN d : d[i]}
ImplementsCollection == Collection!Spec

\* Every operation ends.
OperationsEnd == []<>~Busy
=============================================================================
