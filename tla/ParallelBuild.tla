--------------------------- MODULE ParallelBuild ---------------------------
(***************************************************************************)
(* Multi-threaded construction (src/parallel.rs): a pool of workers insert *)
(* nodes into one graph whose adjacency lists sit behind a lock per node.  *)
(* A step of a worker is what it does under one lock acquisition, together *)
(* with the local computation that follows it.  No worker keeps a lock     *)
(* between two steps, so the lists may change between any two of them.     *)
(***************************************************************************)
EXTENDS NeighbourSelection

CONSTANTS Worker,          \* the threads of the pool
          TopLevel,        \* bound: highest layer the level draw may return
          M, M0,           \* Config::m and the layer-0 limit Config::m0()
          EfConstruction,  \* Config::ef_construction
          UseHeuristic,    \* Config::use_heuristic
          PruneHeuristic   \* Config::prune_strategy = Heuristic

\* Config::validate.
ASSUME ConfigAssumption ==
  /\ M \in Nat /\ M0 \in Nat /\ EfConstruction \in Nat
  /\ 2 <= M /\ M <= EfConstruction /\ M <= M0
  /\ UseHeuristic \in BOOLEAN /\ PruneHeuristic \in BOOLEAN

ASSUME BuildAssumption == 0 \in Node /\ TopLevel \in Nat /\ IsFiniteSet(Worker)

VARIABLES
  levels,    \* the layer drawn for each node before the pool starts
  links,     \* links[n][l]: adjacency list of n on layer l, under n's lock
  entry,     \* (id, level), under its own lock
  maxLevel,  \* AtomicUsize, read without that lock
  todo,      \* nodes no worker has taken yet
  pc,        \* where each worker is in insert_node and its caller
  node,      \* the node it inserts
  layer,     \* the layer it works on
  visited,   \* search_layer: visited tracker,
  frontier,  \*   candidate heap,
  found,     \*   result heap
  pending    \* selected neighbours still to be linked back

graphVars  == <<levels, links>>
entryVars  == <<entry, maxLevel>>
searchVars == <<visited, frontier, found>>
vars == <<levels, links, entry, maxLevel, todo, pc, node, layer,
          visited, frontier, found, pending>>

Layer == 0..TopLevel
MaxLinks(l) == IF l = 0 THEN M0 ELSE M
HasLayer(n, l) == l <= levels[n]

-----------------------------------------------------------------------------
(* search_layer                                                            *)

\* Entries are all offered to the result heap, which keeps the ef closest.
BeginSearch(w, n, entries, ef) ==
  /\ visited'  = [visited  EXCEPT ![w] = entries]
  /\ frontier' = [frontier EXCEPT ![w] = entries]
  /\ found'    = [found    EXCEPT ![w] = Closest(n, entries, ef)]

\* No candidate is left, or the nearest is farther than the worst result.
SearchOver(w) ==
  \A c \in frontier[w], r \in found[w] : Closer(node[w], r, c)

\* Above its own level a node only descends, with a beam of one.
Beam(n, l) == IF l > levels[n] THEN 1 ELSE EfConstruction

\* The neighbours in a list snapshot that this search has not seen.
FreshUnvisited(w, list) == {list[i] : i \in DOMAIN list}   \* mutant: visited not consulted
Fresh(w, list) == {list[i] : i \in DOMAIN list} \ visited[w]

\* Pop the nearest candidate, copy its list under its lock and offer what
\* was not visited before to the results.
Expand(w) ==
  /\ pc[w] = "search"
  /\ ~SearchOver(w)
  /\ \E c \in frontier[w] :
       /\ \A d \in frontier[w] : d = c \/ Closer(node[w], c, d)
       /\ LET fresh == Fresh(w, links[c][layer[w]])
              best  == Closest(node[w], found[w] \union fresh,
                               Beam(node[w], layer[w]))
          IN  /\ visited'  = [visited  EXCEPT ![w] = @ \union fresh]
              /\ found'    = [found    EXCEPT ![w] = best]
              /\ frontier' = [frontier EXCEPT ![w] = (@ \ {c}) \union (fresh \intersect best)]
  /\ UNCHANGED <<graphVars, entryVars, todo, pc, node, layer, pending>>

-----------------------------------------------------------------------------
(* insert_node                                                             *)

\* Take a node and read the entry point, once.  Layers above the node's
\* level are searched to descend, the layers from there on to connect, so
\* either way the first layer is the entry point's.
Start(w) ==
  /\ pc[w] = "idle"
  /\ \E n \in todo :
       /\ todo' = todo \ {n}
       /\ node' = [node EXCEPT ![w] = n]
       /\ IF entry.id = n
          THEN /\ pc' = [pc EXCEPT ![w] = "promote"]
               /\ UNCHANGED <<layer, searchVars>>
          ELSE /\ pc' = [pc EXCEPT ![w] = "search"]
               /\ layer' = [layer EXCEPT ![w] = entry.level]
               /\ BeginSearch(w, n, {entry.id}, Beam(n, entry.level))
  /\ UNCHANGED <<graphVars, entryVars, pending>>

\* The layers a node is connected on: its own level and below.
ConnectsAbove(w) == layer[w] <= levels[node[w]] + 1   \* mutant: off by one
Connects(w) == layer[w] <= levels[node[w]]

Descend(w) ==
  /\ pc[w] = "search"
  /\ SearchOver(w)
  /\ ~Connects(w)
  /\ layer' = [layer EXCEPT ![w] = @ - 1]
  /\ BeginSearch(w, node[w], found[w], Beam(node[w], layer[w] - 1))
  /\ UNCHANGED <<graphVars, entryVars, todo, pc, node, pending>>

\* A node that is already linked from elsewhere can find itself.
CandidatesWithSelf(w) == found[w]   \* mutant: the filter is missing
CandidatesUpToSelf(w) ==   \* mutant: the filter stops at the node, which comes first
  IF node[w] \in found[w] THEN {} ELSE found[w]
Candidates(w) == found[w] \ {node[w]}

\* Select the neighbours and write the forward edges under the own lock.
Connect(w) ==
  /\ pc[w] = "search"
  /\ SearchOver(w)
  /\ Connects(w)
  /\ \E selected \in Selections(node[w], [c \in Candidates(w) |-> c],
                                MaxLinks(layer[w]), UseHeuristic) :
       /\ links' = [links EXCEPT ![node[w]][layer[w]] = @ \o selected]
       /\ pending' = [pending EXCEPT ![w] = selected]
  /\ pc' = [pc EXCEPT ![w] = "pruneOwn"]
  /\ UNCHANGED <<levels, entryVars, todo, node, layer, searchVars>>

\* prune_node: one lock acquisition on n.
PruneNodeClears(n, l) ==   \* mutant: an overfull list is cleared and not refilled
  links' = IF Len(links[n][l]) <= MaxLinks(l) THEN links
           ELSE [links EXCEPT ![n][l] = <<>>]
PruneNode(n, l) ==
  \E list \in Pruned(n, links[n][l], MaxLinks(l), PruneHeuristic) :
    links' = [links EXCEPT ![n][l] = list]

PruneOwnSkipped(w) ==   \* mutant: only reverse edges are followed by a prune
  /\ pc[w] = "pruneOwn"
  /\ pc' = [pc EXCEPT ![w] = "reverse"]
  /\ UNCHANGED <<graphVars, entryVars, todo, node, layer, searchVars, pending>>

PruneOwn(w) ==
  /\ pc[w] = "pruneOwn"
  /\ PruneNode(node[w], layer[w])
  /\ pc' = [pc EXCEPT ![w] = "reverse"]
  /\ UNCHANGED <<levels, entryVars, todo, node, layer, searchVars, pending>>

\* Push the reverse edge under the neighbour's lock; a neighbour without
\* this layer is skipped.
ReverseEdgeTwice(w) == <<node[w], node[w]>>   \* mutant: the push is repeated
ReverseEdge(w) == <<node[w]>>

LinkBack(w) ==
  /\ pc[w] = "reverse"
  /\ pending[w] # <<>>
  /\ LET nb == Head(pending[w])
     IN  IF HasLayer(nb, layer[w])
         THEN /\ links' = [links EXCEPT ![nb][layer[w]] = @ \o ReverseEdge(w)]
              /\ pc' = [pc EXCEPT ![w] = "pruneBack"]
              /\ UNCHANGED pending
         ELSE /\ pending' = [pending EXCEPT ![w] = Tail(@)]
              /\ UNCHANGED <<links, pc>>
  /\ UNCHANGED <<levels, entryVars, todo, node, layer, searchVars>>

PruneBack(w) ==
  /\ pc[w] = "pruneBack"
  /\ PruneNode(Head(pending[w]), layer[w])
  /\ pending' = [pending EXCEPT ![w] = Tail(@)]
  /\ pc' = [pc EXCEPT ![w] = "reverse"]
  /\ UNCHANGED <<levels, entryVars, todo, node, layer, searchVars>>

\* All neighbours linked: the next layer down starts from what was found
\* here, the node itself included.
LastLayerMissed(w) == FALSE   \* mutant: the loop runs past layer 0
LastLayer(w) == layer[w] = 0

NextLayer(w) ==
  /\ pc[w] = "reverse"
  /\ pending[w] = <<>>
  /\ IF LastLayer(w)
     THEN /\ pc' = [pc EXCEPT ![w] = "promote"]
          /\ UNCHANGED <<layer, searchVars>>
     ELSE /\ pc' = [pc EXCEPT ![w] = "search"]
          /\ layer' = [layer EXCEPT ![w] = @ - 1]
          /\ BeginSearch(w, node[w], found[w], EfConstruction)
  /\ UNCHANGED <<graphVars, entryVars, todo, node, pending>>

-----------------------------------------------------------------------------
(* The caller's closure in build_parallel                                  *)

\* Back to the pool; the locals are dead.
Finish(w) ==
  /\ pc' = [pc EXCEPT ![w] = "idle"]
  /\ node' = [node EXCEPT ![w] = 0]
  /\ layer' = [layer EXCEPT ![w] = 0]
  /\ visited' = [visited EXCEPT ![w] = {}]
  /\ frontier' = [frontier EXCEPT ![w] = {}]
  /\ found' = [found EXCEPT ![w] = {}]
  /\ pending' = [pending EXCEPT ![w] = <<>>]

\* The unlocked test of max_level.
CheckPromote(w) ==
  /\ pc[w] = "promote"
  /\ IF levels[node[w]] > maxLevel
     THEN /\ pc' = [pc EXCEPT ![w] = "lock"]
          /\ UNCHANGED <<node, layer, searchVars, pending>>
     ELSE Finish(w)
  /\ UNCHANGED <<graphVars, entryVars, todo>>

\* The test again, under the entry point's write lock.
StillHigherUnchecked(w) == TRUE   \* mutant: the unlocked test alone decides
StillHigher(w) == levels[node[w]] > entry.level

Promote(w) ==
  /\ pc[w] = "lock"
  /\ IF StillHigher(w)
     THEN /\ entry' = [id |-> node[w], level |-> levels[node[w]]]
          /\ maxLevel' = levels[node[w]]
     ELSE UNCHANGED entryVars
  /\ Finish(w)
  /\ UNCHANGED <<graphVars, todo>>

-----------------------------------------------------------------------------
AllInserted == todo = {} /\ \A w \in Worker : pc[w] = "idle"

\* The pool is joined and build_parallel returns the graph.
Return == AllInserted /\ UNCHANGED vars

Init ==
  /\ levels \in [Node -> Layer]
  /\ links = [n \in Node |-> [l \in Layer |-> <<>>]]
  /\ entry = [id |-> 0, level |-> levels[0]]
  /\ maxLevel = levels[0]
  /\ todo = Node \ {0}
  /\ pc = [w \in Worker |-> "idle"]
  /\ node = [w \in Worker |-> 0]
  /\ layer = [w \in Worker |-> 0]
  /\ visited = [w \in Worker |-> {}]
  /\ frontier = [w \in Worker |-> {}]
  /\ found = [w \in Worker |-> {}]
  /\ pending = [w \in Worker |-> <<>>]

Step(w) ==
  \/ Start(w) \/ Expand(w) \/ Descend(w) \/ Connect(w) \/ PruneOwn(w)
  \/ LinkBack(w) \/ PruneBack(w) \/ NextLayer(w) \/ CheckPromote(w) \/ Promote(w)

Next == (\E w \in Worker : Step(w)) \/ Return

Spec == Init /\ [][Next]_vars

\* Threads of the pool keep running until the work is exhausted and every
\* lock is released before the next one is taken.
FairSpec == Spec /\ \A w \in Worker : WF_vars(Step(w))

-----------------------------------------------------------------------------
(* Type invariant                                                          *)

\* Every variable has its type; an absent layer has no list.
TypeOK ==
  /\ levels \in [Node -> Layer]
  /\ links \in [Node -> [Layer -> Seq(Node)]]
  /\ entry \in [id : Node, level : Layer]
  /\ maxLevel \in Layer
  /\ todo \in SUBSET (Node \ {0})
  /\ pc \in [Worker -> {"idle", "search", "pruneOwn", "reverse",
                        "pruneBack", "promote", "lock"}]
  /\ node \in [Worker -> Node]
  /\ layer \in [Worker -> Layer]
  /\ visited \in [Worker -> SUBSET Node]
  /\ frontier \in [Worker -> SUBSET Node]
  /\ found \in [Worker -> SUBSET Node]
  /\ pending \in [Worker -> Seq(Node)]

-----------------------------------------------------------------------------
(* Safety                                                                  *)

Targets(n, l) == {links[n][l][i] : i \in DOMAIN links[n][l]}
Busy(w) == pc[w] # "idle"
Inserted == {n \in Node \ todo : \A w \in Worker : Busy(w) => node[w] # n}

\* Worker w will still prune the list of n on layer l.
OwesPruneBack(w, n, l) ==
  pc[w] = "pruneBack" /\ layer[w] = l /\ Head(pending[w]) = n
OwesPruneOwn(w, n, l) ==
  pc[w] = "pruneOwn" /\ layer[w] = l /\ node[w] = n

\* A list over its limit is always about to be pruned: by each worker that
\* pushed a reverse edge onto it, or by the one that is inserting its node.
\* It overshoots by no more than one edge for each of the former and one
\* full selection for the latter, and when the pool is joined no list is
\* over the limit.
OvershootIsOwed ==
  \A n \in Node, l \in Layer :
    Len(links[n][l]) <=
      MaxLinks(l) + Cardinality({w \in Worker : OwesPruneBack(w, n, l)})
                  + (IF \E w \in Worker : OwesPruneOwn(w, n, l)
                     THEN MaxLinks(l) ELSE 0)

\* No node lists itself, although its own search can return it.
NoSelfLinks == \A n \in Node, l \in Layer : n \notin Targets(n, l)

\* An edge on layer l joins two nodes that have a layer l, whatever the
\* entry point was when its writer read it; so no reverse edge is skipped
\* and no search leaves its layer.
LinksStayOnLayer ==
  \A n \in Node, l \in Layer :
    \A t \in Targets(n, l) : HasLayer(n, l) /\ HasLayer(t, l)

\* Two nodes that select each other while both are being inserted are listed
\* twice: once as a forward and once as a reverse edge.  Never three times.
LinkedAtMostTwice ==
  \A n, t \in Node, l \in Layer :
    Cardinality({i \in DOMAIN links[n][l] : links[n][l][i] = t}) <= 2

\* A search that is going to connect a node always has a neighbour to offer
\* besides the node itself, so no node ends up without a link on layer 0.
InsertedIsLinked ==
  /\ \A w \in Worker : pc[w] = "search" /\ SearchOver(w) => Candidates(w) # {}
  /\ \A n \in Inserted \ {0} : links[n][0] # <<>>

\* An edge is one-way only if its target dropped the other direction: the
\* target's list is full, unless the edge's writer has yet to link back.
\* (Diversity pruning without keep_pruned may leave a list below its limit.)
OneWayMeansFull ==
  (PruneHeuristic => KeepPruned) =>
    \A n \in Node, l \in Layer : \A t \in Targets(n, l) :
      \/ n \in Targets(t, l)
      \/ Len(links[t][l]) >= MaxLinks(l)
      \/ \E w \in Worker : /\ node[w] = n /\ layer[w] = l
                           /\ pc[w] \in {"pruneOwn", "reverse", "pruneBack"}
                           /\ \E i \in DOMAIN pending[w] : pending[w][i] = t

\* What inserting the vectors one by one guarantees: on a layer of two nodes
\* or more, each of them has a link.  (A pool does not: the run that checks
\* this finds two nodes drawn above the entry point it was started from.)
UpperLayersLinked ==
  AllInserted =>
    \A l \in Layer : \A n, t \in {x \in Node : HasLayer(x, l)} :
      n # t => links[n][l] # <<>>

-----------------------------------------------------------------------------
(* Steps                                                                   *)

\* A list that has a link always keeps one: pruning never empties it.
NeverEmptied ==
  [][\A n \in Node, l \in Layer :
       links[n][l] # <<>> => links'[n][l] # <<>>]_vars

\* The two-step promotion, an unlocked look at max_level and a second look
\* under the lock, is one atomic "insert and promote if higher".
Sequential == INSTANCE EntryPoint WITH inserted <- Inserted
PromotesLikeSequential == Sequential!Spec

-----------------------------------------------------------------------------
(* Liveness                                                                *)

\* Every node is eventually inserted, with every edge it wrote pruned to the
\* limit and the entry point at the highest level that was drawn.
BuildFinishes ==
  <>[](/\ AllInserted
       /\ \A n \in Node : levels[n] <= entry.level
       /\ \A n \in Node, l \in Layer : Len(links[n][l]) <= MaxLinks(l))
=============================================================================
