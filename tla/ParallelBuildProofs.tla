------------------------ MODULE ParallelBuildProofs ------------------------
(***************************************************************************)
(* Theorems about ParallelBuild, for any number of nodes, workers and      *)
(* layers, any metric and any configuration that Config::validate accepts. *)
(***************************************************************************)
EXTENDS ParallelBuild, NeighbourSelectionProofs

-----------------------------------------------------------------------------
(* Facts about the operators                                               *)

LEMMA LimitType == \A l \in Layer : MaxLinks(l) \in Nat
  BY ConfigAssumption DEF MaxLinks

-----------------------------------------------------------------------------
(* Type correctness                                                        *)

\* Head(pending[w]) is defined where the code uses it.
PendingOK == \A w \in Worker : pc[w] = "pruneBack" => pending[w] # <<>>

TypeInv == TypeOK /\ PendingOK

\* The initial state of the build is well typed.
LEMMA TypeInit == Init => TypeInv
  BY BuildAssumption DEF Init, TypeInv, TypeOK, PendingOK, Layer

LEMMA LinksUpdate ==
  ASSUME TypeOK, NEW n \in Node, NEW l \in Layer, NEW list \in Seq(Node)
  PROVE  [links EXCEPT ![n][l] = list] \in [Node -> [Layer -> Seq(Node)]]
  BY DEF TypeOK

\* Every step keeps the types; one step of the proof per action.
LEMMA TypeStep == TypeInv /\ [Next]_vars => TypeInv'
<1> SUFFICES ASSUME TypeInv, [Next]_vars PROVE TypeInv'
  OBVIOUS
<1> USE DEF TypeInv, TypeOK, PendingOK
<1>a. Layer \subseteq Nat /\ 0 \in Layer
  BY BuildAssumption DEF Layer
<1>b. \A n \in Node : levels[n] \in Nat
  BY <1>a
<1>d. \A l \in Layer : l # 0 => l - 1 \in Layer
  BY BuildAssumption DEF Layer
<1>1. ASSUME NEW w \in Worker, Start(w) PROVE TypeInv'
  <2>1. PICK n \in todo : Start(w)!2!(n)
    BY <1>1 DEF Start
  <2>2. n \in Node /\ entry.id \in Node /\ entry.level \in Layer
    OBVIOUS
  <2>3. CASE entry.id = n
    BY <1>1, <2>1, <2>2, <2>3 DEF Start, graphVars, entryVars, searchVars
  <2>4. CASE entry.id # n
    <3>1. /\ pc' = [pc EXCEPT ![w] = "search"]
          /\ layer' = [layer EXCEPT ![w] = entry.level]
          /\ BeginSearch(w, n, {entry.id}, Beam(n, entry.level))
      BY <2>1, <2>4
    <3>2. /\ visited' \in [Worker -> SUBSET Node]
          /\ frontier' \in [Worker -> SUBSET Node]
          /\ found' \in [Worker -> SUBSET Node]
      <4> DEFINE best == Closest(n, {entry.id}, Beam(n, entry.level))
      <4>1. best \subseteq {entry.id}
        BY ClosestSubset
      <4>2. /\ visited'  = [visited  EXCEPT ![w] = {entry.id}]
            /\ frontier' = [frontier EXCEPT ![w] = {entry.id}]
            /\ found'    = [found    EXCEPT ![w] = best]
        BY <3>1 DEF BeginSearch
      <4> HIDE DEF best
      <4> QED BY <2>2, <4>1, <4>2
    <3>3. QED
      BY <1>1, <2>1, <2>2, <3>1, <3>2 DEF Start, graphVars, entryVars
  <2>5. QED
    BY <2>3, <2>4
<1>2. ASSUME NEW w \in Worker, Expand(w) PROVE TypeInv'
  <2>1. PICK c \in frontier[w] :
          LET fresh == Fresh(w, links[c][layer[w]])
              best  == Closest(node[w], found[w] \union fresh,
                               Beam(node[w], layer[w]))
          IN  /\ visited'  = [visited  EXCEPT ![w] = @ \union fresh]
              /\ found'    = [found    EXCEPT ![w] = best]
              /\ frontier' = [frontier EXCEPT ![w] = (@ \ {c}) \union (fresh \intersect best)]
    BY <1>2 DEF Expand
  <2> DEFINE fresh == Fresh(w, links[c][layer[w]])
             best == Closest(node[w], found[w] \union fresh, Beam(node[w], layer[w]))
  <2>2. c \in Node /\ links[c][layer[w]] \in Seq(Node)
    OBVIOUS
  <2>3. fresh \subseteq Node
    BY <2>2 DEF Fresh
  <2>4. best \subseteq Node
    BY <2>3, ClosestSubset
  <2> HIDE DEF fresh, best
  <2>5. /\ visited' \in [Worker -> SUBSET Node]
        /\ found' \in [Worker -> SUBSET Node]
        /\ frontier' \in [Worker -> SUBSET Node]
    BY <2>1, <2>3, <2>4 DEF fresh, best
  <2>6. QED
    BY <1>2, <2>5 DEF Expand, graphVars, entryVars
<1>3. ASSUME NEW w \in Worker, Descend(w) PROVE TypeInv'
  <2>1. layer[w] - 1 \in Layer
    <3>1. layer[w] \in Layer /\ node[w] \in Node /\ ~(layer[w] <= levels[node[w]])
      BY <1>3 DEF Descend, Connects
    <3>2. layer[w] # 0
      BY <1>a, <1>b, <3>1
    <3>3. QED
      BY <1>d, <3>1, <3>2
  <2>2. QED
    BY <1>3, <2>1, ClosestSubset DEF Descend, BeginSearch, graphVars, entryVars
<1>4. ASSUME NEW w \in Worker, Connect(w) PROVE TypeInv'
  <2> DEFINE edges == [c \in Candidates(w) |-> c]
             m == MaxLinks(layer[w])
  <2>1. PICK selected \in Selections(node[w], edges, m, UseHeuristic) :
          /\ links' = [links EXCEPT ![node[w]][layer[w]] = @ \o selected]
          /\ pending' = [pending EXCEPT ![w] = selected]
    BY <1>4 DEF Connect
  <2>2. m \in Nat /\ \A d \in DOMAIN edges : edges[d] \in Node
    BY LimitType DEF Candidates
  <2>3. selected \in Seq(Node)
    BY <2>2, SelectionsDrawn DEF DrawnFrom
  <2>4. links' \in [Node -> [Layer -> Seq(Node)]]
    BY <2>1, <2>3, LinksUpdate
  <2>5. pending' \in [Worker -> Seq(Node)]
    BY <2>1, <2>3
  <2>6. QED
    BY <1>4, <2>4, <2>5 DEF Connect, entryVars, searchVars
<1>c. ASSUME NEW n \in Node, NEW l \in Layer, PruneNode(n, l)
      PROVE  links' \in [Node -> [Layer -> Seq(Node)]]
  <2>1. PICK list \in Pruned(n, links[n][l], MaxLinks(l), PruneHeuristic) :
          links' = [links EXCEPT ![n][l] = list]
    BY <1>c DEF PruneNode
  <2>2. list \in Seq(Node)
    <3>1. links[n][l] \in Seq(Node) /\ MaxLinks(l) \in Nat
      BY LimitType
    <3>2. QED
      BY <3>1, PrunedDrawn DEF DrawnFrom
  <2>3. QED
    BY <2>1, <2>2, LinksUpdate
<1>5. ASSUME NEW w \in Worker, PruneOwn(w) PROVE TypeInv'
  BY <1>5, <1>c DEF PruneOwn, entryVars, searchVars
<1>6. ASSUME NEW w \in Worker, LinkBack(w) PROVE TypeInv'
  <2> DEFINE nb == Head(pending[w])
  <2>1. nb \in Node /\ Tail(pending[w]) \in Seq(Node)
    BY <1>6 DEF LinkBack
  <2>2. links[nb][layer[w]] \o ReverseEdge(w) \in Seq(Node)
    BY <2>1 DEF ReverseEdge
  <2>3. CASE HasLayer(nb, layer[w])
    <3>1. links' = [links EXCEPT ![nb][layer[w]] = links[nb][layer[w]] \o ReverseEdge(w)]
      BY <1>6, <2>3, <2>1 DEF LinkBack
    <3>2. links' \in [Node -> [Layer -> Seq(Node)]]
      BY <3>1, <2>1, <2>2, LinksUpdate
    <3>3. QED
      BY <1>6, <2>3, <3>2 DEF LinkBack, entryVars, searchVars
  <2>4. CASE ~HasLayer(nb, layer[w])
    BY <1>6, <2>4, <2>1 DEF LinkBack, entryVars, searchVars
  <2>5. QED
    BY <2>3, <2>4
<1>7. ASSUME NEW w \in Worker, PruneBack(w) PROVE TypeInv'
  <2>1. Head(pending[w]) \in Node /\ Tail(pending[w]) \in Seq(Node)
    BY <1>7 DEF PruneBack
  <2>2. links' \in [Node -> [Layer -> Seq(Node)]]
    BY <1>7, <1>c, <2>1 DEF PruneBack
  <2>3. QED
    BY <1>7, <2>1, <2>2 DEF PruneBack, entryVars, searchVars
<1>8. ASSUME NEW w \in Worker, NextLayer(w) PROVE TypeInv'
  <2>1. ~LastLayer(w) => layer[w] - 1 \in Layer
    BY <1>d DEF LastLayer
  <2>2. QED
    <3>1. CASE LastLayer(w)
      BY <1>8, <3>1 DEF NextLayer, graphVars, entryVars, searchVars
    <3>2. CASE ~LastLayer(w)
      <4>1. /\ pc' = [pc EXCEPT ![w] = "search"]
            /\ layer' = [layer EXCEPT ![w] = @ - 1]
            /\ BeginSearch(w, node[w], found[w], EfConstruction)
            /\ UNCHANGED <<graphVars, entryVars, todo, node, pending>>
        BY <1>8, <3>2 DEF NextLayer
      <4>2. /\ visited' \in [Worker -> SUBSET Node]
            /\ frontier' \in [Worker -> SUBSET Node]
            /\ found' \in [Worker -> SUBSET Node]
        BY <4>1, ClosestSubset DEF BeginSearch
      <4>3. QED
        BY <2>1, <3>2, <4>1, <4>2 DEF graphVars, entryVars
    <3>3. QED
      BY <3>1, <3>2
<1>9. ASSUME NEW w \in Worker, CheckPromote(w) PROVE TypeInv'
  <2>1. CASE levels[node[w]] > maxLevel
    BY <1>9, <2>1 DEF CheckPromote, graphVars, entryVars, searchVars
  <2>2. CASE ~(levels[node[w]] > maxLevel)
    <3>1. Finish(w) /\ UNCHANGED <<graphVars, entryVars, todo>>
      BY <1>9, <2>2 DEF CheckPromote
    <3>2. QED
      BY <1>a, <3>1, BuildAssumption DEF Finish, graphVars, entryVars
  <2>3. QED
    BY <2>1, <2>2
<1>10. ASSUME NEW w \in Worker, Promote(w) PROVE TypeInv'
  BY <1>10, <1>a, BuildAssumption DEF Promote, Finish, graphVars, entryVars
<1>11. CASE UNCHANGED vars
  BY <1>11 DEF vars
<1>12. QED
  BY <1>1, <1>2, <1>3, <1>4, <1>5, <1>6, <1>7, <1>8, <1>9, <1>10, <1>11
  DEF Next, Step, Return

\* Every variable of the build always has its type, whatever the number of
\* nodes and workers.
THEOREM TypeCorrect == Spec => []TypeOK
<1>1. TypeInv => TypeOK
  BY DEF TypeInv
<1>2. QED
  BY <1>1, TypeInit, TypeStep, PTL DEF Spec

-----------------------------------------------------------------------------
(* Who inserts what                                                        *)

\* A busy worker has taken its node off the list, and has it to itself.
OwnInv ==
  /\ \A w \in Worker : Busy(w) => node[w] # 0 /\ node[w] \notin todo
  /\ \A v, w \in Worker : Busy(v) /\ Busy(w) /\ v # w => node[v] # node[w]

\* What a step does to the ownership of nodes: a worker takes one, hands it
\* in, or keeps it.
Takes(w) ==
  \E n \in todo : /\ ~Busy(w) /\ todo' = todo \ {n}
                  /\ node' = [node EXCEPT ![w] = n]
                  /\ \E at \in {"search", "promote"} : pc' = [pc EXCEPT ![w] = at]
                  /\ UNCHANGED <<levels, entry, maxLevel>>
Keeps(w) ==
  /\ Busy(w) /\ UNCHANGED <<levels, entry, maxLevel, todo, node>>
  /\ \E at \in {"search", "pruneOwn", "reverse", "pruneBack", "promote", "lock"} :
       pc' = [pc EXCEPT ![w] = at]
HandsIn(w) ==
  Finish(w) /\ (CheckPromote(w) \/ Promote(w))

LEMMA OwnershipSteps ==
  ASSUME TypeInv, NEW w \in Worker, Step(w)
  PROVE  Takes(w) \/ Keeps(w) \/ HandsIn(w)
<1> USE DEF TypeInv, TypeOK, Busy
<1>1. CASE Start(w)
  BY <1>1 DEF Start, Takes, graphVars, entryVars
<1>2. CASE Expand(w)
  BY <1>2 DEF Expand, Keeps, graphVars, entryVars
<1>3. CASE Descend(w)
  BY <1>3 DEF Descend, Keeps, graphVars, entryVars
<1>4. CASE Connect(w)
  BY <1>4 DEF Connect, Keeps, entryVars
<1>5. CASE PruneOwn(w)
  BY <1>5 DEF PruneOwn, Keeps, entryVars
<1>6. CASE LinkBack(w)
  BY <1>6 DEF LinkBack, Keeps, entryVars
<1>7. CASE PruneBack(w)
  BY <1>7 DEF PruneBack, Keeps, entryVars
<1>8. CASE NextLayer(w)
  BY <1>8 DEF NextLayer, Keeps, graphVars, entryVars
<1>9. CASE CheckPromote(w)
  BY <1>9 DEF CheckPromote, Keeps, HandsIn, graphVars, entryVars
<1>10. CASE Promote(w)
  BY <1>10 DEF Promote, HandsIn
<1>11. QED
  BY <1>1, <1>2, <1>3, <1>4, <1>5, <1>6, <1>7, <1>8, <1>9, <1>10 DEF Step

LEMMA OwnStep == TypeInv /\ OwnInv /\ [Next]_vars => OwnInv'
<1> SUFFICES ASSUME TypeInv, OwnInv, [Next]_vars PROVE OwnInv'
  OBVIOUS
<1> USE DEF OwnInv, Busy, TypeInv, TypeOK
<1>1. ASSUME NEW w \in Worker, Takes(w) PROVE OwnInv'
  <2>1. PICK n \in todo, at \in {"search", "promote"} :
          /\ ~Busy(w) /\ todo' = todo \ {n}
          /\ node' = [node EXCEPT ![w] = n]
          /\ pc' = [pc EXCEPT ![w] = at]
    BY <1>1 DEF Takes
  <2>2. /\ node'[w] = n /\ n \in Node \ {0}
        /\ \A v \in Worker \ {w} : node'[v] = node[v] /\ pc'[v] = pc[v]
    BY <2>1
  <2>3. \A v \in Worker \ {w} : Busy(v) => node[v] # n
    BY <2>1
  <2>4. /\ \A v \in Worker \ {w} : Busy(v)' <=> Busy(v)
        /\ \A x : x \in todo' <=> x \in todo /\ x # n
    BY <2>1, <2>2
  <2>5. \A v \in Worker : Busy(v)' => node'[v] # 0 /\ node'[v] \notin todo'
    <3> HIDE DEF Busy, TypeInv, TypeOK
    <3> QED BY <2>2, <2>4
  <2>6. \A u, v \in Worker : Busy(u)' /\ Busy(v)' /\ u # v => node'[u] # node'[v]
    <3> HIDE DEF Busy, TypeInv, TypeOK
    <3> QED BY <2>2, <2>3, <2>4
  <2>7. QED
    BY <2>5, <2>6
<1>2. ASSUME NEW w \in Worker, Keeps(w) PROVE OwnInv'
  BY <1>2 DEF Keeps
<1>3. ASSUME NEW w \in Worker, HandsIn(w) PROVE OwnInv'
  BY <1>3 DEF HandsIn, Finish, CheckPromote, Promote
<1>4. CASE UNCHANGED vars
  BY <1>4 DEF vars
<1>5. QED
  BY <1>1, <1>2, <1>3, <1>4, OwnershipSteps DEF Next, Return

-----------------------------------------------------------------------------
(* The entry point                                                         *)

\* The set of inserted nodes changes only when a worker hands its node in.
LEMMA InsertedSteps ==
  ASSUME TypeInv, OwnInv, NEW w \in Worker
  PROVE  /\ Takes(w) => Inserted' = Inserted
         /\ Keeps(w) => Inserted' = Inserted
         /\ HandsIn(w) => /\ node[w] \notin Inserted
                          /\ Inserted' = Inserted \union {node[w]}
<1> USE DEF OwnInv, Busy, TypeInv, TypeOK, Inserted
<1>1. ASSUME Takes(w) PROVE Inserted' = Inserted
  <2>1. PICK n \in todo : /\ ~Busy(w) /\ todo' = todo \ {n}
                          /\ node' = [node EXCEPT ![w] = n]
    BY <1>1 DEF Takes
  <2>2. /\ node'[w] = n /\ Busy(w)'
        /\ \A v \in Worker \ {w} : node'[v] = node[v] /\ (Busy(v)' <=> Busy(v))
    BY <1>1, <2>1 DEF Takes
  <2>3. \A x : x \in Inserted' <=> x \in Inserted
    BY <2>1, <2>2
  <2>4. QED
    BY <2>3
<1>2. ASSUME Keeps(w) PROVE Inserted' = Inserted
  <2>1. \A v \in Worker : Busy(v)' <=> Busy(v)
    BY <1>2 DEF Keeps
  <2>2. UNCHANGED <<todo, node>>
    BY <1>2 DEF Keeps
  <2>3. QED
    BY <2>1, <2>2
<1>3. ASSUME HandsIn(w)
      PROVE  node[w] \notin Inserted /\ Inserted' = Inserted \union {node[w]}
  <2>1. Busy(w) /\ todo' = todo
    BY <1>3 DEF HandsIn, CheckPromote, Promote
  <2>2. /\ pc' = [pc EXCEPT ![w] = "idle"]
        /\ \A v \in Worker \ {w} : node'[v] = node[v]
    BY <1>3 DEF HandsIn, Finish
  <2>3. ~Busy(w)' /\ \A v \in Worker \ {w} : Busy(v)' <=> Busy(v)
    BY <2>2
  <2>4. node[w] \in Node \ todo /\ \A v \in Worker \ {w} : Busy(v) => node[v] # node[w]
    BY <2>1
  <2>5. node[w] \notin Inserted
    BY <2>1
  <2>6. \A x : x \in Inserted' <=> x \in Inserted \/ x = node[w]
    <3> HIDE DEF Busy
    <3> QED BY <2>1, <2>2, <2>3, <2>4
  <2>7. QED
    BY <2>5, <2>6
<1>4. QED
  BY <1>1, <1>2, <1>3

\* What the workers know of the entry point: it is inserted, its level is
\* its node's, max_level agrees and nothing inserted is higher.
EntryInv ==
  /\ Sequential!EntryIsTop
  /\ maxLevel = entry.level

\* A worker's step is an insertion of the sequential specification, or
\* leaves what that specification sees alone.
LEMMA RefinementStep ==
  ASSUME TypeInv, OwnInv, EntryInv, [Next]_vars
  PROVE  [Sequential!Next]_(Sequential!vars)
<1> USE DEF TypeInv, TypeOK, EntryInv, Sequential!vars
<1>1. ASSUME NEW w \in Worker, Takes(w) PROVE UNCHANGED Sequential!vars
  BY <1>1, InsertedSteps DEF Takes
<1>2. ASSUME NEW w \in Worker, Keeps(w) PROVE UNCHANGED Sequential!vars
  BY <1>2, InsertedSteps DEF Keeps
<1>3. ASSUME NEW w \in Worker, HandsIn(w) PROVE Sequential!Insert(node[w])
  <2>1. node[w] \notin Inserted /\ Inserted' = Inserted \union {node[w]}
    BY <1>3, InsertedSteps
  <2>2. /\ levels' = levels
        /\ entry' = IF levels[node[w]] > entry.level
                    THEN [id |-> node[w], level |-> levels[node[w]]]
                    ELSE entry
    <3>1. CASE Promote(w)
      BY <3>1 DEF Promote, StillHigher, graphVars, entryVars
    <3>2. CASE CheckPromote(w)
      <4>1. pc'[w] = "idle"
        BY <1>3 DEF HandsIn, Finish
      <4>2. ~(levels[node[w]] > maxLevel)
        BY <3>2, <4>1 DEF CheckPromote
      <4>3. QED
        BY <3>2, <4>2 DEF CheckPromote, graphVars, entryVars
    <3>3. QED
      BY <1>3, <3>1, <3>2 DEF HandsIn
  <2>3. QED
    BY <2>1, <2>2 DEF Sequential!Insert
<1>4. CASE UNCHANGED vars
  BY <1>4 DEF vars, Inserted, Busy
<1>5. QED
  BY <1>1, <1>2, <1>3, <1>4, OwnershipSteps DEF Next, Return, Sequential!Next

LEMMA EntryStep == TypeInv /\ OwnInv /\ EntryInv /\ [Next]_vars => EntryInv'
<1> SUFFICES ASSUME TypeInv, OwnInv, EntryInv, [Next]_vars PROVE EntryInv'
  OBVIOUS
<1> USE DEF TypeInv, TypeOK, EntryInv, Sequential!EntryIsTop
<1>1. ASSUME NEW w \in Worker, Takes(w) \/ Keeps(w) PROVE EntryInv'
  <2>1. Inserted' = Inserted
    BY <1>1, InsertedSteps
  <2>2. UNCHANGED <<levels, entry, maxLevel>>
    BY <1>1 DEF Takes, Keeps
  <2>3. QED
    BY <2>1, <2>2
<1>2. ASSUME NEW w \in Worker, HandsIn(w) PROVE EntryInv'
  <2>1. Inserted' = Inserted \union {node[w]} /\ Inserted \subseteq Node
    BY <1>2, InsertedSteps DEF Inserted
  <2>a. \A n \in Node : levels[n] \in Nat
    BY DEF Layer
  <2>2. CASE Promote(w) /\ StillHigher(w)
    BY <2>1, <2>2, <2>a DEF Promote, StillHigher, graphVars
  <2>3. CASE Promote(w) /\ ~StillHigher(w)
    BY <2>1, <2>3, <2>a DEF Promote, StillHigher, graphVars, entryVars
  <2>4. CASE CheckPromote(w)
    <3>1. pc'[w] = "idle"
      BY <1>2 DEF HandsIn, Finish
    <3>2. ~(levels[node[w]] > maxLevel) /\ UNCHANGED <<levels, entry, maxLevel>>
      BY <2>4, <3>1 DEF CheckPromote, graphVars, entryVars
    <3>3. QED
      BY <2>1, <2>a, <3>2
  <2>5. QED
    BY <1>2, <2>2, <2>3, <2>4 DEF HandsIn
<1>3. CASE UNCHANGED vars
  BY <1>3 DEF vars, Inserted, Busy
<1>4. QED
  BY <1>1, <1>2, <1>3, OwnershipSteps DEF Next, Return

LEMMA EntryInit == Init => OwnInv /\ EntryInv /\ Sequential!Init
<1> SUFFICES ASSUME Init PROVE OwnInv /\ EntryInv /\ Sequential!Init
  OBVIOUS
<1>1. Inserted = {0}
  BY BuildAssumption DEF Init, Inserted, Busy
<1>2. OwnInv
  BY DEF Init, OwnInv, Busy
<1>3. EntryInv
  BY <1>1, BuildAssumption DEF Init, EntryInv, Sequential!EntryIsTop, Layer
<1>4. QED
  BY <1>1, <1>2, <1>3 DEF Init, Sequential!Init

\* The pool promotes entry points exactly as if the nodes had been inserted
\* one after another in some order: the unlocked test of max_level and the
\* second test under the lock lose no promotion and never undo one.
THEOREM PromotionRefines == Spec => PromotesLikeSequential
<1>1. Init => TypeInv /\ OwnInv /\ EntryInv /\ Sequential!Init
  BY TypeInit, EntryInit
<1>2. TypeInv /\ OwnInv /\ EntryInv /\ [Next]_vars
        => (TypeInv /\ OwnInv /\ EntryInv)' /\ [Sequential!Next]_(Sequential!vars)
  BY TypeStep, OwnStep, EntryStep, RefinementStep
<1>3. QED
  BY <1>1, <1>2, PTL DEF Spec, PromotesLikeSequential, Sequential!Spec
-----------------------------------------------------------------------------
(* The graph                                                               *)

\* What a worker carries about the layer it works on: the nodes its search
\* holds reach the layer, and the neighbours it selected are others.
CarriesOK(w) ==
  /\ pc[w] = "search" =>
       \A x \in frontier[w] \union found[w] : HasLayer(x, layer[w])
  /\ pc[w] \in {"pruneOwn", "reverse", "pruneBack"} =>
       /\ HasLayer(node[w], layer[w])
       /\ \A x \in found[w] : HasLayer(x, layer[w])
       /\ \A i \in DOMAIN pending[w] :
            HasLayer(pending[w][i], layer[w]) /\ pending[w][i] # node[w]

\* An edge that may be in the list of n on layer l.
EdgeOK(n, l, t) == HasLayer(n, l) /\ HasLayer(t, l) /\ t # n

LinksInv ==
  /\ \A n \in Node, l \in Layer :
       \A i \in DOMAIN links[n][l] : EdgeOK(n, l, links[n][l][i])
  /\ \A w \in Worker : CarriesOK(w)

LEMMA LinksInvMeans == LinksInv => NoSelfLinks /\ LinksStayOnLayer
  BY DEF LinksInv, EdgeOK, NoSelfLinks, LinksStayOnLayer, Targets

\* Replacing one list by a list of permitted edges keeps the graph sound.
LEMMA EdgesUpdate ==
  ASSUME TypeInv, LinksInv, UNCHANGED levels,
         NEW n \in Node, NEW l \in Layer, NEW list \in Seq(Node),
         \A i \in DOMAIN list : EdgeOK(n, l, list[i]),
         links' = [links EXCEPT ![n][l] = list]
  PROVE  (\A a \in Node, b \in Layer :
            \A i \in DOMAIN links[a][b] : EdgeOK(a, b, links[a][b][i]))'
<1> SUFFICES ASSUME NEW a \in Node, NEW b \in Layer, NEW i \in DOMAIN links'[a][b]
             PROVE  EdgeOK(a, b, links[a][b][i])'
  OBVIOUS
<1> USE DEF TypeInv, TypeOK, EdgeOK, HasLayer
<1>1. CASE a = n /\ b = l
  <2>1. links'[a][b] = list
    BY <1>1
  <2>2. QED
    BY <1>1, <2>1
<1>2. CASE ~(a = n /\ b = l)
  <2>1. links'[a][b] = links[a][b]
    BY <1>2
  <2>2. QED
    BY <2>1 DEF LinksInv
<1>3. QED
  BY <1>1, <1>2

\* Appending permitted edges to permitted edges.
LEMMA ConcatEdges ==
  ASSUME NEW n, NEW l, NEW s \in Seq(Node), NEW t \in Seq(Node),
         \A i \in DOMAIN s : EdgeOK(n, l, s[i]),
         \A i \in DOMAIN t : EdgeOK(n, l, t[i])
  PROVE  /\ s \o t \in Seq(Node)
         /\ \A i \in DOMAIN (s \o t) : EdgeOK(n, l, (s \o t)[i])
  BY ConcatElements

\* A search begun from nodes of the layer holds nodes of the layer.
LEMMA BeginSearchOn ==
  ASSUME TypeInv, NEW w \in Worker, NEW n, NEW entries \in SUBSET Node, NEW ef,
         BeginSearch(w, n, entries, ef), NEW l,
         \A x \in entries : HasLayer(x, l)
  PROVE  \A x \in frontier'[w] \union found'[w] : HasLayer(x, l)
  BY ClosestSubset DEF BeginSearch, TypeInv, TypeOK

\* A step changes the locals of the worker that takes it only.
LEMMA OthersUnchanged ==
  ASSUME TypeInv, NEW w \in Worker, Step(w), NEW v \in Worker, v # w
  PROVE  /\ pc'[v] = pc[v] /\ layer'[v] = layer[v] /\ node'[v] = node[v]
         /\ frontier'[v] = frontier[v] /\ found'[v] = found[v]
         /\ pending'[v] = pending[v] /\ levels' = levels
  BY DEF TypeInv, TypeOK, Step, Start, Expand, Descend, Connect, PruneOwn,
         LinkBack, PruneBack, NextLayer, CheckPromote, Promote, Finish,
         BeginSearch, graphVars, entryVars, searchVars

LEMMA OthersCarry ==
  ASSUME TypeInv, LinksInv, NEW w \in Worker, Step(w),
         NEW v \in Worker, v # w
  PROVE  CarriesOK(v)'
  BY OthersUnchanged DEF LinksInv, CarriesOK, HasLayer
\* Pruning a list keeps permitted edges only.
LEMMA PruneKeepsEdges ==
  ASSUME TypeInv, LinksInv, UNCHANGED levels,
         NEW n \in Node, NEW l \in Layer, PruneNode(n, l)
  PROVE  (\A a \in Node, b \in Layer :
            \A i \in DOMAIN links[a][b] : EdgeOK(a, b, links[a][b][i]))'
<1>1. PICK list \in Pruned(n, links[n][l], MaxLinks(l), PruneHeuristic) :
        links' = [links EXCEPT ![n][l] = list]
  BY DEF PruneNode
<1>2. links[n][l] \in Seq(Node) /\ MaxLinks(l) \in Nat
  BY LimitType DEF TypeInv, TypeOK
<1>3. /\ list \in Seq(Node)
      /\ \A i \in DOMAIN list : \E d \in DOMAIN links[n][l] : list[i] = links[n][l][d]
  BY <1>2, PrunedDrawn DEF DrawnFrom
<1>4. \A i \in DOMAIN list : EdgeOK(n, l, list[i])
  BY <1>3 DEF LinksInv
<1>5. QED
  BY <1>1, <1>3, <1>4, EdgesUpdate

LEMMA LinksStep == TypeInv /\ EntryInv /\ LinksInv /\ [Next]_vars => LinksInv'
<1> SUFFICES ASSUME TypeInv, EntryInv, LinksInv, [Next]_vars PROVE LinksInv'
  OBVIOUS
<1> USE DEF TypeInv, TypeOK
<1> DEFINE EdgesInv == \A a \in Node, b \in Layer :
                         \A i \in DOMAIN links[a][b] : EdgeOK(a, b, links[a][b][i])
<1>a. UNCHANGED graphVars => EdgesInv'
  BY DEF LinksInv, EdgeOK, HasLayer, graphVars
<1>b. (\A n \in Node : levels[n] \in Nat) /\ Layer \subseteq Nat
  BY BuildAssumption DEF Layer
<1>c. ASSUME NEW w \in Worker, \A x \in found[w] : HasLayer(x, layer[w])
      PROVE  \A x \in found[w] : HasLayer(x, layer[w] - 1)
  <2>1. found[w] \subseteq Node /\ layer[w] \in Nat
    BY <1>b
  <2>2. QED
    BY <1>b, <1>c, <2>1 DEF HasLayer
<1>1. ASSUME NEW w \in Worker, Start(w) PROVE EdgesInv' /\ CarriesOK(w)'
  <2>1. PICK n \in todo : Start(w)!2!(n)
    BY <1>1 DEF Start
  <2>2. UNCHANGED levels /\ EdgesInv'
    BY <1>1, <1>a DEF Start, graphVars
  <2>3. CASE entry.id = n
    BY <2>1, <2>2, <2>3 DEF CarriesOK
  <2>4. CASE entry.id # n
    <3>1. /\ BeginSearch(w, n, {entry.id}, Beam(n, entry.level))
          /\ layer'[w] = entry.level /\ pc'[w] = "search"
      BY <2>1, <2>4
    <3>2. entry.id \in Node /\ \A x \in {entry.id} : HasLayer(x, entry.level)
      <4>1. entry.id \in Node /\ levels[entry.id] \in Nat
        BY <1>b
      <4>2. entry.level = levels[entry.id]
        BY DEF EntryInv, Sequential!EntryIsTop
      <4>3. QED
        BY <4>1, <4>2 DEF HasLayer
    <3>3. \A x \in frontier'[w] \union found'[w] : HasLayer(x, entry.level)
      <4> DEFINE entries == {entry.id}
                 ef == Beam(n, entry.level)
                 l == entry.level
      <4>1. /\ entries \in SUBSET Node /\ \A x \in entries : HasLayer(x, l)
            /\ BeginSearch(w, n, entries, ef)
        BY <3>1, <3>2
      <4> HIDE DEF entries, ef, l
      <4>2. \A x \in frontier'[w] \union found'[w] : HasLayer(x, l)
        BY <4>1, BeginSearchOn
      <4>3. QED
        BY <4>2 DEF l
    <3>4. QED
      BY <2>2, <3>1, <3>3 DEF CarriesOK, HasLayer
  <2>5. QED
    BY <2>3, <2>4
<1>2. ASSUME NEW w \in Worker, Expand(w) PROVE EdgesInv' /\ CarriesOK(w)'
  <2>1. PICK c \in frontier[w] :
          LET fresh == Fresh(w, links[c][layer[w]])
              best  == Closest(node[w], found[w] \union fresh,
                               Beam(node[w], layer[w]))
          IN  /\ found'    = [found    EXCEPT ![w] = best]
              /\ frontier' = [frontier EXCEPT ![w] = (@ \ {c}) \union (fresh \intersect best)]
    BY <1>2 DEF Expand
  <2> DEFINE fresh == Fresh(w, links[c][layer[w]])
             best == Closest(node[w], found[w] \union fresh, Beam(node[w], layer[w]))
  <2>2. /\ pc[w] = "search" /\ pc'[w] = "search" /\ layer'[w] = layer[w]
        /\ levels' = levels
        /\ UNCHANGED graphVars
    BY <1>2 DEF Expand, graphVars
  <2>3. c \in Node /\ layer[w] \in Layer
    OBVIOUS
  <2>4. \A x \in fresh : HasLayer(x, layer[w])
    BY <2>3 DEF Fresh, LinksInv, EdgeOK
  <2>5. best \subseteq found[w] \union fresh
    BY ClosestSubset
  <2> HIDE DEF fresh, best
  <2>6. /\ found'[w] = best
        /\ frontier'[w] = (frontier[w] \ {c}) \union (fresh \intersect best)
    BY <2>1 DEF fresh, best
  <2>7. \A x \in frontier[w] \union found[w] : HasLayer(x, layer[w])
    BY <2>2 DEF LinksInv, CarriesOK
  <2>8. \A x \in frontier'[w] \union found'[w] : HasLayer(x, layer[w])
    BY <2>4, <2>5, <2>6, <2>7
  <2>9. QED
    BY <1>a, <2>2, <2>8 DEF CarriesOK, HasLayer
<1>3. ASSUME NEW w \in Worker, Descend(w) PROVE EdgesInv' /\ CarriesOK(w)'
  <2>1. /\ BeginSearch(w, node[w], found[w], Beam(node[w], layer[w] - 1))
        /\ pc[w] = "search" /\ pc'[w] = "search" /\ layer'[w] = layer[w] - 1
        /\ UNCHANGED graphVars
    BY <1>3 DEF Descend, graphVars
  <2>2. \A x \in found[w] : HasLayer(x, layer[w] - 1)
    <3>1. \A x \in found[w] : HasLayer(x, layer[w])
      BY <2>1 DEF LinksInv, CarriesOK
    <3>2. QED
      BY <1>c, <3>1
  <2>3. \A x \in frontier'[w] \union found'[w] : HasLayer(x, layer[w] - 1)
    BY <2>1, <2>2, BeginSearchOn
  <2>4. QED
    BY <1>a, <2>1, <2>3 DEF CarriesOK, HasLayer, graphVars
<1>4. ASSUME NEW w \in Worker, Connect(w) PROVE EdgesInv' /\ CarriesOK(w)'
  <2> DEFINE edges == [c \in Candidates(w) |-> c]
             n == node[w]
             l == layer[w]
  <2>1. PICK selected \in Selections(n, edges, MaxLinks(l), UseHeuristic) :
          /\ links' = [links EXCEPT ![n][l] = links[n][l] \o selected]
          /\ pending' = [pending EXCEPT ![w] = selected]
    BY <1>4 DEF Connect
  <2>2. /\ pc[w] = "search" /\ pc'[w] = "pruneOwn" /\ HasLayer(n, l)
        /\ UNCHANGED <<levels, node, layer, found>>
    BY <1>4 DEF Connect, Connects, HasLayer, searchVars
  <2>3. \A x \in found[w] : HasLayer(x, l)
    BY <2>2 DEF LinksInv, CarriesOK
  <2>4. \A d \in DOMAIN edges : edges[d] \in Node /\ EdgeOK(n, l, edges[d])
    BY <2>2, <2>3 DEF Candidates, EdgeOK
  <2>5. /\ selected \in Seq(Node)
        /\ \A i \in DOMAIN selected : \E d \in DOMAIN edges : selected[i] = edges[d]
    <3>1. MaxLinks(l) \in Nat
      BY LimitType
    <3>2. \A d \in DOMAIN edges : edges[d] \in Node
      BY <2>4
    <3> HIDE DEF edges
    <3>3. DrawnFrom(selected, edges, MaxLinks(l))
      BY <3>1, <3>2, SelectionsDrawn
    <3>4. QED
      BY <3>3 DEF DrawnFrom
  <2>6. \A i \in DOMAIN selected : EdgeOK(n, l, selected[i])
    BY <2>4, <2>5
  <2> DEFINE list == links[n][l] \o selected
  <2>7. list \in Seq(Node) /\ \A i \in DOMAIN list : EdgeOK(n, l, list[i])
    <3>1. links[n][l] \in Seq(Node)
      OBVIOUS
    <3>2. \A i \in DOMAIN links[n][l] : EdgeOK(n, l, links[n][l][i])
      BY DEF LinksInv
    <3> DEFINE old == links[n][l]
    <3> HIDE DEF old
    <3>3. /\ old \o selected \in Seq(Node)
          /\ \A i \in DOMAIN (old \o selected) : EdgeOK(n, l, (old \o selected)[i])
      BY <2>5, <2>6, <3>1, <3>2, ConcatEdges DEF old
    <3>4. QED
      BY <3>3 DEF old
  <2>8. EdgesInv'
    BY <2>1, <2>2, <2>7, EdgesUpdate
  <2>9. pending'[w] = selected
    BY <2>1
  <2>10. CarriesOK(w)'
    BY <2>2, <2>3, <2>6, <2>9 DEF CarriesOK, HasLayer, EdgeOK
  <2>11. QED
    BY <2>8, <2>10
<1>5. ASSUME NEW w \in Worker, PruneOwn(w) PROVE EdgesInv' /\ CarriesOK(w)'
  <2>1. /\ pc[w] = "pruneOwn" /\ pc'[w] = "reverse"
        /\ UNCHANGED <<levels, node, layer, found, pending>>
    BY <1>5 DEF PruneOwn, searchVars
  <2>2. EdgesInv'
    BY <1>5, <2>1, PruneKeepsEdges DEF PruneOwn
  <2>3. QED
    BY <2>1, <2>2 DEF LinksInv, CarriesOK, HasLayer
<1>6. ASSUME NEW w \in Worker, LinkBack(w) PROVE EdgesInv' /\ CarriesOK(w)'
  <2> DEFINE nb == Head(pending[w])
             list == links[nb][layer[w]] \o ReverseEdge(w)
  <2>1. /\ pc[w] = "reverse" /\ pending[w] # <<>>
        /\ UNCHANGED <<levels, node, layer, found>>
    BY <1>6 DEF LinkBack, searchVars
  <2>2. /\ nb \in Node /\ pending[w] \in Seq(Node)
        /\ HasLayer(nb, layer[w]) /\ nb # node[w] /\ HasLayer(node[w], layer[w])
    <3>1. pending[w] \in Seq(Node) /\ CarriesOK(w)
      BY DEF LinksInv
    <3>2. nb \in Node /\ 1 \in DOMAIN pending[w] /\ nb = pending[w][1]
      BY <2>1, <3>1, HeadTailElements
    <3>3. QED
      BY <2>1, <3>1, <3>2 DEF CarriesOK
  <2>3. /\ links' = [links EXCEPT ![nb][layer[w]] = list]
        /\ pc'[w] = "pruneBack" /\ pending' = pending
    BY <1>6, <2>2 DEF LinkBack
  <2>4. list \in Seq(Node) /\ \A i \in DOMAIN list : EdgeOK(nb, layer[w], list[i])
    <3> DEFINE old == links[nb][layer[w]]
               back == ReverseEdge(w)
    <3>1. old \in Seq(Node) /\ \A i \in DOMAIN old : EdgeOK(nb, layer[w], old[i])
      <4>1. layer[w] \in Layer
        OBVIOUS
      <4>2. \A i \in DOMAIN old : EdgeOK(nb, layer[w], old[i])
        BY <2>2, <4>1 DEF LinksInv
      <4> QED BY <2>2, <4>1, <4>2
    <3>2. back \in Seq(Node) /\ \A i \in DOMAIN back : EdgeOK(nb, layer[w], back[i])
      BY <2>2 DEF EdgeOK, ReverseEdge
    <3> HIDE DEF old, back
    <3>3. /\ old \o back \in Seq(Node)
          /\ \A i \in DOMAIN (old \o back) : EdgeOK(nb, layer[w], (old \o back)[i])
      BY <3>1, <3>2, ConcatEdges
    <3>4. QED
      BY <3>3 DEF old, back
  <2>5. EdgesInv'
    BY <2>1, <2>2, <2>3, <2>4, EdgesUpdate
  <2>6. QED
    BY <2>1, <2>3, <2>5 DEF LinksInv, CarriesOK, HasLayer
<1>7. ASSUME NEW w \in Worker, PruneBack(w) PROVE EdgesInv' /\ CarriesOK(w)'
  <2>1. /\ pc[w] = "pruneBack" /\ pc'[w] = "reverse"
        /\ UNCHANGED <<levels, node, layer, found>>
        /\ PruneNode(Head(pending[w]), layer[w])
    BY <1>7 DEF PruneBack, searchVars
  <2>a. pending'[w] = Tail(pending[w]) /\ pending[w] \in Seq(Node)
    BY <1>7 DEF PruneBack
  <2>b. pending[w] # <<>>
    BY <2>1 DEF PendingOK
  <2>2. EdgesInv'
    <3>1. Head(pending[w]) \in Node /\ layer[w] \in Layer
      BY <2>a, <2>b, HeadTailElements
    <3>2. QED
      BY <2>1, <3>1, PruneKeepsEdges
  <2>3. \A i \in DOMAIN pending'[w] : \E j \in DOMAIN pending[w] : pending'[w][i] = pending[w][j]
    BY <2>a, <2>b, HeadTailElements
  <2>4. CarriesOK(w)
    BY DEF LinksInv
  <2>5. \A x, l : HasLayer(x, l)' <=> HasLayer(x, l)
    BY <2>1 DEF HasLayer
  <2>6. /\ HasLayer(node[w], layer[w])
        /\ \A x \in found[w] : HasLayer(x, layer[w])
        /\ \A i \in DOMAIN pending[w] :
             HasLayer(pending[w][i], layer[w]) /\ pending[w][i] # node[w]
    BY <2>1, <2>4 DEF CarriesOK
  <2>7. CarriesOK(w)'
    BY <2>1, <2>3, <2>5, <2>6 DEF CarriesOK
  <2>8. QED
    BY <2>2, <2>7
<1>8. ASSUME NEW w \in Worker, NextLayer(w) PROVE EdgesInv' /\ CarriesOK(w)'
  <2>1. pc[w] = "reverse" /\ UNCHANGED graphVars /\ UNCHANGED levels
    BY <1>8 DEF NextLayer, graphVars
  <2>2. CASE LastLayer(w)
    BY <1>8, <1>a, <2>1, <2>2 DEF NextLayer, CarriesOK
  <2>3. CASE ~LastLayer(w)
    <3>1. /\ BeginSearch(w, node[w], found[w], EfConstruction)
          /\ pc'[w] = "search" /\ layer'[w] = layer[w] - 1
      BY <1>8, <2>3 DEF NextLayer
    <3>2. \A x \in found[w] : HasLayer(x, layer[w])
      BY <2>1 DEF LinksInv, CarriesOK
    <3>3. \A x \in found[w] : HasLayer(x, layer[w] - 1)
      BY <1>c, <3>2
    <3>4. \A x \in frontier'[w] \union found'[w] : HasLayer(x, layer[w] - 1)
      BY <3>1, <3>3, BeginSearchOn
    <3>5. QED
      BY <1>a, <2>1, <3>1, <3>4 DEF CarriesOK, HasLayer
  <2>4. QED
    BY <2>2, <2>3
<1>9. ASSUME NEW w \in Worker, CheckPromote(w) \/ Promote(w)
      PROVE  EdgesInv' /\ CarriesOK(w)'
  <2>1. pc'[w] \in {"lock", "idle"} /\ UNCHANGED graphVars
    BY <1>9 DEF CheckPromote, Promote, Finish
  <2>2. QED
    BY <1>a, <2>1 DEF CarriesOK
<1>10. ASSUME NEW w \in Worker, Step(w) PROVE LinksInv'
  <2>1. EdgesInv' /\ CarriesOK(w)'
    BY <1>10, <1>1, <1>2, <1>3, <1>4, <1>5, <1>6, <1>7, <1>8, <1>9 DEF Step
  <2>2. \A v \in Worker \ {w} : CarriesOK(v)'
    BY <1>10, OthersCarry
  <2>3. QED
    BY <2>1, <2>2 DEF LinksInv
<1>11. CASE UNCHANGED vars
  BY <1>11 DEF vars, LinksInv, CarriesOK, EdgeOK, HasLayer
<1>12. QED
  BY <1>10, <1>11 DEF Next, Return

LEMMA LinksInit == Init => LinksInv
  BY DEF Init, LinksInv, CarriesOK

LEMMA GraphInvariance == Spec => [](TypeInv /\ OwnInv /\ EntryInv /\ LinksInv)
<1>1. Init => TypeInv /\ OwnInv /\ EntryInv /\ LinksInv
  BY TypeInit, EntryInit, LinksInit
<1>2. TypeInv /\ OwnInv /\ EntryInv /\ LinksInv /\ [Next]_vars
        => (TypeInv /\ OwnInv /\ EntryInv /\ LinksInv)'
  BY TypeStep, OwnStep, EntryStep, LinksStep
<1>3. QED
  BY <1>1, <1>2, PTL DEF Spec

\* Every edge joins two nodes of its layer: no reverse edge is skipped and
\* no list is indexed on a layer its node does not have, however the workers
\* interleave.
THEOREM LinksSound == Spec => []LinksStayOnLayer
BY GraphInvariance, LinksInvMeans, PTL

\* No list ever holds its own node, although a node that is linked from
\* elsewhere while it is being inserted finds itself in its own search.
THEOREM NeverLinkedToItself == Spec => []NoSelfLinks
BY GraphInvariance, LinksInvMeans, PTL

-----------------------------------------------------------------------------
(* The length of the lists                                                 *)

BackDebt(n, l) == {w \in Worker : OwesPruneBack(w, n, l)}
OwnDebt(n, l) == \E w \in Worker : OwesPruneOwn(w, n, l)

LEMMA OvershootMeans ==
  OvershootIsOwed <=>
    \A n \in Node, l \in Layer :
      Len(links[n][l]) <= MaxLinks(l) + Cardinality(BackDebt(n, l))
                            + (IF OwnDebt(n, l) THEN MaxLinks(l) ELSE 0)
  BY DEF OvershootIsOwed, BackDebt, OwnDebt

LEMMA DebtType ==
  \A n, l : IsFiniteSet(BackDebt(n, l)) /\ Cardinality(BackDebt(n, l)) \in Nat
<1> SUFFICES ASSUME NEW n, NEW l
             PROVE  IsFiniteSet(BackDebt(n, l)) /\ Cardinality(BackDebt(n, l)) \in Nat
  OBVIOUS
<1>1. BackDebt(n, l) \subseteq Worker
  BY DEF BackDebt
<1>2. IsFiniteSet(BackDebt(n, l))
  BY <1>1, FS_Subset, BuildAssumption
<1>3. QED
  BY <1>2, FS_CardinalityType

\* Debts of the other workers stay as they are.
LEMMA OtherDebts ==
  ASSUME TypeInv, NEW w \in Worker, Step(w), NEW n, NEW l
  PROVE  /\ BackDebt(n, l)' \ {w} = BackDebt(n, l) \ {w}
         /\ \A v \in Worker \ {w} : OwesPruneOwn(v, n, l)' <=> OwesPruneOwn(v, n, l)
<1>1. \A v \in Worker \ {w} : OwesPruneBack(v, n, l)' <=> OwesPruneBack(v, n, l)
  BY OthersUnchanged DEF OwesPruneBack
<1>2. \A v \in Worker \ {w} : OwesPruneOwn(v, n, l)' <=> OwesPruneOwn(v, n, l)
  BY OthersUnchanged DEF OwesPruneOwn
<1>3. QED
  BY <1>1, <1>2 DEF BackDebt

\* A worker that owes nothing before or after leaves the debts alone.
LEMMA SameDebts ==
  ASSUME TypeInv, NEW w \in Worker, Step(w), NEW n, NEW l,
         OwesPruneBack(w, n, l)' <=> OwesPruneBack(w, n, l),
         OwesPruneOwn(w, n, l)' <=> OwesPruneOwn(w, n, l)
  PROVE  BackDebt(n, l)' = BackDebt(n, l) /\ (OwnDebt(n, l)' <=> OwnDebt(n, l))
<1>1. w \in BackDebt(n, l)' <=> w \in BackDebt(n, l)
  BY DEF BackDebt
<1>2. BackDebt(n, l)' = BackDebt(n, l)
  BY <1>1, OtherDebts
<1>3. OwnDebt(n, l)' <=> OwnDebt(n, l)
  BY OtherDebts DEF OwnDebt
<1>4. QED
  BY <1>2, <1>3

\* A pruned list is within its limit, and no other list changes.
LEMMA PruneShortens ==
  ASSUME TypeInv, NEW n \in Node, NEW l \in Layer, PruneNode(n, l)
  PROVE  /\ Len(links'[n][l]) <= MaxLinks(l)
         /\ \A a \in Node, b \in Layer : a # n \/ b # l => links'[a][b] = links[a][b]
<1>1. PICK list \in Pruned(n, links[n][l], MaxLinks(l), PruneHeuristic) :
        links' = [links EXCEPT ![n][l] = list]
  BY DEF PruneNode
<1>2. links[n][l] \in Seq(Node) /\ MaxLinks(l) \in Nat
  BY LimitType DEF TypeInv, TypeOK
<1>3. Len(list) <= MaxLinks(l)
  BY <1>2, PrunedDrawn DEF DrawnFrom
<1>4. QED
  BY <1>1, <1>3 DEF TypeInv, TypeOK

LengthOK(n, l) ==
  Len(links[n][l]) <= MaxLinks(l) + Cardinality(BackDebt(n, l))
                        + (IF OwnDebt(n, l) THEN MaxLinks(l) ELSE 0)

LEMMA LengthStep ==
  ASSUME TypeInv, OwnInv, NEW w \in Worker, Step(w),
         NEW n \in Node, NEW l \in Layer, LengthOK(n, l)
  PROVE  LengthOK(n, l)'
<1>a. /\ MaxLinks(l) \in Nat /\ Cardinality(BackDebt(n, l)) \in Nat
      /\ Cardinality(BackDebt(n, l)') \in Nat
      /\ IsFiniteSet(BackDebt(n, l))
  <2>1. BackDebt(n, l)' \subseteq Worker
    BY DEF BackDebt
  <2>2. IsFiniteSet(BackDebt(n, l)')
    BY <2>1, FS_Subset, BuildAssumption
  <2>3. Cardinality(BackDebt(n, l)') \in Nat
    BY <2>2, FS_CardinalityType
  <2>4. QED
    BY <2>3, LimitType, DebtType
<1>b. Len(links[n][l]) \in Nat /\ Len(links'[n][l]) \in Nat
  <2>1. links'[n][l] \in Seq(Node)
    <3>1. [Next]_vars
      BY DEF Next
    <3>2. TypeInv'
      BY <3>1, TypeStep
    <3>3. QED
      BY <3>2 DEF TypeInv, TypeOK
  <2>2. links[n][l] \in Seq(Node)
    BY DEF TypeInv, TypeOK
  <2>3. QED
    BY <2>1, <2>2, LenProperties
<1> DEFINE Quiet == /\ ~OwesPruneBack(w, n, l) /\ ~OwesPruneOwn(w, n, l)
                    /\ ~OwesPruneBack(w, n, l)' /\ ~OwesPruneOwn(w, n, l)'
<1>c. ASSUME Quiet, links'[n][l] = links[n][l] PROVE LengthOK(n, l)'
  <2>1. BackDebt(n, l)' = BackDebt(n, l)
    BY <1>c, SameDebts
  <2>2. OwnDebt(n, l)' <=> OwnDebt(n, l)
    BY <1>c, SameDebts
  <2>3. QED
    BY <1>c, <2>1, <2>2 DEF LengthOK, MaxLinks
<1>d. ASSUME Len(links'[n][l]) <= MaxLinks(l) PROVE LengthOK(n, l)'
  <2>1. (IF OwnDebt(n, l)' THEN MaxLinks(l) ELSE 0) \in Nat
    BY <1>a
  <2>2. LengthOK(n, l)' <=>
          Len(links'[n][l]) <= MaxLinks(l) + Cardinality(BackDebt(n, l)')
            + (IF OwnDebt(n, l)' THEN MaxLinks(l) ELSE 0)
    BY DEF LengthOK, MaxLinks
  <2>3. QED
    BY <1>a, <1>b, <1>d, <2>1, <2>2
<1>1. CASE Start(w) \/ Expand(w) \/ Descend(w) \/ NextLayer(w)
             \/ CheckPromote(w) \/ Promote(w)
  <2>1. /\ links' = links
        /\ pc[w] \notin {"pruneOwn", "pruneBack"}
        /\ pc'[w] \notin {"pruneOwn", "pruneBack"}
    BY <1>1 DEF Start, Expand, Descend, NextLayer, CheckPromote, Promote, Finish, graphVars, TypeInv, TypeOK
  <2>2. QED
    BY <2>1, <1>c DEF OwesPruneBack, OwesPruneOwn
<1>2. CASE Connect(w)
  <2> DEFINE a == node[w]
             b == layer[w]
             edges == [c \in Candidates(w) |-> c]
  <2>1. PICK selected \in Selections(a, edges, MaxLinks(b), UseHeuristic) :
          links' = [links EXCEPT ![a][b] = links[a][b] \o selected]
    BY <1>2 DEF Connect
  <2>2. pc[w] = "search" /\ pc'[w] = "pruneOwn" /\ node' = node /\ layer' = layer
    BY <1>2 DEF Connect, TypeInv, TypeOK
  <2>3. CASE n = a /\ l = b
    <3>1. \A d \in DOMAIN edges : edges[d] \in Node
      BY DEF Candidates, TypeInv, TypeOK
    <3> HIDE DEF edges
    <3>2. selected \in Seq(Node) /\ Len(selected) <= MaxLinks(l)
      BY <1>a, <2>3, <3>1, SelectionsDrawn DEF DrawnFrom
    <3>3. Len(links'[n][l]) <= Len(links[n][l]) + MaxLinks(l)
      <4>1. links'[n][l] = links[n][l] \o selected /\ links[n][l] \in Seq(Node)
        BY <2>1, <2>3 DEF TypeInv, TypeOK
      <4>2. Len(links[n][l] \o selected) = Len(links[n][l]) + Len(selected)
        BY <3>2, <4>1, ConcatProperties
      <4>3. QED
        BY <1>a, <1>b, <3>2, <4>1, <4>2
    <3>4. ~OwnDebt(n, l)
      <4>1. \A v \in Worker : OwesPruneOwn(v, n, l) => v = w
        BY <2>2, <2>3 DEF OwesPruneOwn, OwnInv, Busy
      <4>2. QED
        BY <2>2, <4>1 DEF OwnDebt, OwesPruneOwn
    <3>5. OwnDebt(n, l)'
      BY <2>2, <2>3 DEF OwnDebt, OwesPruneOwn
    <3>6. BackDebt(n, l)' = BackDebt(n, l)
      <4>1. w \notin BackDebt(n, l) /\ w \notin BackDebt(n, l)'
        BY <2>2 DEF BackDebt, OwesPruneBack
      <4>2. BackDebt(n, l)' \ {w} = BackDebt(n, l) \ {w}
        BY OtherDebts
      <4>3. \A v : v \in BackDebt(n, l)' <=> v \in BackDebt(n, l)
        BY <4>1, <4>2
      <4>4. QED
        BY <4>3, Zenon
    <3>7. Len(links[n][l]) <= MaxLinks(l) + Cardinality(BackDebt(n, l))
      BY <1>a, <1>b, <3>4 DEF LengthOK
    <3>8. Len(links'[n][l]) <= MaxLinks(l) + Cardinality(BackDebt(n, l)') + MaxLinks(l)
      BY <1>a, <1>b, <3>3, <3>6, <3>7
    <3>9. QED
      BY <3>5, <3>8 DEF LengthOK, MaxLinks
  <2>4. CASE ~(n = a /\ l = b)
    <3>1. links'[n][l] = links[n][l]
      BY <2>1, <2>4
    <3>2. Quiet
      BY <2>2, <2>4 DEF OwesPruneBack, OwesPruneOwn
    <3>3. QED
      BY <3>1, <3>2, <1>c
  <2>5. QED
    BY <2>3, <2>4
<1>3. CASE PruneOwn(w)
  <2>1. /\ PruneNode(node[w], layer[w]) /\ pc[w] = "pruneOwn" /\ pc'[w] = "reverse"
    BY <1>3 DEF PruneOwn, TypeInv, TypeOK
  <2>5. node[w] \in Node /\ layer[w] \in Layer
    BY DEF TypeInv, TypeOK
  <2>2. CASE n = node[w] /\ l = layer[w]
    <3>1. Len(links'[n][l]) <= MaxLinks(l)
      BY <2>1, <2>2, PruneShortens
    <3>2. QED
      BY <3>1, <1>d
  <2>3. CASE ~(n = node[w] /\ l = layer[w])
    <3>0. \A a \in Node, b \in Layer :
            a # node[w] \/ b # layer[w] => links'[a][b] = links[a][b]
      BY <2>1, <2>5, PruneShortens
    <3>1. links'[n][l] = links[n][l]
      BY <2>3, <3>0
    <3>2. Quiet
      BY <2>1, <2>3 DEF OwesPruneBack, OwesPruneOwn
    <3>3. QED
      BY <3>1, <3>2, <1>c
  <2>4. QED
    BY <2>2, <2>3
<1>4. CASE LinkBack(w)
  <2> DEFINE nb == Head(pending[w])
             b == layer[w]
  <2>1. pc[w] = "reverse" /\ pending[w] # <<>> /\ layer' = layer /\ node' = node
    BY <1>4 DEF LinkBack
  <2>2. CASE ~HasLayer(nb, b)
    <3>1. links' = links /\ pc' = pc
      BY <1>4, <2>2 DEF LinkBack
    <3>2. QED
      BY <2>1, <3>1, <1>c DEF OwesPruneBack, OwesPruneOwn
  <2>3. CASE HasLayer(nb, b)
    <3>1. /\ links' = [links EXCEPT ![nb][b] = links[nb][b] \o <<node[w]>>]
          /\ pc'[w] = "pruneBack" /\ pending' = pending
      BY <1>4, <2>3 DEF LinkBack, ReverseEdge, TypeInv, TypeOK
    <3>2. CASE n = nb /\ l = b
      <4>1. BackDebt(n, l)' = BackDebt(n, l) \union {w} /\ w \notin BackDebt(n, l)
        <5>1. w \notin BackDebt(n, l)
          BY <2>1 DEF BackDebt, OwesPruneBack
        <5>2. w \in BackDebt(n, l)'
          BY <2>1, <3>1, <3>2 DEF BackDebt, OwesPruneBack
        <5>3. QED
          BY <5>1, <5>2, OtherDebts
      <4>2. Cardinality(BackDebt(n, l)') = Cardinality(BackDebt(n, l)) + 1
        BY <1>a, <4>1, FS_AddElement
      <4>3. OwnDebt(n, l)' <=> OwnDebt(n, l)
        <5>1. ~OwesPruneOwn(w, n, l) /\ ~OwesPruneOwn(w, n, l)'
          BY <2>1, <3>1 DEF OwesPruneOwn
        <5>2. QED
          BY <5>1, OtherDebts DEF OwnDebt
      <4>4. Len(links'[n][l]) = Len(links[n][l]) + 1
        <5>1. links'[n][l] = links[n][l] \o <<node[w]>>
          BY <3>1, <3>2 DEF TypeInv, TypeOK
        <5>2. links[n][l] \in Seq(Node) /\ <<node[w]>> \in Seq(Node) /\ Len(<<node[w]>>) = 1
          BY DEF TypeInv, TypeOK
        <5>3. QED
          BY <5>1, <5>2, ConcatProperties
      <4>5. CASE OwnDebt(n, l)
        <5>1. Len(links[n][l]) <= MaxLinks(l) + Cardinality(BackDebt(n, l)) + MaxLinks(l)
          BY <4>5 DEF LengthOK
        <5>2. Len(links'[n][l]) <= MaxLinks(l) + Cardinality(BackDebt(n, l)') + MaxLinks(l)
          BY <1>a, <1>b, <4>2, <4>4, <5>1
        <5>3. QED
          BY <4>3, <4>5, <5>2 DEF LengthOK, MaxLinks
      <4>6. CASE ~OwnDebt(n, l)
        <5>1. Len(links[n][l]) <= MaxLinks(l) + Cardinality(BackDebt(n, l)) + 0
          BY <4>6 DEF LengthOK
        <5>2. Len(links'[n][l]) <= MaxLinks(l) + Cardinality(BackDebt(n, l)') + 0
          BY <1>a, <1>b, <4>2, <4>4, <5>1
        <5>3. QED
          BY <4>3, <4>6, <5>2 DEF LengthOK, MaxLinks
      <4>7. QED
        BY <4>5, <4>6
    <3>3. CASE ~(n = nb /\ l = b)
      <4>1. links'[n][l] = links[n][l]
        BY <3>1, <3>3
      <4>2. Quiet
        BY <2>1, <3>1, <3>3 DEF OwesPruneBack, OwesPruneOwn
      <4>3. QED
        BY <4>1, <4>2, <1>c
    <3>4. QED
      BY <3>2, <3>3
  <2>4. QED
    BY <2>2, <2>3
<1>5. CASE PruneBack(w)
  <2>1. /\ PruneNode(Head(pending[w]), layer[w])
        /\ pc[w] = "pruneBack" /\ pc'[w] = "reverse"
    BY <1>5 DEF PruneBack, TypeInv, TypeOK
  <2>2. Head(pending[w]) \in Node
    BY <2>1, HeadTailElements DEF PendingOK, TypeInv, TypeOK
  <2>5. layer[w] \in Layer
    BY DEF TypeInv, TypeOK
  <2>3. CASE n = Head(pending[w]) /\ l = layer[w]
    <3>1. Len(links'[n][l]) <= MaxLinks(l)
      BY <2>1, <2>3, PruneShortens
    <3>2. QED
      BY <3>1, <1>d
  <2>4. CASE ~(n = Head(pending[w]) /\ l = layer[w])
    <3>0. \A a \in Node, b \in Layer :
            a # Head(pending[w]) \/ b # layer[w] => links'[a][b] = links[a][b]
      BY <2>1, <2>2, <2>5, PruneShortens
    <3>1. links'[n][l] = links[n][l]
      BY <2>4, <3>0
    <3>2. Quiet
      BY <2>1, <2>4 DEF OwesPruneBack, OwesPruneOwn
    <3>3. QED
      BY <3>1, <3>2, <1>c
  <2>6. QED
    BY <2>3, <2>4
<1>6. QED
  BY <1>1, <1>2, <1>3, <1>4, <1>5 DEF Step

LengthInv == \A n \in Node, l \in Layer : LengthOK(n, l)

LEMMA LengthInit == Init => LengthInv
<1> SUFFICES ASSUME Init, NEW n \in Node, NEW l \in Layer PROVE LengthOK(n, l)
  BY DEF LengthInv
<1>1. Len(links[n][l]) = 0
  BY DEF Init
<1>2. QED
  BY <1>1, LimitType, DebtType DEF LengthOK

LEMMA LengthInvStep == TypeInv /\ OwnInv /\ LengthInv /\ [Next]_vars => LengthInv'
<1> SUFFICES ASSUME TypeInv, OwnInv, LengthInv, [Next]_vars PROVE LengthInv'
  OBVIOUS
<1>1. ASSUME NEW w \in Worker, Step(w) PROVE LengthInv'
  BY <1>1, LengthStep DEF LengthInv
<1>2. CASE UNCHANGED vars
  <2>1. \A n \in Node, l \in Layer : BackDebt(n, l)' = BackDebt(n, l)
    BY <1>2 DEF BackDebt, OwesPruneBack, vars
  <2>2. \A n \in Node, l \in Layer : OwnDebt(n, l)' <=> OwnDebt(n, l)
    BY <1>2 DEF OwnDebt, OwesPruneOwn, vars
  <2>3. QED
    BY <1>2, <2>1, <2>2 DEF LengthInv, LengthOK, vars
<1>3. QED
  BY <1>1, <1>2 DEF Next, Return

\* A list exceeds its limit only while a worker owes it a prune, and by no
\* more than those workers added.  When the pool is joined nothing is owed,
\* so every list is within its limit: the test that build_parallel's graph
\* is structurally sound, for every interleaving.
THEOREM DegreeBounded ==
  Spec => /\ []OvershootIsOwed
          /\ [](AllInserted => \A n \in Node, l \in Layer : Len(links[n][l]) <= MaxLinks(l))
<1>1. Init => TypeInv /\ OwnInv /\ LengthInv
  BY TypeInit, EntryInit, LengthInit
<1>2. TypeInv /\ OwnInv /\ LengthInv /\ [Next]_vars => (TypeInv /\ OwnInv /\ LengthInv)'
  BY TypeStep, OwnStep, LengthInvStep
<1>3. LengthInv => OvershootIsOwed
  BY OvershootMeans DEF LengthInv, LengthOK
<1>4. LengthInv => (AllInserted => \A n \in Node, l \in Layer :
                                     Len(links[n][l]) <= MaxLinks(l))
  <2> SUFFICES ASSUME LengthInv, AllInserted, NEW n \in Node, NEW l \in Layer
               PROVE  Len(links[n][l]) <= MaxLinks(l)
    OBVIOUS
  <2>1. BackDebt(n, l) = {} /\ ~OwnDebt(n, l)
    BY DEF AllInserted, BackDebt, OwnDebt, OwesPruneBack, OwesPruneOwn
  <2>2. Cardinality(BackDebt(n, l)) = 0
    BY <2>1, FS_EmptySet
  <2>3. Len(links[n][l]) <= MaxLinks(l) + Cardinality(BackDebt(n, l)) + 0
    BY <2>1 DEF LengthInv, LengthOK
  <2>4. MaxLinks(l) \in Nat
    BY LimitType
  <2>5. QED
    BY <2>2, <2>3, <2>4
<1>5. QED
  BY <1>1, <1>2, <1>3, <1>4, PTL DEF Spec

-----------------------------------------------------------------------------
(* What a step does to a list                                              *)

\* The forward edges of a node are written to its own list,
Forward(w, n, l) ==
  /\ Connect(w) /\ n = node[w] /\ l = layer[w]
  /\ pending'[w] \in Selections(n, [c \in Candidates(w) |-> c], MaxLinks(l), UseHeuristic)
  /\ links'[n][l] = links[n][l] \o pending'[w]

\* a reverse edge to the list of the neighbour,
Backward(w, n, l) ==
  /\ LinkBack(w) /\ n = Head(pending[w]) /\ l = layer[w] /\ pending' = pending
  /\ links'[n][l] = links[n][l] \o <<node[w]>>

\* and one of these lists is pruned.
Cuts(w, n, l) ==
  /\ \/ PruneOwn(w) /\ n = node[w]
     \/ PruneBack(w) /\ n = Head(pending[w])
  /\ l = layer[w]
  /\ links'[n][l] \in Pruned(n, links[n][l], MaxLinks(l), PruneHeuristic)

LEMMA PruneCuts ==
  ASSUME TypeInv, NEW a \in Node, NEW b \in Layer, PruneNode(a, b),
         NEW n \in Node, NEW l \in Layer
  PROVE  \/ links'[n][l] = links[n][l] /\ ~(n = a /\ l = b)
         \/ /\ n = a /\ l = b
            /\ links'[n][l] \in Pruned(n, links[n][l], MaxLinks(l), PruneHeuristic)
<1>1. PICK list \in Pruned(a, links[a][b], MaxLinks(b), PruneHeuristic) :
        links' = [links EXCEPT ![a][b] = list]
  BY DEF PruneNode
<1>2. links'[n][l] = IF n = a /\ l = b THEN list ELSE links[n][l]
  BY <1>1 DEF TypeInv, TypeOK
<1> QED BY <1>1, <1>2

LEMMA ConnectWrites ==
  ASSUME TypeInv, NEW w \in Worker, Connect(w)
  PROVE  /\ Forward(w, node[w], layer[w])
         /\ \A n \in Node, l \in Layer :
              ~(n = node[w] /\ l = layer[w]) => links'[n][l] = links[n][l]
<1> DEFINE edges == [c \in Candidates(w) |-> c]
           a == node[w]
           b == layer[w]
<1>1. PICK selected \in Selections(a, edges, MaxLinks(b), UseHeuristic) :
        /\ links' = [links EXCEPT ![a][b] = links[a][b] \o selected]
        /\ pending' = [pending EXCEPT ![w] = selected]
  BY DEF Connect
<1> HIDE DEF edges
<1>0. /\ links \in [Node -> [Layer -> Seq(Node)]] /\ DOMAIN pending = Worker
      /\ a \in Node /\ b \in Layer
  BY DEF TypeInv, TypeOK
<1>2. pending'[w] = selected
  BY <1>0, <1>1
<1>3. links'[a][b] = links[a][b] \o selected
  BY <1>0, <1>1
<1>4. Forward(w, a, b)
  BY <1>1, <1>2, <1>3 DEF Forward, edges
<1> QED BY <1>1, <1>4 DEF TypeInv, TypeOK

LEMMA LinkBackWrites ==
  ASSUME TypeInv, NEW w \in Worker, LinkBack(w)
  PROVE  LET nb == Head(pending[w])
         IN  /\ HasLayer(nb, layer[w]) => Backward(w, nb, layer[w])
             /\ \A n \in Node, l \in Layer :
                  \/ links'[n][l] = links[n][l]
                  \/ HasLayer(nb, layer[w]) /\ n = nb /\ l = layer[w]
<1> DEFINE nb == Head(pending[w])
<1>1. CASE HasLayer(nb, layer[w])
  <2>1. /\ links' = [links EXCEPT ![nb][layer[w]] = links[nb][layer[w]] \o <<node[w]>>]
        /\ pending' = pending /\ nb \in Node /\ layer[w] \in Layer
    BY <1>1, HeadTailElements DEF LinkBack, ReverseEdge, TypeInv, TypeOK
  <2>2. links'[nb][layer[w]] = links[nb][layer[w]] \o <<node[w]>>
    BY <2>1 DEF TypeInv, TypeOK
  <2> QED BY <1>1, <2>1, <2>2 DEF Backward, TypeInv, TypeOK
<1>2. CASE ~HasLayer(nb, layer[w])
  BY <1>2 DEF LinkBack
<1> QED BY <1>1, <1>2

LEMMA ListSteps ==
  ASSUME TypeInv, NEW w \in Worker, Step(w), NEW n \in Node, NEW l \in Layer
  PROVE  \/ links'[n][l] = links[n][l]
         \/ Forward(w, n, l) \/ Backward(w, n, l) \/ Cuts(w, n, l)
<1>1. CASE Start(w) \/ Expand(w) \/ Descend(w) \/ NextLayer(w)
             \/ CheckPromote(w) \/ Promote(w)
  BY <1>1 DEF Start, Expand, Descend, NextLayer, CheckPromote, Promote, graphVars, TypeInv, TypeOK
<1>2. CASE Connect(w)
  BY <1>2, ConnectWrites
<1>3. CASE PruneOwn(w)
  <2>1. PruneNode(node[w], layer[w]) /\ node[w] \in Node /\ layer[w] \in Layer
    BY <1>3 DEF PruneOwn, TypeInv, TypeOK
  <2> QED BY <1>3, <2>1, PruneCuts DEF Cuts
<1>4. CASE LinkBack(w)
  BY <1>4, LinkBackWrites
<1>5. CASE PruneBack(w)
  <2>1. /\ PruneNode(Head(pending[w]), layer[w]) /\ layer[w] \in Layer
        /\ pending[w] \in Seq(Node) /\ pending[w] # <<>>
    BY <1>5 DEF PruneBack, PendingOK, TypeInv, TypeOK
  <2>2. Head(pending[w]) \in Node
    BY <2>1, HeadTailElements
  <2> QED BY <1>5, <2>1, <2>2, PruneCuts DEF Cuts
<1> QED BY <1>1, <1>2, <1>3, <1>4, <1>5 DEF Step

\* What a worker may select is offered at places that are the nodes.
LEMMA CandidateEdges ==
  ASSUME TypeInv, NEW w \in Worker
  PROVE  /\ EdgeList([c \in Candidates(w) |-> c])
         /\ DOMAIN [c \in Candidates(w) |-> c] = Candidates(w)
         /\ \A d \in DOMAIN [c \in Candidates(w) |-> c] : [c \in Candidates(w) |-> c][d] \in Node
<1> DEFINE edges == [c \in Candidates(w) |-> c]
<1>1. Candidates(w) \subseteq Node
  BY DEF Candidates, TypeInv, TypeOK
<1>2. DOMAIN edges = Candidates(w) /\ \A d \in DOMAIN edges : edges[d] = d
  OBVIOUS
<1> HIDE DEF edges
<1>3. \A d \in DOMAIN edges : edges[d] \in Node
  BY <1>1, <1>2
<1>4. DOMAIN edges \subseteq Int
  <2>1. Node \subseteq Int
    BY NodeAssumption
  <2>2. Candidates(w) \subseteq Int
    BY <1>1, <2>1
  <2> QED BY <1>2, <2>2
<1>5. EdgeList(edges)
  BY <1>3, <1>4 DEF EdgeList
<1> QED BY <1>2, <1>3, <1>5 DEF edges

LEMMA LimitPositive == \A l \in Layer : MaxLinks(l) \in Nat \ {0}
BY ConfigAssumption DEF MaxLinks

\* A step of the pool, or none.
LEMMA PoolStep == [Next]_vars => (\E w \in Worker : Step(w)) \/ UNCHANGED vars
BY DEF Next, Return

LEMMA ConcatNonempty ==
  ASSUME NEW s \in Seq(Node), NEW t \in Seq(Node), s # <<>>
  PROVE  s \o t # <<>>
<1>1. 1 \in DOMAIN s
  BY HeadTailElements
<1>2. 1 \in DOMAIN (s \o t)
  BY <1>1, ConcatCovers
<1> QED BY <1>2

LEMMA NeverEmptiedStep ==
  ASSUME TypeInv, TypeInv', [Next]_vars, NEW n \in Node, NEW l \in Layer,
         links[n][l] # <<>>
  PROVE  links'[n][l] # <<>>
<1>1. links[n][l] \in Seq(Node) /\ links'[n][l] \in Seq(Node)
  BY DEF TypeInv, TypeOK
<1>2. ASSUME NEW w \in Worker, Step(w) PROVE links'[n][l] # <<>>
  <2>1. CASE Forward(w, n, l)
    <3>1. pending'[w] \in Seq(Node) /\ links'[n][l] = links[n][l] \o pending'[w]
      BY <2>1 DEF Forward, TypeInv, TypeOK
    <3> QED BY <1>1, <3>1, ConcatNonempty
  <2>2. CASE Backward(w, n, l)
    <3>1. <<node[w]>> \in Seq(Node) /\ links'[n][l] = links[n][l] \o <<node[w]>>
      BY <2>2 DEF Backward, TypeInv, TypeOK
    <3> QED BY <1>1, <3>1, ConcatNonempty
  <2>3. CASE Cuts(w, n, l)
    BY <1>1, <2>3, LimitPositive, PrunedNonempty DEF Cuts
  <2> QED BY <1>2, <2>1, <2>2, <2>3, ListSteps
<1>3. CASE UNCHANGED vars
  BY <1>3 DEF vars
<1> QED BY <1>2, <1>3, PoolStep

\* Once a node has a link on a layer it keeps one: pruning, even by the
\* diversity heuristic without keep_pruned, never empties a list.
THEOREM NeverIsolatedAgain == Spec => NeverEmptied
<1>1. TypeInv /\ [Next]_vars => TypeInv' /\ [\A n \in Node, l \in Layer :
                       links[n][l] # <<>> => links'[n][l] # <<>>]_vars
  BY TypeStep, NeverEmptiedStep
<1> QED BY <1>1, TypeInit, TypeStep, PTL DEF Spec, NeverEmptied

-----------------------------------------------------------------------------
(* Every inserted node is linked                                           *)

Linking == {"pruneOwn", "reverse", "pruneBack"}

\* A worker's search has found a node besides the one it inserts.
HasOther(w) == pc[w] \in {"search"} \cup Linking => found[w] \ {node[w]} # {}

\* On layer 0 the node has a link from the moment its edges are written.
HasLink(w) ==
  (pc[w] \in Linking /\ layer[w] = 0) \/ pc[w] \in {"promote", "lock"}
    => links[node[w]][0] # <<>>

LinkedInv ==
  /\ \A w \in Worker : HasOther(w) /\ HasLink(w)
  /\ \A n \in Inserted \ {0} : links[n][0] # <<>>

LEMMA ZeroLayer == 0 \in Layer /\ Layer \subseteq Nat
BY BuildAssumption DEF Layer

\* The beam is at least one, and two where the node itself may be found.
LEMMA BeamWidth ==
  ASSUME TypeInv, NEW n \in Node, NEW l \in Layer
  PROVE  /\ Beam(n, l) \in Nat /\ Beam(n, l) >= 1
         /\ HasLayer(n, l) => Beam(n, l) >= 2
<1>1. levels[n] \in Nat /\ l \in Nat
  BY ZeroLayer DEF TypeInv, TypeOK
<1> QED BY <1>1, ConfigAssumption DEF Beam, HasLayer

\* A search that keeps the nearest of a set with another node keeps one.
LEMMA BeamKeepsOther ==
  ASSUME TypeInv, NEW n \in Node, NEW l \in Layer, NEW S \in SUBSET Node,
         S \ {n} # {}, n \in S => HasLayer(n, l)
  PROVE  Closest(n, S, Beam(n, l)) \ {n} # {}
BY BeamWidth, ClosestKeeps

\* The steps of a search.
LEMMA SearchKeepsOther ==
  ASSUME TypeInv, EntryInv, LinksInv, LinkedInv, NEW w \in Worker,
         Start(w) \/ Expand(w) \/ Descend(w) \/ NextLayer(w)
  PROVE  HasOther(w)'
<1>a. /\ node[w] \in Node /\ layer[w] \in Layer /\ found[w] \in SUBSET Node
      /\ \A n \in Node : levels[n] \in Nat
  BY ZeroLayer DEF TypeInv, TypeOK
<1>1. CASE Start(w)
  <2>1. PICK n \in todo : Start(w)!2!(n)
    BY <1>1 DEF Start
  <2>2. entry.id # n /\ n \in Node /\ entry.id \in Node /\ entry.level \in Layer
    BY DEF EntryInv, Sequential!EntryIsTop, Inserted, TypeInv, TypeOK
  <2>3. /\ found' = [found EXCEPT ![w] = Closest(n, {entry.id}, Beam(n, entry.level))]
        /\ node' = [node EXCEPT ![w] = n]
    BY <2>1, <2>2 DEF BeginSearch
  <2>4. found'[w] = Closest(n, {entry.id}, Beam(n, entry.level)) /\ node'[w] = n
    BY <2>3 DEF TypeInv, TypeOK
  <2>5. {entry.id} \in SUBSET Node /\ {entry.id} \ {n} # {} /\ n \notin {entry.id}
    BY <2>2
  <2>6. Closest(n, {entry.id}, Beam(n, entry.level)) \ {n} # {}
    BY <2>2, <2>5, BeamKeepsOther
  <2> QED BY <2>4, <2>6 DEF HasOther
<1>2. CASE Expand(w)
  <2> DEFINE n == node[w]
             l == layer[w]
  <2>1. PICK c \in frontier[w] :
          found' = [found EXCEPT ![w] =
                      Closest(n, found[w] \union Fresh(w, links[c][l]), Beam(n, l))]
    BY <1>2 DEF Expand
  <2> DEFINE S == found[w] \union Fresh(w, links[c][l])
  <2>2. pc[w] = "search" /\ node' = node /\ c \in Node
    BY <1>2 DEF Expand, TypeInv, TypeOK
  <2>3. found'[w] = Closest(n, S, Beam(n, l))
    BY <2>1 DEF TypeInv, TypeOK
  <2>4. S \in SUBSET Node
    <3>1. links[c][l] \in Seq(Node)
      BY <1>a, <2>2 DEF TypeInv, TypeOK
    <3> QED BY <1>a, <3>1 DEF Fresh
  <2>5. S \ {n} # {}
    BY <2>2 DEF LinkedInv, HasOther
  <2>6. n \in S => HasLayer(n, l)
    <3>1. \A i \in DOMAIN links[c][l] : HasLayer(links[c][l][i], l)
      BY <1>a, <2>2 DEF LinksInv, EdgeOK
    <3>2. \A x \in found[w] : HasLayer(x, l)
      BY <2>2 DEF LinksInv, CarriesOK
    <3> QED BY <3>1, <3>2 DEF Fresh
  <2> HIDE DEF S
  <2>7. Closest(n, S, Beam(n, l)) \ {n} # {}
    BY <1>a, <2>4, <2>5, <2>6, BeamKeepsOther
  <2> QED BY <2>2, <2>3, <2>7 DEF HasOther
<1>3. CASE Descend(w)
  <2>1. /\ pc[w] = "search" /\ node' = node /\ ~HasLayer(node[w], layer[w])
        /\ found' = [found EXCEPT ![w] =
                       Closest(node[w], found[w], Beam(node[w], layer[w] - 1))]
    BY <1>3 DEF Descend, Connects, HasLayer, BeginSearch
  <2>2. node[w] \notin found[w]
    BY <2>1 DEF LinksInv, CarriesOK
  <2>3. found[w] \ {node[w]} # {}
    BY <2>1 DEF LinkedInv, HasOther
  <2>4. layer[w] - 1 \in Layer
    <3>1. /\ ~(layer[w] <= levels[node[w]]) /\ levels[node[w]] \in Nat
          /\ layer[w] \in 0..TopLevel /\ TopLevel \in Nat
      BY <1>a, <2>1, BuildAssumption DEF HasLayer, Layer
    <3> QED BY <3>1 DEF Layer
  <2>5. Closest(node[w], found[w], Beam(node[w], layer[w] - 1)) \ {node[w]} # {}
    BY <1>a, <2>2, <2>3, <2>4, BeamKeepsOther
  <2> QED BY <2>1, <2>5 DEF HasOther, TypeInv, TypeOK
<1>4. CASE NextLayer(w)
  <2>1. CASE LastLayer(w)
    BY <1>4, <2>1 DEF NextLayer, HasOther, Linking, TypeInv, TypeOK
  <2>2. CASE ~LastLayer(w)
    <3>1. /\ pc[w] = "reverse" /\ node' = node
          /\ found' = [found EXCEPT ![w] = Closest(node[w], found[w], EfConstruction)]
      BY <1>4, <2>2 DEF NextLayer, BeginSearch
    <3>2. found[w] \ {node[w]} # {}
      BY <3>1 DEF LinkedInv, HasOther, Linking
    <3>3. EfConstruction \in Nat /\ EfConstruction >= 1 /\ EfConstruction >= 2
      BY ConfigAssumption
    <3>4. Closest(node[w], found[w], EfConstruction) \ {node[w]} # {}
      BY <1>a, <3>2, <3>3, ClosestKeeps
    <3> QED BY <3>1, <3>4 DEF HasOther, TypeInv, TypeOK
  <2> QED BY <2>1, <2>2
<1> QED BY <1>1, <1>2, <1>3, <1>4

\* Connecting a node gives it a link: its search has one to offer.
LEMMA ConnectLinks ==
  ASSUME TypeInv, TypeInv', LinkedInv, NEW w \in Worker, Connect(w)
  PROVE  links'[node[w]][layer[w]] # <<>>
<1> DEFINE n == node[w]
           l == layer[w]
           edges == [c \in Candidates(w) |-> c]
<1>1. pc[w] = "search" /\ n \in Node /\ l \in Layer
  BY DEF Connect, TypeInv, TypeOK
<1>2. PICK selected \in Selections(n, edges, MaxLinks(l), UseHeuristic) :
        links' = [links EXCEPT ![n][l] = links[n][l] \o selected]
  BY DEF Connect
<1> HIDE DEF edges
<1>3. links[n][l] \in Seq(Node) /\ links'[n][l] = links[n][l] \o selected
  <2>1. links \in [Node -> [Layer -> Seq(Node)]]
    BY DEF TypeInv, TypeOK
  <2> HIDE DEF n, l
  <2> QED BY <1>1, <1>2, <2>1
<1>4. EdgeList(edges) /\ DOMAIN edges = Candidates(w) /\ \A d \in DOMAIN edges : edges[d] \in Node
  BY CandidateEdges DEF edges
<1>5. Candidates(w) # {}
  BY <1>1 DEF LinkedInv, HasOther, Candidates
<1>6. MaxLinks(l) \in Nat \ {0}
  BY <1>1, LimitPositive
<1>7. selected # <<>>
  BY <1>1, <1>2, <1>4, <1>5, <1>6, SelectionNonempty
<1>8. selected \in Seq(Node)
  BY <1>2, <1>4, <1>6, SelectionsDrawn DEF DrawnFrom
<1>9. 1 \in DOMAIN selected
  BY <1>7, <1>8, HeadTailElements
<1>10. Len(links[n][l]) + 1 \in DOMAIN (links[n][l] \o selected)
  BY <1>3, <1>8, <1>9, ConcatCovers
<1> QED BY <1>3, <1>10

LEMMA LinkedStep ==
  ASSUME TypeInv, TypeInv', OwnInv, EntryInv, LinksInv, LinkedInv,
         NEW w \in Worker, Step(w)
  PROVE  LinkedInv'
<1>a. [Next]_vars
  BY DEF Next
<1>b. \A n \in Node : links[n][0] # <<>> => links'[n][0] # <<>>
  BY <1>a, ZeroLayer, NeverEmptiedStep
<1>c. node[w] \in Node /\ \A v \in Worker : node[v] \in Node
  BY DEF TypeInv, TypeOK
<1>1. HasOther(w)' /\ HasLink(w)'
  <2>1. CASE Start(w)
    <3>1. pc'[w] = "search"
      BY <2>1 DEF Start, EntryInv, Sequential!EntryIsTop, Inserted, TypeInv, TypeOK
    <3> QED BY <2>1, <3>1, SearchKeepsOther DEF HasLink, Linking
  <2>2. CASE Expand(w) \/ Descend(w)
    <3>1. pc'[w] = "search"
      BY <2>2 DEF Expand, Descend
    <3> QED BY <2>2, <3>1, SearchKeepsOther DEF HasLink, Linking
  <2>3. CASE NextLayer(w)
    <3>1. /\ pc[w] = "reverse" /\ node' = node /\ pc'[w] \in {"search", "promote"}
          /\ pc'[w] = "promote" => layer[w] = 0
      BY <2>3 DEF NextLayer, LastLayer, TypeInv, TypeOK
    <3>2. HasLink(w)'
      BY <1>b, <1>c, <3>1 DEF LinkedInv, HasLink, Linking
    <3> QED BY <2>3, <3>2, SearchKeepsOther
  <2>4. CASE Connect(w)
    <3>1. UNCHANGED <<node, layer, found>> /\ pc[w] = "search" /\ pc'[w] = "pruneOwn"
      BY <2>4 DEF Connect, searchVars, TypeInv, TypeOK
    <3>2. links'[node[w]][layer[w]] # <<>>
      BY <2>4, ConnectLinks
    <3> QED BY <3>1, <3>2 DEF LinkedInv, HasOther, HasLink, Linking
  <2>5. CASE PruneOwn(w) \/ LinkBack(w) \/ PruneBack(w)
    <3>1. UNCHANGED <<node, layer, found>> /\ pc[w] \in Linking /\ pc'[w] \in Linking
      BY <2>5 DEF PruneOwn, LinkBack, PruneBack, searchVars, Linking, TypeInv, TypeOK
    <3>2. found[w] \ {node[w]} # {} /\ (layer[w] = 0 => links[node[w]][0] # <<>>)
      BY <3>1 DEF LinkedInv, HasOther, HasLink
    <3> QED BY <1>b, <1>c, <3>1, <3>2 DEF HasOther, HasLink, Linking
  <2>6. CASE CheckPromote(w) \/ Promote(w)
    <3>1. \/ pc'[w] = "idle"
          \/ pc'[w] = "lock" /\ node' = node /\ pc[w] = "promote"
      BY <2>6 DEF CheckPromote, Promote, Finish, TypeInv, TypeOK
    <3> QED BY <1>b, <1>c, <3>1 DEF LinkedInv, HasOther, HasLink, Linking
  <2> QED BY <2>1, <2>2, <2>3, <2>4, <2>5, <2>6 DEF Step
<1>2. ASSUME NEW v \in Worker, v # w PROVE HasOther(v)' /\ HasLink(v)'
  <2>1. /\ pc'[v] = pc[v] /\ layer'[v] = layer[v] /\ node'[v] = node[v]
        /\ found'[v] = found[v]
    BY <1>2, OthersUnchanged
  <2> QED BY <1>b, <1>c, <2>1 DEF LinkedInv, HasOther, HasLink
<1>3. ASSUME NEW n \in Inserted' \ {0} PROVE links'[n][0] # <<>>
  <2>1. n \in Node /\ (n \in Inserted \/ (HandsIn(w) /\ n = node[w]))
    <3>1. Inserted' = Inserted \/ (HandsIn(w) /\ Inserted' = Inserted \union {node[w]})
      BY OwnershipSteps, InsertedSteps
    <3>2. Inserted \subseteq Node
      BY DEF Inserted
    <3> QED BY <1>3, <1>c, <3>1, <3>2
  <2>2. HandsIn(w) => pc[w] \in {"promote", "lock"}
    BY DEF HandsIn, CheckPromote, Promote
  <2>3. links[n][0] # <<>>
    BY <1>3, <2>1, <2>2 DEF LinkedInv, HasLink
  <2> QED BY <1>b, <2>1, <2>3
<1> QED BY <1>1, <1>2, <1>3 DEF LinkedInv

LEMMA LinkedInit == Init => LinkedInv
<1> SUFFICES ASSUME Init PROVE LinkedInv
  OBVIOUS
<1>1. Inserted = {0}
  BY BuildAssumption DEF Init, Inserted, Busy
<1> QED BY <1>1 DEF Init, LinkedInv, HasOther, HasLink, Linking

\* A search that is about to connect a node has another node to offer, with
\* any interleaving and although other workers prune the lists it follows;
\* so every node has a link on layer 0 when its insertion is complete, and
\* ever after.
THEOREM NobodyLeftOut == Spec => []InsertedIsLinked
<1> DEFINE I == TypeInv /\ OwnInv /\ EntryInv /\ LinksInv
<1>1. LinkedInv => InsertedIsLinked
  BY DEF LinkedInv, InsertedIsLinked, HasOther, Candidates
<1>2. I /\ I' /\ LinkedInv /\ [Next]_vars => LinkedInv'
  <2> SUFFICES ASSUME I, I', LinkedInv, [Next]_vars PROVE LinkedInv'
    OBVIOUS
  <2>1. CASE \E w \in Worker : Step(w)
    BY <2>1, LinkedStep
  <2>2. CASE UNCHANGED vars
    BY <2>2 DEF LinkedInv, HasOther, HasLink, Inserted, Busy, vars
  <2> QED BY <2>1, <2>2, PoolStep
<1>3. Spec => []I
  BY GraphInvariance
<1> HIDE DEF I
<1> QED BY <1>1, <1>2, <1>3, LinkedInit, PTL DEF Spec

-----------------------------------------------------------------------------
(* One-way edges                                                           *)

\* Pruning returns as many links as the limit allows.
Fills == PruneHeuristic => KeepPruned

Full(n, l) == Len(links[n][l]) >= MaxLinks(l)
Lists(n, l, t) == t \in Targets(n, l) \/ Full(n, l)
PendingHas(w, t) == \E i \in DOMAIN pending[w] : pending[w][i] = t

\* The other end of an edge lists it, is full, or is about to be told.
EdgeKnown(n, l, t) ==
  \/ Lists(t, l, n)
  \/ \E w \in Worker : /\ node[w] = n /\ layer[w] = l /\ pc[w] \in Linking
                       /\ PendingHas(w, t)

\* A node that is to be told of an edge is still listed by the teller, unless
\* the teller's list has become full since; the one that was just told lists
\* the teller, or is full.
OneWayInv ==
  /\ \A n \in Node, l \in Layer : \A t \in Targets(n, l) : EdgeKnown(n, l, t)
  /\ \A w \in Worker : pc[w] \in Linking =>
       \A t \in Node : PendingHas(w, t) => Lists(node[w], layer[w], t)
  /\ \A w \in Worker : pc[w] = "pruneBack" => Lists(Head(pending[w]), layer[w], node[w])

\* What is appended to a list, and what it had before, is in it.
LEMMA AppendedTargets ==
  ASSUME TypeInv, TypeInv', NEW n \in Node, NEW l \in Layer, NEW more \in Seq(Node),
         links'[n][l] = links[n][l] \o more
  PROVE  /\ Full(n, l) => Full(n, l)'
         /\ Targets(n, l)' = Targets(n, l) \cup {more[i] : i \in DOMAIN more}
<1> DEFINE list == links[n][l]
           longer == list \o more
<1>1. list \in Seq(Node)
  BY DEF TypeInv, TypeOK
<1> HIDE DEF list
<1>2. /\ Len(longer) = Len(list) + Len(more) /\ Len(list) \in Nat /\ Len(more) \in Nat
      /\ \A i \in DOMAIN longer : \/ i \in DOMAIN list /\ longer[i] = list[i]
                                  \/ \E j \in DOMAIN more : longer[i] = more[j]
  BY <1>1, ConcatElements, LenProperties
<1>3. /\ \A i \in DOMAIN list : i \in DOMAIN longer /\ longer[i] = list[i]
      /\ \A j \in DOMAIN more : /\ Len(list) + j \in DOMAIN longer
                                /\ longer[Len(list) + j] = more[j]
  BY <1>1, ConcatCovers
<1>4. links'[n][l] = longer
  BY DEF list
<1> HIDE DEF longer
<1>5. {longer[i] : i \in DOMAIN longer}
        = {list[i] : i \in DOMAIN list} \cup {more[i] : i \in DOMAIN more}
  BY <1>2, <1>3
<1>6. Targets(n, l)' = {longer[i] : i \in DOMAIN longer}
  BY <1>4 DEF Targets
<1>7. Targets(n, l) = {list[i] : i \in DOMAIN list}
  BY DEF Targets, list
<1>8. Full(n, l) => Full(n, l)'
  <2>1. (Full(n, l) <=> Len(list) >= MaxLinks(l)) /\ (Full(n, l)' <=> Len(longer) >= MaxLinks(l))
    BY <1>4 DEF Full, MaxLinks, list
  <2> QED BY <1>2, <2>1, LimitType
<1> QED BY <1>5, <1>6, <1>7, <1>8

\* How the targets of a list change in a step of worker w.
LEMMA TargetSteps ==
  ASSUME TypeInv, TypeInv', NEW w \in Worker, Step(w), NEW n \in Node, NEW l \in Layer
  PROVE  /\ \A t \in Targets(n, l)' : \/ t \in Targets(n, l)
                                      \/ Forward(w, n, l) /\ PendingHas(w, t)'
                                      \/ Backward(w, n, l) /\ t = node[w]
         /\ Fills => \A t : Lists(n, l, t) => Lists(n, l, t)'
         /\ Forward(w, n, l) => \A t : PendingHas(w, t)' => t \in Targets(n, l)'
         /\ Backward(w, n, l) => node[w] \in Targets(n, l)'
<1>a. ASSUME Forward(w, n, l)
      PROVE  /\ Full(n, l) => Full(n, l)'
             /\ Targets(n, l)' = Targets(n, l) \cup {pending'[w][i] : i \in DOMAIN pending'[w]}
  <2>1. pending'[w] \in Seq(Node) /\ links'[n][l] = links[n][l] \o pending'[w]
    BY <1>a DEF Forward, TypeInv, TypeOK
  <2> QED BY <2>1, AppendedTargets
<1>b. ASSUME Backward(w, n, l)
      PROVE  /\ Full(n, l) => Full(n, l)'
             /\ Targets(n, l)' = Targets(n, l) \cup {node[w]}
  <2>1. <<node[w]>> \in Seq(Node) /\ links'[n][l] = links[n][l] \o <<node[w]>>
    BY <1>b DEF Backward, TypeInv, TypeOK
  <2>2. /\ Full(n, l) => Full(n, l)'
        /\ Targets(n, l)' = Targets(n, l) \cup {<<node[w]>>[i] : i \in DOMAIN <<node[w]>>}
    BY <2>1, AppendedTargets
  <2>3. {<<node[w]>>[i] : i \in DOMAIN <<node[w]>>} = {node[w]}
    OBVIOUS
  <2> QED BY <2>2, <2>3
<1> DEFINE Main ==
             /\ \A t \in Targets(n, l)' :
                  \/ t \in Targets(n, l)
                  \/ Forward(w, n, l) /\ PendingHas(w, t)'
                  \/ Backward(w, n, l) /\ t = node[w]
             /\ Fills => \A t : Lists(n, l, t) => Lists(n, l, t)'
<1>1. ASSUME links'[n][l] = links[n][l] PROVE Main
  BY <1>1 DEF Targets, Lists, Full, MaxLinks
<1>2. ASSUME Forward(w, n, l) PROVE Main
  BY <1>2, <1>a DEF Lists, PendingHas
<1>3. ASSUME Backward(w, n, l) PROVE Main
  BY <1>3, <1>b DEF Lists
<1>4. ASSUME Cuts(w, n, l) PROVE Main
  <2>1. /\ links[n][l] \in Seq(Node) /\ MaxLinks(l) \in Nat
        /\ links'[n][l] \in Pruned(n, links[n][l], MaxLinks(l), PruneHeuristic)
    BY <1>4, LimitType DEF Cuts, TypeInv, TypeOK
  <2>2. Targets(n, l)' \subseteq Targets(n, l)
    BY <2>1, PrunedDrawn DEF DrawnFrom, Targets
  <2>3. CASE Len(links[n][l]) <= MaxLinks(l)
    <3>1. links'[n][l] = links[n][l]
      BY <2>1, <2>3 DEF Pruned
    <3> QED BY <1>1, <3>1
  <2>4. CASE Len(links[n][l]) > MaxLinks(l)
    <3>1. Fills => Len(links'[n][l]) = MaxLinks(l)
      BY <2>1, <2>4, PrunedFills DEF Fills
    <3>2. Fills => Full(n, l)'
      BY <2>1, <3>1 DEF Full, MaxLinks
    <3> QED BY <2>2, <3>2 DEF Lists
  <2>5. Len(links[n][l]) \in Nat
    BY <2>1, LenProperties
  <2> QED BY <2>1, <2>3, <2>4, <2>5
<1>5. Forward(w, n, l) => \A t : PendingHas(w, t)' => t \in Targets(n, l)'
  BY <1>a DEF PendingHas
<1>6. Backward(w, n, l) => node[w] \in Targets(n, l)'
  BY <1>b
<1> QED BY <1>1, <1>2, <1>3, <1>4, <1>5, <1>6, ListSteps

\* What a worker that links a node's neighbours does to its pending list.
LEMMA PendingSteps ==
  ASSUME TypeInv, LinksInv, NEW w \in Worker, Step(w), pc[w] \in Linking
  PROVE  /\ node'[w] = node[w]
         /\ \/ NextLayer(w) /\ pending[w] = <<>> /\ pc'[w] \in {"search", "promote"}
            \/ /\ PruneOwn(w) \/ LinkBack(w)
               /\ pending'[w] = pending[w] /\ layer'[w] = layer[w]
               /\ pc'[w] \in Linking /\ (PruneOwn(w) => pc'[w] = "reverse")
            \/ /\ PruneBack(w) /\ pending[w] # <<>> /\ pending'[w] = Tail(pending[w])
               /\ pc[w] = "pruneBack" /\ pc'[w] = "reverse" /\ layer'[w] = layer[w]
<1>1. \/ PruneOwn(w) \/ LinkBack(w) \/ PruneBack(w) \/ NextLayer(w)
  BY DEF Step, Linking, Start, Expand, Descend, Connect, CheckPromote, Promote
<1>2. CASE PruneOwn(w)
  BY <1>2 DEF PruneOwn, Linking, TypeInv, TypeOK
<1>3. CASE LinkBack(w)
  <2>1. HasLayer(Head(pending[w]), layer[w])
    <3>1. 1 \in DOMAIN pending[w] /\ Head(pending[w]) = pending[w][1]
      BY <1>3, HeadTailElements DEF LinkBack, TypeInv, TypeOK
    <3> QED BY <3>1 DEF LinksInv, CarriesOK, Linking
  <2>2. /\ pending' = pending /\ node' = node /\ layer' = layer
        /\ pc'[w] = "pruneBack" /\ ~PruneOwn(w)
    BY <1>3, <2>1 DEF LinkBack, PruneOwn, TypeInv, TypeOK
  <2> QED BY <1>3, <2>2 DEF Linking
<1>4. CASE PruneBack(w)
  BY <1>4 DEF PruneBack, TypeInv, TypeOK, PendingOK
<1>5. CASE NextLayer(w)
  BY <1>5 DEF NextLayer, TypeInv, TypeOK
<1> QED BY <1>1, <1>2, <1>3, <1>4, <1>5

\* A neighbour that is pending is the head, or still pending in the tail.
LEMMA PendingTail ==
  ASSUME TypeInv, NEW w \in Worker, pending[w] # <<>>, pending'[w] = Tail(pending[w]), NEW t
  PROVE  /\ PendingHas(w, t) => t = Head(pending[w]) \/ PendingHas(w, t)'
         /\ PendingHas(w, t)' => PendingHas(w, t)
<1>1. pending[w] \in Seq(Node)
  BY DEF TypeInv, TypeOK
<1>2. PendingHas(w, t) => t = Head(pending[w]) \/ PendingHas(w, t)'
  BY <1>1, HeadOrTail DEF PendingHas
<1>3. PendingHas(w, t)' => PendingHas(w, t)
  BY <1>1, HeadTailElements DEF PendingHas
<1> QED BY <1>2, <1>3

LEMMA OneWayStep ==
  ASSUME Fills, TypeInv, TypeInv', LinksInv, OneWayInv, NEW w \in Worker, Step(w)
  PROVE  OneWayInv'
<1>a. \A n \in Node, l \in Layer : \A t : Lists(n, l, t) => Lists(n, l, t)'
  BY TargetSteps
<1>b. \A v \in Worker : node[v] \in Node /\ layer[v] \in Layer /\ pending[v] \in Seq(Node)
  BY DEF TypeInv, TypeOK
<1>c. \A v \in Worker : v # w => /\ pc'[v] = pc[v] /\ layer'[v] = layer[v]
                                 /\ node'[v] = node[v] /\ pending'[v] = pending[v]
  BY OthersUnchanged
<1>d. ASSUME NEW v \in Worker, pc[v] = "pruneBack"
      PROVE  Head(pending[v]) \in Node
  BY <1>b, <1>d, HeadTailElements DEF TypeInv, PendingOK
<1>1. ASSUME NEW v \in Worker, pc'[v] \in Linking, NEW t \in Node, PendingHas(v, t)'
      PROVE  Lists(node[v], layer[v], t)'  /\ node'[v] = node[v] /\ layer'[v] = layer[v]
  <2>1. CASE v # w
    <3>1. Lists(node[v], layer[v], t)
      BY <1>1, <1>c, <2>1 DEF OneWayInv, PendingHas
    <3>2. node'[v] = node[v] /\ layer'[v] = layer[v]
      BY <1>c, <2>1
    <3>3. \A n \in Node, l \in Layer : n = node[v] /\ l = layer[v] => Lists(n, l, t)'
      BY <1>a, <3>1
    <3> QED BY <1>b, <3>2, <3>3 DEF Lists, Full, Targets, MaxLinks
  <2>2. CASE v = w /\ pc[w] \in Linking
    <3>1. node'[w] = node[w] /\ layer'[w] = layer[w] /\ PendingHas(w, t)
      BY <1>1, <2>2, PendingSteps, PendingTail DEF Linking, PendingHas
    <3>2. Lists(node[w], layer[w], t)
      BY <2>2, <3>1 DEF OneWayInv
    <3>3. \A n \in Node, l \in Layer : n = node[w] /\ l = layer[w] => Lists(n, l, t)'
      BY <1>a, <3>2
    <3> QED BY <1>b, <2>2, <3>1, <3>3 DEF Lists, Full, Targets, MaxLinks
  <2>3. CASE v = w /\ pc[w] \notin Linking
    <3>1. Connect(w)
      <4>1. pc \in [Worker -> {"idle", "search", "pruneOwn", "reverse", "pruneBack",
                               "promote", "lock"}]
        BY DEF TypeInv, TypeOK
      <4>2. ASSUME Start(w) \/ Expand(w) \/ Descend(w) PROVE FALSE
        BY <1>1, <2>3, <4>1, <4>2 DEF Start, Expand, Descend, Linking
      <4>3. ASSUME PruneOwn(w) \/ LinkBack(w) \/ PruneBack(w) \/ NextLayer(w) PROVE FALSE
        BY <2>3, <4>3 DEF PruneOwn, LinkBack, PruneBack, NextLayer, Linking
      <4>4. ASSUME CheckPromote(w) \/ Promote(w) PROVE FALSE
        BY <1>1, <2>3, <4>1, <4>4 DEF CheckPromote, Promote, Finish, Linking
      <4> QED BY <4>2, <4>3, <4>4 DEF Step
    <3>2. /\ Forward(w, node[w], layer[w]) /\ node'[w] = node[w] /\ layer'[w] = layer[w]
      BY <3>1, ConnectWrites DEF Connect
    <3>4. ASSUME NEW n \in Node, NEW l \in Layer, Forward(w, n, l)
          PROVE  t \in Targets(n, l)'
      BY <1>1, <2>3, <3>4, TargetSteps
    <3>5. \A n \in Node, l \in Layer : n = node[w] /\ l = layer[w] => Lists(n, l, t)'
      BY <3>2, <3>4 DEF Lists
    <3> QED BY <1>b, <2>3, <3>2, <3>5 DEF Lists, Full, Targets, MaxLinks
  <2> QED BY <2>1, <2>2, <2>3
<1>2. ASSUME NEW v \in Worker, pc'[v] = "pruneBack"
      PROVE  Lists(Head(pending[v]), layer[v], node[v])'
  <2>1. CASE v # w
    <3>1. Lists(Head(pending[v]), layer[v], node[v]) /\ Head(pending[v]) \in Node
      BY <1>2, <1>c, <1>d, <2>1 DEF OneWayInv
    <3>3. /\ node'[v] = node[v] /\ layer'[v] = layer[v] /\ pending'[v] = pending[v]
      BY <1>c, <2>1
    <3>2. \A n \in Node, l \in Layer :
            n = Head(pending[v]) /\ l = layer[v] => Lists(n, l, node[v])'
      BY <1>a, <3>1, <3>3 DEF Lists
    <3> QED BY <1>b, <3>1, <3>2, <3>3 DEF Lists, Full, Targets, MaxLinks
  <2>2. CASE v = w
    <3>1. LinkBack(w) /\ HasLayer(Head(pending[w]), layer[w])
      <4>1. pc \in [Worker -> {"idle", "search", "pruneOwn", "reverse", "pruneBack",
                               "promote", "lock"}]
        BY DEF TypeInv, TypeOK
      <4>2. ASSUME Start(w) \/ Expand(w) \/ Descend(w) \/ Connect(w) PROVE FALSE
        BY <1>2, <2>2, <4>1, <4>2 DEF Start, Expand, Descend, Connect
      <4>3. ASSUME PruneOwn(w) \/ PruneBack(w) \/ NextLayer(w) PROVE FALSE
        BY <1>2, <2>2, <4>1, <4>3 DEF PruneOwn, PruneBack, NextLayer
      <4>4. ASSUME CheckPromote(w) \/ Promote(w) PROVE FALSE
        BY <1>2, <2>2, <4>1, <4>4 DEF CheckPromote, Promote, Finish
      <4>5. LinkBack(w)
        BY <4>2, <4>3, <4>4 DEF Step
      <4> QED BY <1>2, <2>2, <4>5 DEF LinkBack
    <3>2. /\ Backward(w, Head(pending[w]), layer[w])
          /\ node'[w] = node[w] /\ layer'[w] = layer[w] /\ pending'[w] = pending[w]
      BY <3>1, LinkBackWrites DEF LinkBack
    <3>3. Head(pending[w]) \in Node
      BY <1>b, <3>1, HeadTailElements DEF LinkBack
    <3>4. ASSUME NEW n \in Node, NEW l \in Layer, Backward(w, n, l)
          PROVE  node[w] \in Targets(n, l)'
      BY <3>4, TargetSteps
    <3>5. \A n \in Node, l \in Layer :
            n = Head(pending[w]) /\ l = layer[w] => Lists(n, l, node[w])'
      BY <3>2, <3>4 DEF Lists
    <3> QED BY <1>b, <2>2, <3>2, <3>3, <3>5 DEF Lists, Full, Targets, MaxLinks
  <2> QED BY <2>1, <2>2
<1>3. ASSUME NEW n \in Node, NEW l \in Layer, NEW t \in Node, EdgeKnown(n, l, t)
      PROVE  EdgeKnown(n, l, t)'
  <2>1. CASE Lists(t, l, n)
    BY <1>a, <2>1 DEF EdgeKnown
  <2>2. ASSUME NEW v \in Worker, node[v] = n, layer[v] = l, pc[v] \in Linking, PendingHas(v, t)
        PROVE  EdgeKnown(n, l, t)'
    <3>1. CASE v # w
      <4>1. (node[v] = n /\ layer[v] = l /\ pc[v] \in Linking /\ PendingHas(v, t))'
        BY <1>c, <2>2, <3>1 DEF PendingHas
      <4> QED BY <4>1 DEF EdgeKnown
    <3>2. CASE v = w /\ pending'[w] = pending[w] /\ layer'[w] = layer[w] /\ pc'[w] \in Linking
      <4>1. (node[w] = n /\ layer[w] = l /\ pc[w] \in Linking /\ PendingHas(w, t))'
        BY <2>2, <3>2, PendingSteps DEF PendingHas
      <4> QED BY <4>1 DEF EdgeKnown
    <3>3. CASE v = w /\ PruneBack(w)
      <4>1. /\ pending[w] # <<>> /\ pending'[w] = Tail(pending[w]) /\ pc'[w] = "reverse"
            /\ layer'[w] = layer[w] /\ node'[w] = node[w] /\ pc[w] = "pruneBack"
        BY <2>2, <3>3, PendingSteps DEF PruneBack, LinkBack, PruneOwn, NextLayer
      <4>2. CASE t = Head(pending[w])
        <5>1. Lists(t, l, n)
          BY <2>2, <3>3, <4>1, <4>2 DEF OneWayInv
        <5> QED BY <1>a, <5>1 DEF EdgeKnown
      <4>3. CASE PendingHas(w, t)'
        <5>1. (node[w] = n /\ layer[w] = l /\ pc[w] \in Linking /\ PendingHas(w, t))'
          BY <2>2, <3>3, <4>1, <4>3 DEF Linking
        <5> QED BY <5>1 DEF EdgeKnown
      <4> QED BY <2>2, <3>3, <4>1, <4>2, <4>3, PendingTail
    <3>4. CASE v = w /\ pending[w] = <<>>
      BY <2>2, <3>4 DEF PendingHas
    <3> QED BY <2>2, <3>1, <3>2, <3>3, <3>4, PendingSteps
  <2> QED BY <1>3, <2>1, <2>2 DEF EdgeKnown
<1>4. ASSUME NEW n \in Node, NEW l \in Layer, NEW t \in Targets(n, l)'
      PROVE  EdgeKnown(n, l, t)'
  <2>1. t \in Node
    <3>1. links'[n][l] \in Seq(Node)
      BY DEF TypeInv, TypeOK
    <3> QED BY <1>4, <3>1, ElementOfSeq DEF Targets
  <2>2. CASE t \in Targets(n, l)
    BY <1>3, <2>1, <2>2 DEF OneWayInv
  <2>3. CASE Forward(w, n, l) /\ PendingHas(w, t)'
    <3>1. pc'[w] = "pruneOwn" /\ node'[w] = n /\ layer'[w] = l
      BY <2>3 DEF Forward, Connect, TypeInv, TypeOK
    <3> QED BY <2>3, <3>1 DEF EdgeKnown, Linking
  <2>4. CASE Backward(w, n, l) /\ t = node[w]
    <3>1. pc[w] = "reverse" /\ pending[w] # <<>> /\ n = Head(pending[w]) /\ l = layer[w]
      BY <2>4 DEF Backward, LinkBack
    <3>2. PendingHas(w, n)
      BY <1>b, <3>1, HeadTailElements DEF PendingHas
    <3>3. Lists(t, l, n)
      BY <2>4, <3>1, <3>2 DEF OneWayInv, Linking
    <3> QED BY <1>a, <2>1, <3>3 DEF EdgeKnown
  <2> QED BY <1>4, <2>2, <2>3, <2>4, TargetSteps
<1> QED BY <1>1, <1>2, <1>4 DEF OneWayInv

LEMMA OneWayInit == Init => OneWayInv
BY DEF Init, OneWayInv, Targets, Linking

\* When every prune returns a full list, an edge without its reverse leads to
\* a node whose list is full, unless its writer has yet to link back; whoever
\* pruned what in between.
THEOREM OneWayExplained == Spec => []OneWayMeansFull
<1> DEFINE I == TypeInv /\ OwnInv /\ EntryInv /\ LinksInv
           J == Fills => OneWayInv
<1>1. J => OneWayMeansFull
  BY DEF OneWayMeansFull, OneWayInv, EdgeKnown, Lists, Full, Fills, Linking, PendingHas
<1>2. I /\ I' /\ J /\ [Next]_vars => J'
  <2> SUFFICES ASSUME I, I', Fills, OneWayInv, [Next]_vars PROVE OneWayInv'
    BY DEF Fills
  <2>1. CASE \E w \in Worker : Step(w)
    BY <2>1, OneWayStep
  <2>2. CASE UNCHANGED vars
    BY <2>2 DEF OneWayInv, EdgeKnown, Lists, Full, Targets, PendingHas, MaxLinks, vars
  <2> QED BY <2>1, <2>2, PoolStep
<1>3. Spec => []I
  BY GraphInvariance
<1>4. Init => J
  BY OneWayInit
<1> HIDE DEF I, J
<1> QED BY <1>1, <1>2, <1>3, <1>4, PTL DEF Spec

-----------------------------------------------------------------------------
(* How often a node is listed                                              *)

Places(list, x) == {i \in DOMAIN list : list[i] = x}
Copies(list, x) == Cardinality(Places(list, x))

LEMMA CopiesType ==
  ASSUME NEW list \in Seq(Node), NEW x
  PROVE  IsFiniteSet(Places(list, x)) /\ Copies(list, x) \in Nat
<1>1. DOMAIN list = 1..Len(list) /\ Len(list) \in Nat
  BY LenProperties
<1>2. IsFiniteSet(DOMAIN list)
  BY <1>1, FS_Interval
<1>3. Places(list, x) \in SUBSET DOMAIN list
  BY DEF Places
<1>4. IsFiniteSet(Places(list, x))
  BY <1>2, <1>3, FS_Subset
<1> QED BY <1>4, FS_CardinalityType DEF Copies

\* Copies add up.
LEMMA CopiesConcat ==
  ASSUME NEW s \in Seq(Node), NEW t \in Seq(Node), NEW x
  PROVE  Copies(s \o t, x) <= Copies(s, x) + Copies(t, x)
<1> DEFINE A == Places(s, x)
           T == Places(t, x)
           f == [j \in T |-> Len(s) + j]
           B == {f[j] : j \in T}
<1>1. IsFiniteSet(A) /\ IsFiniteSet(T) /\ Cardinality(A) \in Nat /\ Cardinality(T) \in Nat
  BY CopiesType DEF Copies
<1>2. f \in Surjection(T, B)
  BY DEF Surjection
<1> HIDE DEF f
<1>3. IsFiniteSet(B) /\ Cardinality(B) <= Cardinality(T)
  <2> HIDE DEF B, T
  <2> QED BY <1>1, <1>2, FS_Surjection
<1>4. Places(s \o t, x) \subseteq A \cup B
  <2>1. s \o t \in Seq(Node) /\ Len(s \o t) = Len(s) + Len(t) /\ Len(s) \in Nat /\ Len(t) \in Nat
    BY ConcatElements, LenProperties
  <2>2. DOMAIN (s \o t) = 1..(Len(s) + Len(t))
    BY <2>1, LenProperties
  <2>3. ASSUME NEW i \in 1..(Len(s) + Len(t)), (s \o t)[i] = x PROVE i \in A \cup B
    <3>1. CASE i <= Len(s)
      BY <2>1, <2>3, <3>1, ConcatProperties, LenProperties DEF Places
    <3>2. CASE ~(i <= Len(s))
      <4>1. /\ i - Len(s) \in 1..Len(t) /\ (s \o t)[i] = t[i - Len(s)]
            /\ Len(s) + (i - Len(s)) = i
        BY <2>1, <3>2, ConcatProperties
      <4>2. i - Len(s) \in T
        BY <2>3, <4>1, LenProperties DEF Places
      <4> QED BY <4>1, <4>2 DEF f
    <3> QED BY <3>1, <3>2
  <2> QED BY <2>2, <2>3 DEF Places
<1> HIDE DEF A, B, T
<1>5. /\ IsFiniteSet(A \cup B)
      /\ Cardinality(A \cup B) = Cardinality(A) + Cardinality(B) - Cardinality(A \cap B)
  BY <1>1, <1>3, FS_Union
<1>6. Cardinality(A \cap B) \in Nat /\ Cardinality(B) \in Nat
  BY <1>1, <1>3, FS_Intersection, FS_CardinalityType
<1>7. Cardinality(Places(s \o t, x)) <= Cardinality(A \cup B)
  BY <1>4, <1>5, FS_Subset
<1>8. Copies(s \o t, x) \in Nat
  <2>1. s \o t \in Seq(Node)
    BY ConcatElements
  <2> QED BY <2>1, CopiesType
<1> QED BY <1>1, <1>3, <1>5, <1>6, <1>7, <1>8 DEF Copies, A, T

\* A list without repetition has every node once or not at all.
LEMMA CopiesOnce ==
  ASSUME NEW s \in Seq(Node), IsInjective(s), NEW x
  PROVE  Copies(s, x) <= 1
<1>1. CASE Places(s, x) = {}
  BY <1>1, FS_EmptySet DEF Copies
<1>2. ASSUME NEW i \in Places(s, x) PROVE Copies(s, x) <= 1
  <2>1. Places(s, x) = {i}
    BY DEF Places, IsInjective
  <2>2. Cardinality({i}) = 1
    BY FS_Singleton
  <2>3. Copies(s, x) = 1
    BY <2>1, <2>2 DEF Copies
  <2> QED BY <2>3
<1> QED BY <1>1, <1>2

\* A part of a list, no entry taken twice, does not repeat a node more often.
LEMMA CopiesDrawn ==
  ASSUME NEW list \in Seq(Node), NEW part \in Seq(Node), NEW pick, Draws(part, list, pick), NEW x
  PROVE  Copies(part, x) <= Copies(list, x)
<1> DEFINE P == Places(part, x)
           L == Places(list, x)
           f == [i \in P |-> pick[i]]
<1>1. f \in [P -> L]
  BY DEF Draws, Places
<1>2. IsInjective(f)
  BY DEF Draws, Places, IsInjective
<1>3. f \in Injection(P, L)
  BY <1>1, <1>2 DEF Injection
<1>4. IsFiniteSet(L)
  BY CopiesType
<1> HIDE DEF P, L, f
<1>5. Cardinality(P) <= Cardinality(L)
  BY <1>3, <1>4, FS_Injection
<1> QED BY <1>5 DEF Copies, P, L

\* Worker w has yet to write the forward edges of n on layer l.
ForwardAhead(w, n, l) ==
  /\ Busy(w) /\ node[w] = n
  /\ \/ pc[w] = "search" /\ l <= layer[w]
     \/ pc[w] \in Linking /\ l < layer[w]

\* Worker w has yet to link node t back to n on layer l, or may have to.
BackAhead(w, t, n, l) ==
  /\ Busy(w) /\ node[w] = t
  /\ \/ pc[w] \in {"search", "pruneOwn"} /\ l <= layer[w]
     \/ pc[w] \in Linking /\ l < layer[w]
     \/ pc[w] = "reverse" /\ l = layer[w] /\ PendingHas(w, n)
     \/ /\ pc[w] = "pruneBack" /\ l = layer[w]
        /\ \E i \in DOMAIN Tail(pending[w]) : Tail(pending[w])[i] = n

MayForward(n, l) == n \notin todo /\ \A w \in Worker : ~ForwardAhead(w, n, l)
MayBack(t, n, l) == t \notin todo /\ \A w \in Worker : ~BackAhead(w, t, n, l)

Once(may) == IF may THEN 1 ELSE 0

\* A list has a node once for the forward edge, once for the reverse edge,
\* and not before the one or the other may have been written.
CopiesOK(n, t, l) ==
  Copies(links[n][l], t) <= Once(MayForward(n, l)) + Once(MayBack(t, n, l))

TwiceInv ==
  /\ \A w \in Worker : IsInjective(pending[w])
  /\ \A n, t \in Node, l \in Layer : CopiesOK(n, t, l)

\* Edges that are no longer ahead of their writers do not come back.
LEMMA AheadShrinks ==
  ASSUME TypeInv, LinksInv, NEW w \in Worker, Step(w),
         NEW n \in Node, NEW t \in Node, NEW l \in Layer
  PROVE  /\ ForwardAhead(w, n, l)' => ForwardAhead(w, n, l) \/ n \in todo
         /\ BackAhead(w, t, n, l)' => BackAhead(w, t, n, l) \/ t \in todo
<1> l \in Nat /\ layer[w] \in Nat
  BY ZeroLayer DEF TypeInv, TypeOK
<1>1. CASE Start(w)
  <2>1. node'[w] \in todo
    BY <1>1 DEF Start, TypeInv, TypeOK
  <2> QED BY <2>1 DEF ForwardAhead, BackAhead
<1>2. CASE Expand(w)
  <2>1. UNCHANGED <<pc, node, layer, pending>>
    BY <1>2 DEF Expand
  <2> QED BY <2>1 DEF ForwardAhead, BackAhead, Busy, PendingHas
<1>3. CASE Descend(w)
  <2>1. /\ UNCHANGED <<pc, node>> /\ layer'[w] = layer[w] - 1 /\ pc[w] = "search"
    BY <1>3 DEF Descend, TypeInv, TypeOK
  <2> QED BY <2>1 DEF ForwardAhead, BackAhead, Busy, Linking
<1>4. CASE Connect(w)
  <2>1. /\ pc[w] = "search" /\ pc'[w] = "pruneOwn" /\ UNCHANGED <<node, layer>>
    BY <1>4 DEF Connect, searchVars, TypeInv, TypeOK
  <2> QED BY <2>1 DEF ForwardAhead, BackAhead, Busy, Linking
<1>5. CASE pc[w] \in Linking
  <2> USE DEF ForwardAhead, BackAhead, Busy, Linking
  <2>1. CASE NextLayer(w)
    <3>1. /\ pc[w] = "reverse" /\ node' = node
          /\ \/ pc'[w] = "promote"
             \/ pc'[w] = "search" /\ layer'[w] = layer[w] - 1
      BY <2>1 DEF NextLayer, TypeInv, TypeOK
    <3> QED BY <3>1
  <2>2. CASE PruneOwn(w)
    <3>1. /\ pc[w] = "pruneOwn" /\ pc'[w] = "reverse" /\ UNCHANGED <<node, layer, pending>>
      BY <2>2 DEF PruneOwn, searchVars, TypeInv, TypeOK
    <3> QED BY <3>1
  <2>3. CASE LinkBack(w)
    <3>1. /\ pc[w] = "reverse" /\ pending[w] # <<>> /\ node'[w] = node[w]
          /\ pending'[w] = pending[w] /\ layer'[w] = layer[w] /\ pc'[w] \in {"reverse", "pruneBack"}
      <4>1. /\ pc[w] = "reverse" /\ pending[w] # <<>>
            /\ pc'[w] \in {"reverse", "pruneBack"}
        BY <2>3 DEF LinkBack, TypeInv, TypeOK
      <4>2. ~NextLayer(w) /\ ~PruneBack(w)
        BY <4>1 DEF NextLayer, PruneBack
      <4> QED BY <1>5, <4>1, <4>2, PendingSteps
    <3>2. (\E i \in DOMAIN Tail(pending[w]) : Tail(pending[w])[i] = n) => PendingHas(w, n)
      <4>1. pending[w] \in Seq(Node)
        BY DEF TypeInv, TypeOK
      <4> QED BY <3>1, <4>1, HeadTailElements DEF PendingHas
    <3>3. PendingHas(w, n)' <=> PendingHas(w, n)
      BY <3>1 DEF PendingHas
    <3>4. (\E i \in DOMAIN Tail(pending'[w]) : Tail(pending'[w])[i] = n) => PendingHas(w, n)
      BY <3>1, <3>2
    <3> QED BY <3>1, <3>3, <3>4
  <2>4. CASE PruneBack(w)
    <3>1. /\ pc[w] = "pruneBack" /\ pc'[w] = "reverse" /\ UNCHANGED <<node, layer>>
          /\ pending'[w] = Tail(pending[w])
      BY <2>4 DEF PruneBack, searchVars, TypeInv, TypeOK
    <3> QED BY <3>1 DEF PendingHas
  <2>5. \/ PruneOwn(w) \/ LinkBack(w) \/ PruneBack(w) \/ NextLayer(w)
    BY <1>5, PendingSteps
  <2> QED BY <2>1, <2>2, <2>3, <2>4, <2>5
<1>6. CASE CheckPromote(w) \/ Promote(w)
  <2>1. pc'[w] \in {"lock", "idle"}
    BY <1>6 DEF CheckPromote, Promote, Finish, TypeInv, TypeOK
  <2> QED BY <2>1 DEF ForwardAhead, BackAhead, Busy, Linking
<1>7. PruneOwn(w) \/ LinkBack(w) \/ PruneBack(w) \/ NextLayer(w) => pc[w] \in Linking
  BY DEF PruneOwn, LinkBack, PruneBack, NextLayer, Linking
<1> QED BY <1>1, <1>2, <1>3, <1>4, <1>5, <1>6, <1>7 DEF Step

LEMMA MayStays ==
  ASSUME TypeInv, OwnInv, LinksInv, NEW w \in Worker, Step(w),
         NEW n \in Node, NEW t \in Node, NEW l \in Layer
  PROVE  /\ MayForward(n, l) => MayForward(n, l)'
         /\ MayBack(t, n, l) => MayBack(t, n, l)'
<1>1. todo' \subseteq todo
  BY DEF Step, Start, Expand, Descend, Connect, PruneOwn, LinkBack, PruneBack,
         NextLayer, CheckPromote, Promote
<1>2. ASSUME NEW v \in Worker
      PROVE  /\ ForwardAhead(v, n, l)' => ForwardAhead(v, n, l) \/ n \in todo
             /\ BackAhead(v, t, n, l)' => BackAhead(v, t, n, l) \/ t \in todo
  <2>1. CASE v = w
    BY <2>1, AheadShrinks
  <2>2. CASE v # w
    <3>1. /\ pc'[v] = pc[v] /\ layer'[v] = layer[v] /\ node'[v] = node[v]
          /\ pending'[v] = pending[v]
      BY <2>2, OthersUnchanged
    <3> QED BY <3>1 DEF ForwardAhead, BackAhead, Busy, PendingHas
  <2> QED BY <2>1, <2>2
<1> QED BY <1>1, <1>2 DEF MayForward, MayBack

\* No neighbour is pending twice.
LEMMA PendingApart ==
  ASSUME TypeInv, LinksInv, TwiceInv, NEW w \in Worker, Step(w), NEW v \in Worker
  PROVE  IsInjective(pending'[v])
<1>0. IsInjective(pending[v])
  BY DEF TwiceInv
<1>1. CASE v # w
  BY <1>0, <1>1, OthersUnchanged
<1>2. ASSUME v = w, Connect(w) PROVE IsInjective(pending'[w])
  <2> DEFINE edges == [c \in Candidates(w) |-> c]
  <2>1. pending'[w] \in Selections(node[w], edges, MaxLinks(layer[w]), UseHeuristic)
    BY <1>2, ConnectWrites DEF Forward
  <2>2. /\ EdgeList(edges) /\ \A d \in DOMAIN edges : edges[d] = d
        /\ node[w] \in Node /\ MaxLinks(layer[w]) \in Nat
    BY CandidateEdges, LimitType DEF TypeInv, TypeOK
  <2> HIDE DEF edges
  <2>3. PICK pick : Draws(pending'[w], edges, pick)
    BY <2>1, <2>2, SelectionDraws
  <2> QED BY <2>2, <2>3 DEF Draws, IsInjective
<1>3. ASSUME v = w, pc[w] \in Linking PROVE IsInjective(pending'[w])
  <2>1. \/ pending'[w] = pending[w]
        \/ pending[w] # <<>> /\ pending'[w] = Tail(pending[w])
    BY <1>3, PendingSteps DEF NextLayer, TypeInv, TypeOK
  <2>2. pending[w] \in Seq(Node)
    BY DEF TypeInv, TypeOK
  <2> QED BY <1>0, <1>3, <2>1, <2>2, HeadOrTail
<1>4. CASE Start(w) \/ Expand(w) \/ Descend(w)
  BY <1>0, <1>4 DEF Start, Expand, Descend
<1>5. ASSUME v = w, CheckPromote(w) \/ Promote(w) PROVE IsInjective(pending'[w])
  <2>1. pending'[w] = pending[w] \/ pending'[w] = <<>>
    BY <1>5 DEF CheckPromote, Promote, Finish, TypeInv, TypeOK
  <2> QED BY <1>0, <1>5, <2>1 DEF IsInjective
<1>6. PruneOwn(w) \/ LinkBack(w) \/ PruneBack(w) \/ NextLayer(w) => pc[w] \in Linking
  BY DEF PruneOwn, LinkBack, PruneBack, NextLayer, Linking
<1> QED BY <1>1, <1>2, <1>3, <1>4, <1>5, <1>6 DEF Step

LEMMA ForwardOnce ==
  ASSUME TypeInv, TypeInv', OwnInv, OwnInv', LinksInv, TwiceInv,
         NEW w \in Worker, Step(w),
         NEW n \in Node, NEW t \in Node, NEW l \in Layer, Forward(w, n, l)
  PROVE  CopiesOK(n, t, l)'
<1>1. ~MayForward(n, l)
  BY ZeroLayer DEF Forward, Connect, MayForward, ForwardAhead, Busy
<1>2. MayForward(n, l)'
  <2>1. /\ pc[w] = "search" /\ pc'[w] = "pruneOwn" /\ UNCHANGED <<node, layer, todo>>
        /\ n = node[w] /\ l = layer[w]
    BY DEF Forward, Connect, searchVars, TypeInv, TypeOK
  <2>2. n \notin todo'
    BY <2>1 DEF OwnInv, Busy
  <2>3. \A v \in Worker : ~ForwardAhead(v, n, l)'
    BY <2>1, ZeroLayer DEF OwnInv, ForwardAhead, Busy, Linking
  <2> QED BY <2>2, <2>3 DEF MayForward
<1>3. MayBack(t, n, l) => MayBack(t, n, l)'
  BY MayStays
<1>4. /\ links'[n][l] = links[n][l] \o pending'[w]
      /\ links[n][l] \in Seq(Node) /\ pending'[w] \in Seq(Node)
  BY DEF Forward, TypeInv, TypeOK
<1>5. Copies(links'[n][l], t) <= Copies(links[n][l], t) + Copies(pending'[w], t)
  BY <1>4, CopiesConcat
<1>6. Copies(pending'[w], t) <= 1
  BY <1>4, PendingApart, CopiesOnce
<1>7. Copies(links[n][l], t) <= Once(MayForward(n, l)) + Once(MayBack(t, n, l))
  BY DEF TwiceInv, CopiesOK
<1>8. /\ Copies(links'[n][l], t) \in Nat /\ Copies(links[n][l], t) \in Nat
      /\ Copies(pending'[w], t) \in Nat
  <2>1. links'[n][l] \in Seq(Node)
    BY DEF TypeInv, TypeOK
  <2> QED BY <1>4, <2>1, CopiesType
<1>9. /\ Once(MayForward(n, l)) = 0 /\ Once(MayForward(n, l)') = 1
      /\ Once(MayBack(t, n, l)) <= Once(MayBack(t, n, l)')
      /\ Once(MayBack(t, n, l)) \in Nat /\ Once(MayBack(t, n, l)') \in Nat
  BY <1>1, <1>2, <1>3 DEF Once
<1>10. Copies(links'[n][l], t) <= Once(MayForward(n, l)') + Once(MayBack(t, n, l)')
  BY <1>5, <1>6, <1>7, <1>8, <1>9
<1> QED BY <1>10 DEF CopiesOK, Once

LEMMA BackwardOnce ==
  ASSUME TypeInv, TypeInv', OwnInv, OwnInv', LinksInv, TwiceInv,
         NEW w \in Worker, Step(w),
         NEW n \in Node, NEW t \in Node, NEW l \in Layer, Backward(w, n, l)
  PROVE  CopiesOK(n, t, l)'
<1>1. /\ pc[w] = "reverse" /\ pc'[w] = "pruneBack" /\ UNCHANGED <<node, layer, todo>>
      /\ l = layer[w] /\ pending' = pending /\ pending[w] # <<>> /\ n = Head(pending[w])
      /\ pending[w] \in Seq(Node)
  <2>0. /\ pending \in [Worker -> Seq(Node)] /\ DOMAIN pc = Worker /\ pending[w] # <<>>
        /\ pc[w] = "reverse" /\ UNCHANGED <<node, layer, todo>> /\ pending' = pending
        /\ l = layer[w] /\ n = Head(pending[w])
    BY DEF Backward, LinkBack, TypeInv, TypeOK
  <2>1. pending[w] # Tail(pending[w])
    BY <2>0, HeadTailProperties
  <2>2. pc' = [pc EXCEPT ![w] = "pruneBack"]
    BY <2>0, <2>1 DEF Backward, LinkBack
  <2> QED BY <2>0, <2>2
<1>2. ASSUME t = node[w] PROVE ~MayBack(t, n, l) /\ MayBack(t, n, l)'
  <2>1. PendingHas(w, n)
    BY <1>1, HeadTailElements DEF PendingHas
  <2>2. ~MayBack(t, n, l)
    BY <1>1, <1>2, <2>1 DEF MayBack, BackAhead, Busy
  <2>3. t \notin todo'
    BY <1>1, <1>2 DEF OwnInv, Busy
  <2>4. ~BackAhead(w, t, n, l)'
    <3>1. ~\E i \in DOMAIN Tail(pending[w]) : Tail(pending[w])[i] = n
      BY <1>1, HeadOrTail DEF TwiceInv
    <3> QED BY <1>1, <3>1, ZeroLayer DEF BackAhead, Linking
  <2>5. \A v \in Worker \ {w} : ~BackAhead(v, t, n, l)'
    BY <1>1, <1>2 DEF OwnInv, BackAhead, Busy
  <2> QED BY <2>2, <2>3, <2>4, <2>5 DEF MayBack
<1>3. /\ MayForward(n, l) => MayForward(n, l)'
      /\ MayBack(t, n, l) => MayBack(t, n, l)'
  BY MayStays
<1>4. /\ links'[n][l] = links[n][l] \o <<node[w]>>
      /\ links[n][l] \in Seq(Node) /\ <<node[w]>> \in Seq(Node)
  <2>1. node[w] \in Node
    BY DEF TypeInv, TypeOK
  <2>2. links'[n][l] = links[n][l] \o <<node[w]>>
    BY DEF Backward
  <2>3. links[n][l] \in Seq(Node)
    BY DEF TypeInv, TypeOK
  <2>4. <<node[w]>> \in Seq(Node)
    BY <2>1
  <2> QED BY <2>2, <2>3, <2>4
<1>5. Copies(links'[n][l], t) <= Copies(links[n][l], t) + Copies(<<node[w]>>, t)
  BY <1>4, CopiesConcat
<1>6. Copies(<<node[w]>>, t) <= 1 /\ (t # node[w] => Copies(<<node[w]>>, t) = 0)
  <2>1. IsInjective(<<node[w]>>)
    BY DEF IsInjective
  <2>2. Copies(<<node[w]>>, t) <= 1
    BY <1>4, <2>1, CopiesOnce
  <2>3. t # node[w] => Places(<<node[w]>>, t) = {}
    BY DEF Places
  <2> QED BY <2>2, <2>3, FS_EmptySet DEF Copies
<1>7. Copies(links[n][l], t) <= Once(MayForward(n, l)) + Once(MayBack(t, n, l))
  BY DEF TwiceInv, CopiesOK
<1>8. /\ Copies(links'[n][l], t) \in Nat /\ Copies(links[n][l], t) \in Nat
      /\ Copies(<<node[w]>>, t) \in Nat
  <2>1. links'[n][l] \in Seq(Node)
    BY DEF TypeInv, TypeOK
  <2> QED BY <1>4, <2>1, CopiesType
<1>9. /\ t = node[w] => Once(MayBack(t, n, l)) = 0 /\ Once(MayBack(t, n, l)') = 1
      /\ Once(MayForward(n, l)) <= Once(MayForward(n, l)')
      /\ Once(MayBack(t, n, l)) <= Once(MayBack(t, n, l)')
      /\ Once(MayBack(t, n, l)) \in Nat /\ Once(MayBack(t, n, l)') \in Nat
      /\ Once(MayForward(n, l)) \in Nat /\ Once(MayForward(n, l)') \in Nat
  BY <1>2, <1>3 DEF Once
<1>10. Copies(links'[n][l], t) <= Once(MayForward(n, l)') + Once(MayBack(t, n, l)')
  BY <1>5, <1>6, <1>7, <1>8, <1>9
<1> QED BY <1>10 DEF CopiesOK, Once

LEMMA CutsOnce ==
  ASSUME TypeInv, TypeInv', OwnInv, LinksInv, TwiceInv, NEW w \in Worker, Step(w),
         NEW n \in Node, NEW t \in Node, NEW l \in Layer,
         links'[n][l] = links[n][l] \/ Cuts(w, n, l)
  PROVE  CopiesOK(n, t, l)'
<1>1. /\ MayForward(n, l) => MayForward(n, l)'
      /\ MayBack(t, n, l) => MayBack(t, n, l)'
  BY MayStays
<1>2. /\ Once(MayForward(n, l)) <= Once(MayForward(n, l)')
      /\ Once(MayBack(t, n, l)) <= Once(MayBack(t, n, l)')
      /\ Once(MayBack(t, n, l)) \in Nat /\ Once(MayBack(t, n, l)') \in Nat
      /\ Once(MayForward(n, l)) \in Nat /\ Once(MayForward(n, l)') \in Nat
  BY <1>1 DEF Once
<1>3. links[n][l] \in Seq(Node) /\ links'[n][l] \in Seq(Node)
  BY DEF TypeInv, TypeOK
<1>4. Copies(links'[n][l], t) \in Nat /\ Copies(links[n][l], t) \in Nat
  BY <1>3, CopiesType
<1>5. Copies(links'[n][l], t) <= Copies(links[n][l], t)
  <2>1. CASE links'[n][l] = links[n][l]
    BY <1>4, <2>1
  <2>2. CASE Cuts(w, n, l)
    <3>1. MaxLinks(l) \in Nat /\ links'[n][l] \in Pruned(n, links[n][l], MaxLinks(l), PruneHeuristic)
      BY <2>2, LimitType DEF Cuts
    <3>2. PICK pick : Draws(links'[n][l], links[n][l], pick)
      BY <1>3, <3>1, PrunedDraws
    <3> QED BY <1>3, <3>2, CopiesDrawn
  <2> QED BY <2>1, <2>2
<1>6. Copies(links[n][l], t) <= Once(MayForward(n, l)) + Once(MayBack(t, n, l))
  BY DEF TwiceInv, CopiesOK
<1>7. Copies(links'[n][l], t) <= Once(MayForward(n, l)') + Once(MayBack(t, n, l)')
  BY <1>2, <1>4, <1>5, <1>6
<1> QED BY <1>7 DEF CopiesOK, Once

LEMMA TwiceStep ==
  ASSUME TypeInv, TypeInv', OwnInv, OwnInv', LinksInv, TwiceInv, [Next]_vars
  PROVE  TwiceInv'
<1>1. ASSUME NEW w \in Worker, Step(w) PROVE TwiceInv'
  <2>1. \A v \in Worker : IsInjective(pending'[v])
    BY <1>1, PendingApart
  <2>2. ASSUME NEW n \in Node, NEW t \in Node, NEW l \in Layer PROVE CopiesOK(n, t, l)'
    BY <1>1, ListSteps, ForwardOnce, BackwardOnce, CutsOnce
  <2> QED BY <2>1, <2>2 DEF TwiceInv
<1>2. CASE UNCHANGED vars
  BY <1>2 DEF TwiceInv, CopiesOK, Once, MayForward, MayBack, ForwardAhead, BackAhead,
              Busy, PendingHas, vars
<1> QED BY <1>1, <1>2, PoolStep

LEMMA TwiceInit == Init => TwiceInv
<1> SUFFICES ASSUME Init PROVE TwiceInv
  OBVIOUS
<1>1. \A w \in Worker : IsInjective(pending[w])
  BY DEF Init, IsInjective
<1>2. ASSUME NEW n \in Node, NEW t \in Node, NEW l \in Layer PROVE CopiesOK(n, t, l)
  <2>1. Places(links[n][l], t) = {}
    BY DEF Init, Places
  <2>2. Copies(links[n][l], t) = 0
    BY <2>1, FS_EmptySet DEF Copies
  <2> QED BY <2>2 DEF CopiesOK, Once
<1> QED BY <1>1, <1>2 DEF TwiceInv

\* Two nodes that select each other while both are being inserted are listed
\* twice, once for each direction their edge was written in; however many
\* workers push to a list and prune it, no node is listed three times.
THEOREM NeverListedThrice == Spec => []LinkedAtMostTwice
<1> DEFINE I == TypeInv /\ OwnInv /\ EntryInv /\ LinksInv
<1>1. I /\ TwiceInv => LinkedAtMostTwice
  <2> SUFFICES ASSUME I, TwiceInv, NEW n \in Node, NEW t \in Node, NEW l \in Layer
               PROVE  Copies(links[n][l], t) <= 2
    BY DEF LinkedAtMostTwice, Copies, Places
  <2>1. links[n][l] \in Seq(Node)
    BY DEF TypeInv, TypeOK
  <2>2. Copies(links[n][l], t) \in Nat
    BY <2>1, CopiesType
  <2>3. Copies(links[n][l], t) <= Once(MayForward(n, l)) + Once(MayBack(t, n, l))
    BY DEF TwiceInv, CopiesOK
  <2>4. Once(MayForward(n, l)) \in {0, 1} /\ Once(MayBack(t, n, l)) \in {0, 1}
    BY DEF Once
  <2> QED BY <2>2, <2>3, <2>4
<1>2. I /\ I' /\ TwiceInv /\ [Next]_vars => TwiceInv'
  BY TwiceStep
<1>3. Spec => []I
  BY GraphInvariance
<1>4. Init => TwiceInv
  BY TwiceInit
<1> HIDE DEF I
<1> QED BY <1>1, <1>2, <1>3, <1>4, PTL DEF Spec

=============================================================================
