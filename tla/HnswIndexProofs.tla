-------------------------- MODULE HnswIndexProofs --------------------------
(***************************************************************************)
(* Theorems about HnswIndex, for any number of vectors and layers, any     *)
(* metric, any configuration that Config::validate accepts and any calls.  *)
(***************************************************************************)
EXTENDS HnswIndex, NeighbourSelectionProofs

-----------------------------------------------------------------------------
(* The inductive invariant                                                 *)

\* The vectors that have levels are those in the store, each there once.
StoreOK ==
  /\ IsInjective(order)
  /\ \A n \in Node : levels[n] \in Layer <=> n \in ToSet(order)

EntryOK == entry # NoEntry => entry.id \in ToSet(order) /\ entry.level = levels[entry.id]

\* A rebuilt index holds vectors of the old one that were passed already.
RebuildOK ==
  next # 0 =>
    /\ IsInjective(old.order) /\ deleted = <<>>
    /\ \A n \in ToSet(order) : \E j \in DOMAIN old.order : j < next /\ n = old.order[j]

\* What a search has met has the layer it is on.
SearchOK ==
  pc # "idle" =>
    /\ task.target \in Node
    /\ \A n \in visited : layer <= levels[n]
    /\ frontier \subseteq visited /\ found \subseteq visited
    /\ task.kind = "insert" => task.target \in ToSet(order) /\ task.level = levels[task.target]
    /\ pc = "prune" => task.kind = "insert"

Inv ==
  /\ TypeOK /\ StoreOK /\ EntryOK /\ RebuildOK /\ TombstonesCounted
  /\ SearchOK /\ LinksStayOnLayer

-----------------------------------------------------------------------------
(* Facts about the operators                                               *)

LEMMA ScreenedClosest ==
  ASSUME NEW t, NEW l, NEW S, NEW k
  PROVE  Closest(t.target, Screened(t, l, S), k) \subseteq S
BY DEF Closest, Screened

LEMMA LayerBegins ==
  ASSUME NEW t, NEW l, NEW entries, BeginLayer(t, l, entries)
  PROVE  /\ layer' = l /\ visited' = entries /\ frontier' = entries
         /\ found' \subseteq entries
BY ScreenedClosest DEF BeginLayer

LEMMA LimitType == \A l \in Layer : MaxLinks(l) \in Nat
BY ConfigAssumption DEF MaxLinks

LEMMA LayerType == 0 \in Layer /\ Layer \subseteq Nat /\ -1 \notin Layer
BY CallerAssumption DEF Layer

\* The elements of a sequence with one more at its end.
LEMMA AppendSet ==
  ASSUME NEW s \in Seq(Node), NEW n \in Node
  PROVE  /\ Append(s, n) \in Seq(Node) /\ Len(Append(s, n)) = Len(s) + 1
         /\ \A i \in DOMAIN s : Append(s, n)[i] = s[i]
         /\ ToSet(Append(s, n)) = ToSet(s) \cup {n}
         /\ IsInjective(s) /\ n \notin ToSet(s) => IsInjective(Append(s, n))
<1>1. /\ Append(s, n) \in Seq(Node) /\ Len(Append(s, n)) = Len(s) + 1
      /\ \A i \in 1..Len(s) : Append(s, n)[i] = s[i]
      /\ Append(s, n)[Len(s) + 1] = n
  BY AppendProperties
<1>2. DOMAIN s = 1..Len(s) /\ DOMAIN Append(s, n) = 1..(Len(s) + 1) /\ Len(s) \in Nat
  BY <1>1
<1>3. \A i \in 1..(Len(s) + 1) : i \in 1..Len(s) \/ i = Len(s) + 1
  BY <1>2
<1>4. ToSet(Append(s, n)) = ToSet(s) \cup {n}
  BY <1>1, <1>2, <1>3 DEF ToSet
<1>5. ASSUME IsInjective(s), n \notin ToSet(s) PROVE IsInjective(Append(s, n))
  BY <1>1, <1>2, <1>3, <1>5 DEF IsInjective, ToSet
<1> QED BY <1>1, <1>2, <1>4, <1>5

\* A search of a layer leaves the store, the graph and the tombstones alone.
LEMMA StoreUnchanged ==
  ASSUME Inv, UNCHANGED <<graphVars, tombVars, compactVars>>
  PROVE  /\ StoreOK' /\ EntryOK' /\ RebuildOK' /\ TombstonesCounted' /\ LinksStayOnLayer'
BY DEF Inv, graphVars, tombVars, compactVars, StoreOK, EntryOK, RebuildOK, TombstonesCounted,
       LinksStayOnLayer, Dead, Targets

-----------------------------------------------------------------------------
LEMMA InitInv == Init => Inv
<1> SUFFICES ASSUME Init PROVE Inv OBVIOUS
<1>1. TypeOK
  BY LayerType, CallerAssumption DEF Init, TypeOK, NoLinks, NoEntry, NoTask, NoIndex
<1>2. StoreOK
  BY LayerType DEF Init, StoreOK, IsInjective, ToSet
<1>3. Dead = {}
  BY DEF Init, Dead
<1>4. TombstonesCounted
  BY <1>3, FS_EmptySet DEF Init, TombstonesCounted
<1>5. LinksStayOnLayer
  BY DEF Init, LinksStayOnLayer, Targets, NoLinks, ToSet
<1> QED BY <1>1, <1>2, <1>4, <1>5 DEF Init, Inv, EntryOK, RebuildOK, SearchOK

LEMMA ExpandStep == ASSUME Inv, Expand PROVE Inv'
<1>1. PICK c \in frontier :
        /\ visited' = visited \union Fresh(c)
        /\ found' = Closest(task.target, found \union Screened(task, layer, Fresh(c)), Width(task, layer))
        /\ frontier' \subseteq frontier \union Fresh(c)
  BY DEF Expand
<1>2. c \in Node /\ layer \in Layer /\ layer <= levels[c]
  BY <1>1 DEF Inv, TypeOK, SearchOK, Expand
<1>3. Fresh(c) \subseteq Node /\ \A n \in Fresh(c) : layer <= levels[n]
  <2>1. links[c][layer] \in Seq(Node)
    BY <1>2 DEF Inv, TypeOK
  <2>2. Targets(c, layer) \subseteq Node
    BY <2>1 DEF Targets, ToSet
  <2> QED BY <1>2, <2>2 DEF Inv, LinksStayOnLayer, Fresh
<1>4. found' \subseteq found \union Fresh(c)
  BY <1>1 DEF Closest, Screened
<1>5. SearchOK'
  BY <1>1, <1>3, <1>4 DEF Inv, SearchOK, Expand, graphVars
<1>6. TypeOK'
  BY <1>1, <1>3, <1>4 DEF Inv, TypeOK, Expand, graphVars, tombVars, compactVars
<1> QED BY <1>5, <1>6, StoreUnchanged DEF Inv, Expand

\* One layer down with what was found.
LEMMA LayerDown ==
  ASSUME Inv, pc # "idle", layer > 0, BeginLayer(task, layer - 1, found),
         UNCHANGED <<order, levels, task>>, pc' = "search"
  PROVE  /\ SearchOK'
         /\ layer' \in Layer /\ visited' \in SUBSET Node /\ frontier' \in SUBSET Node
         /\ found' \in SUBSET Node
<1>1. /\ layer' = layer - 1 /\ visited' = found /\ frontier' = found
      /\ found' \subseteq found
  BY LayerBegins
<1>2. layer' \in Layer /\ layer' <= layer
  BY <1>1, CallerAssumption DEF Inv, TypeOK, Layer
<1>3. found \subseteq Node /\ levels \in [Node -> Layer \union {-1}] /\ layer \in Layer
  BY DEF Inv, TypeOK
<1>4. \A n \in found : layer' <= levels[n]
  BY <1>1, <1>2, <1>3, CallerAssumption DEF Inv, SearchOK, Layer
<1> QED BY <1>1, <1>2, <1>3, <1>4 DEF Inv, SearchOK

LEMMA DescendStep == ASSUME Inv, Descend PROVE Inv'
<1>1. layer > 0
  BY CallerAssumption DEF Inv, TypeOK, Descend, Layer
<1>2. /\ SearchOK' /\ layer' \in Layer /\ visited' \in SUBSET Node
      /\ frontier' \in SUBSET Node /\ found' \in SUBSET Node
  BY <1>1, LayerDown DEF Descend, graphVars
<1>3. TypeOK'
  BY <1>2 DEF Inv, TypeOK, Descend, graphVars, tombVars, compactVars
<1> QED BY <1>2, <1>3, StoreUnchanged DEF Inv, Descend


-----------------------------------------------------------------------------
(* Connecting and pruning                                                  *)

\* What insertion selects has the layer: a result, or the neighbour of one.
LEMMA SelectedOnLayer ==
  ASSUME Inv, pc = "search", NEW m \in Nat, NEW selected \in Selected(m)
  PROVE  /\ selected \in Seq(Node)
         /\ \A i \in DOMAIN selected : layer <= levels[selected[i]]
<1> DEFINE OnLayer == {n \in Node : layer <= levels[n]}
<1>1. found \subseteq OnLayer /\ layer \in Layer
  BY DEF Inv, SearchOK, TypeOK
<1>2. ASSUME NEW edges, \A d \in DOMAIN edges : edges[d] \in OnLayer, DrawnFrom(selected, edges, m)
      PROVE  /\ selected \in Seq(Node)
             /\ \A i \in DOMAIN selected : layer <= levels[selected[i]]
  BY <1>2 DEF DrawnFrom
<1>3. CASE UseHeuristic /\ ExtendCandidates
  <2>1. \A d \in DOMAIN Extended : Extended[d] \in OnLayer
    <3> DEFINE pairs == found \X {0}
                 \union {p \in UNION {Offered(c) : c \in found} : links[p[1]][layer][p[2]] \notin found}
               place(p) == p[1] + p[2] * Cardinality(Node)
               node(p) == IF p[2] = 0 THEN p[1] ELSE links[p[1]][layer][p[2]]
    <3>1. Extended = [at \in {place(p) : p \in pairs} |-> node(CHOOSE p \in pairs : place(p) = at)]
      BY DEF Extended, Edges
    <3>2. ASSUME NEW p \in pairs PROVE node(p) \in OnLayer
      <4>1. CASE p \in found \X {0}
        BY <1>1, <4>1
      <4>2. CASE p \notin found \X {0}
        <5>1. PICK c \in found : p \in Offered(c)
          BY <3>2, <4>2
        <5>2. PICK i \in DOMAIN links[c][layer] : p = <<c, i>>
          BY <5>1 DEF Offered
        <5>3. links[c][layer] \in Seq(Node) /\ c \in Node
          BY <1>1 DEF Inv, TypeOK
        <5>4. links[c][layer][i] \in Node /\ layer <= levels[links[c][layer][i]] /\ i # 0
          BY <1>1, <5>2, <5>3 DEF Inv, LinksStayOnLayer, Targets, ToSet
        <5> QED BY <5>2, <5>4
      <4> QED BY <4>1, <4>2
    <3> HIDE DEF pairs, place, node, OnLayer
    <3>3. ASSUME NEW at \in {place(p) : p \in pairs}
          PROVE  node(CHOOSE p \in pairs : place(p) = at) \in OnLayer
      <4>1. \E p \in pairs : place(p) = at
        BY <3>3
      <4>2. (CHOOSE p \in pairs : place(p) = at) \in pairs
        BY <4>1
      <4> QED BY <3>2, <4>2
    <3> QED BY <3>1, <3>3
  <2>2. selected \in ListsOf(Extended, DiversePicks(task.target, Extended, m))
    BY <1>3 DEF Selected
  <2>3. DiversePicks(task.target, Extended, m) \in SUBSET Picks(Extended, m)
    BY DEF DiversePicks
  <2>4. DrawnFrom(selected, Extended, m)
    BY <2>1, <2>2, <2>3, SelectionDrawn
  <2> QED BY <1>2, <2>1, <2>4
<1>4. CASE ~(UseHeuristic /\ ExtendCandidates)
  <2> DEFINE edges == [c \in found |-> c]
  <2>1. \A d \in DOMAIN edges : edges[d] \in OnLayer
    BY <1>1
  <2>2. selected \in Selections(task.target, edges, m, UseHeuristic)
    BY <1>4 DEF Selected
  <2> HIDE DEF edges
  <2>3. DrawnFrom(selected, edges, m)
    BY <2>1, <2>2, SelectionsDrawn
  <2> QED BY <1>2, <2>1, <2>3
<1> QED BY <1>3, <1>4

\* The lists after pass 1, and what is on them.
LEMMA EdgesAdded ==
  ASSUME links \in [Node -> [Layer -> Seq(Node)]], NEW n \in Node, NEW l \in Layer,
         NEW selected \in Seq(Node)
  PROVE  /\ WithEdges(n, l, selected) \in [Node -> [Layer -> Seq(Node)]]
         /\ \A x \in Node, k \in Layer : \A t \in ToSet(WithEdges(n, l, selected)[x][k]) :
              \/ t \in Targets(x, k)
              \/ k = l /\ x = n /\ t \in ToSet(selected)
              \/ k = l /\ t = n /\ x \in ToSet(selected)
<1> DEFINE copies(x) == [i \in 1..Cardinality({j \in DOMAIN selected : selected[j] = x}) |-> n]
           added(x) == IF x = n THEN selected ELSE copies(x)
<1>1. ASSUME NEW x \in Node
      PROVE  /\ copies(x) \in Seq(Node)
             /\ \A t \in ToSet(copies(x)) : t = n /\ x \in ToSet(selected)
  <2> DEFINE at == {j \in DOMAIN selected : selected[j] = x}
  <2>1. IsFiniteSet(1..Len(selected)) /\ at \subseteq 1..Len(selected)
    BY FS_Interval
  <2>2. Cardinality(at) \in Nat /\ IsFiniteSet(at)
    BY <2>1, FS_Subset, FS_CardinalityType
  <2>3. at # {} \/ Cardinality(at) = 0
    BY FS_EmptySet
  <2>4. at # {} => x \in ToSet(selected)
    BY DEF ToSet
  <2> HIDE DEF at
  <2>5. copies(x) = [i \in 1..Cardinality(at) |-> n]
    BY DEF at
  <2> HIDE DEF copies
  <2>6. copies(x) \in Seq(Node)
    <3> DEFINE size == Cardinality(at)
    <3>1. size \in Nat /\ copies(x) = [i \in 1..size |-> n]
      BY <2>2, <2>5
    <3> HIDE DEF size
    <3>2. [i \in 1..size |-> n] \in [1..size -> Node]
      OBVIOUS
    <3> QED BY <3>1, <3>2, SeqDef
  <2>7. ASSUME NEW t \in ToSet(copies(x)) PROVE t = n /\ Cardinality(at) # 0
    BY <2>2, <2>5 DEF ToSet
  <2> QED BY <2>3, <2>4, <2>6, <2>7
<1>2. ASSUME NEW x \in Node, NEW k \in Layer
      PROVE  WithEdges(n, l, selected)[x][k] = IF k = l THEN links[x][k] \o added(x) ELSE links[x][k]
  BY DEF WithEdges
<1>3. WithEdges(n, l, selected) \in [Node -> [Layer -> Seq(Node)]]
  <2>1. ASSUME NEW x \in Node PROVE WithEdges(n, l, selected)[x] \in [Layer -> Seq(Node)]
    <3>1. links[x][l] \o added(x) \in Seq(Node)
      <4>1. links[x][l] \in Seq(Node) /\ added(x) \in Seq(Node)
        BY <1>1
      <4> HIDE DEF added
      <4> QED BY <4>1, ConcatProperties
    <3> HIDE DEF added, copies
    <3>2. WithEdges(n, l, selected)[x] = [links[x] EXCEPT ![l] = links[x][l] \o added(x)]
      BY DEF WithEdges, added, copies
    <3> QED BY <3>1, <3>2
  <2>2. WithEdges(n, l, selected) = [x \in Node |-> WithEdges(n, l, selected)[x]]
    BY DEF WithEdges
  <2> HIDE DEF added, copies
  <2> QED BY <2>1, <2>2
<1>4. ASSUME NEW x \in Node, NEW k \in Layer, NEW t \in ToSet(WithEdges(n, l, selected)[x][k]),
             t \notin Targets(x, k)
      PROVE  k = l /\ ((x = n /\ t \in ToSet(selected)) \/ (t = n /\ x \in ToSet(selected)))
  <2>1. k = l /\ t \in ToSet(links[x][k] \o added(x))
    BY <1>2, <1>4 DEF Targets
  <2>2. links[x][k] \in Seq(Node) /\ added(x) \in Seq(Node)
    BY <1>1
  <2> HIDE DEF added
  <2>3. t \in ToSet(added(x))
    <3> DEFINE u == links[x][k]
               v == added(x)
    <3>1. u \in Seq(Node) /\ v \in Seq(Node) /\ t \in ToSet(u \o v) /\ t \notin ToSet(u)
      BY <1>4, <2>1, <2>2 DEF Targets
    <3> HIDE DEF u, v
    <3>2. PICK i \in DOMAIN (u \o v) : t = (u \o v)[i]
      BY <3>1 DEF ToSet
    <3>3. i \in 1..(Len(u) + Len(v)) /\ Len(u) \in Nat /\ Len(v) \in Nat
      BY <3>1, <3>2, ConcatProperties
    <3>4. ~(i <= Len(u))
      <4>1. i <= Len(u) => i \in DOMAIN u /\ t = u[i]
        BY <3>1, <3>2, <3>3, ConcatProperties
      <4> QED BY <3>1, <4>1 DEF ToSet
    <3>5. i - Len(u) \in DOMAIN v /\ t = v[i - Len(u)]
      BY <3>1, <3>2, <3>3, <3>4, ConcatProperties
    <3> QED BY <3>5 DEF ToSet, v
  <2> HIDE DEF copies
  <2>4. CASE x = n
    <3>1. added(x) = selected
      BY <2>4 DEF added
    <3>2. t \in ToSet(selected)
      BY <2>3, <3>1
    <3>3. k = l
      BY <2>1
    <3> QED BY <2>4, <3>2, <3>3
  <2>5. CASE x # n
    <3>1. t \in ToSet(copies(x))
      BY <2>3, <2>5 DEF added
    <3> QED BY <1>1, <2>1, <3>1
  <2> QED BY <2>4, <2>5
<1> QED BY <1>3, <1>4

LEMMA ConnectStep == ASSUME Inv, Connect PROVE Inv'
<1>1. layer \in Layer /\ task.target \in Node /\ layer <= task.level
      /\ task.level = levels[task.target] /\ pc = "search"
  BY DEF Inv, TypeOK, SearchOK, Connect, Connects
<1>2. PICK selected \in Selected(MaxLinks(layer)) :
        links' = WithEdges(task.target, layer, selected) /\ pending' = selected
  BY DEF Connect
<1>3. selected \in Seq(Node) /\ \A i \in DOMAIN selected : layer <= levels[selected[i]]
  BY <1>1, <1>2, SelectedOnLayer, LimitType
<1>4. /\ links' \in [Node -> [Layer -> Seq(Node)]]
      /\ \A x \in Node, k \in Layer : \A t \in Targets(x, k)' :
           \/ t \in Targets(x, k)
           \/ k = layer /\ x = task.target /\ t \in ToSet(selected)
           \/ k = layer /\ t = task.target /\ x \in ToSet(selected)
  <2> DEFINE n == task.target
             added == WithEdges(n, layer, selected)
  <2>1. links \in [Node -> [Layer -> Seq(Node)]]
    BY DEF Inv, TypeOK
  <2>2. n \in Node /\ links' = added
    BY <1>1, <1>2
  <2> HIDE DEF n
  <2>3. /\ added \in [Node -> [Layer -> Seq(Node)]]
        /\ \A x \in Node, k \in Layer : \A t \in ToSet(added[x][k]) :
             \/ t \in Targets(x, k)
             \/ k = layer /\ x = n /\ t \in ToSet(selected)
             \/ k = layer /\ t = n /\ x \in ToSet(selected)
    BY <1>1, <1>3, <2>1, <2>2, EdgesAdded
  <2> HIDE DEF added
  <2>4. \A x \in Node, k \in Layer : Targets(x, k)' = ToSet(added[x][k])
    BY <2>2 DEF Targets
  <2> QED BY <2>2, <2>3, <2>4 DEF n
<1>5. \A t \in ToSet(selected) : layer <= levels[t]
  BY <1>3 DEF ToSet
<1>6. LinksStayOnLayer'
  <2> SUFFICES ASSUME NEW x \in Node, NEW k \in Layer, NEW t \in Targets(x, k)'
               PROVE  k <= levels[x] /\ k <= levels[t]
    BY DEF LinksStayOnLayer, Connect
  <2>1. CASE t \in Targets(x, k)
    BY <2>1 DEF Inv, LinksStayOnLayer
  <2>2. CASE t \notin Targets(x, k)
    BY <1>1, <1>4, <1>5, <2>2
  <2> QED BY <2>1, <2>2
<1>7. TypeOK'
  BY <1>2, <1>3, <1>4 DEF Inv, TypeOK, Connect, tombVars, searchVars, compactVars
<1>8. SearchOK'
  BY DEF Inv, SearchOK, Connect, Connects, searchVars
<1>9. StoreOK' /\ EntryOK' /\ RebuildOK' /\ TombstonesCounted'
  BY DEF Inv, StoreOK, EntryOK, RebuildOK, TombstonesCounted, Dead, Connect, tombVars, compactVars
<1> QED BY <1>6, <1>7, <1>8, <1>9 DEF Inv

LEMMA PruneStep == ASSUME Inv, Prune PROVE Inv'
<1> DEFINE nb == Head(pending)
<1>1. pending \in Seq(Node) /\ pending # <<>> /\ layer \in Layer
  BY DEF Inv, TypeOK, Prune
<1>2. nb \in Node /\ Tail(pending) \in Seq(Node)
  BY <1>1, HeadTailProperties
<1> HIDE DEF nb
<1>3. PICK list \in Pruned(nb, links[nb][layer], MaxLinks(layer), PruneHeuristic) :
        links' = [links EXCEPT ![nb][layer] = list]
  BY DEF Prune, nb
<1>4. links \in [Node -> [Layer -> Seq(Node)]] /\ links[nb][layer] \in Seq(Node)
  BY <1>1, <1>2 DEF Inv, TypeOK
<1>5. list \in Seq(Node) /\ \A i \in DOMAIN list : \E d \in DOMAIN links[nb][layer] : list[i] = links[nb][layer][d]
  <2> DEFINE full == links[nb][layer]
             m == MaxLinks(layer)
  <2>1. full \in Seq(Node) /\ m \in Nat /\ list \in Pruned(nb, full, m, PruneHeuristic)
    BY <1>1, <1>3, <1>4, LimitType
  <2> HIDE DEF full, m
  <2>2. DrawnFrom(list, full, m)
    BY <2>1, PrunedDrawn
  <2> QED BY <2>2 DEF DrawnFrom, full
<1>6. links' \in [Node -> [Layer -> Seq(Node)]]
  BY <1>1, <1>2, <1>3, <1>4, <1>5
<1>7. \A x \in Node, k \in Layer : Targets(x, k)' \subseteq Targets(x, k)
  BY <1>1, <1>2, <1>3, <1>4, <1>5 DEF Targets, ToSet
<1>8. LinksStayOnLayer'
  BY <1>7 DEF Inv, LinksStayOnLayer, Prune
<1>9. TypeOK'
  BY <1>2, <1>6 DEF Inv, TypeOK, Prune, tombVars, searchVars, compactVars, nb
<1>10. SearchOK'
  BY DEF Inv, SearchOK, Prune, searchVars
<1>11. StoreOK' /\ EntryOK' /\ RebuildOK' /\ TombstonesCounted'
  BY DEF Inv, StoreOK, EntryOK, RebuildOK, TombstonesCounted, Dead, Prune, tombVars, compactVars
<1> QED BY <1>8, <1>9, <1>10, <1>11 DEF Inv

LEMMA FinishTypes ==
  ASSUME Finish
  PROVE  /\ SearchOK'
         /\ pc' = "idle" /\ layer' \in Layer /\ pending' \in Seq(Node)
         /\ visited' \in SUBSET Node /\ frontier' \in SUBSET Node /\ found' \in SUBSET Node
         /\ task' = NoTask
BY LayerType DEF Finish, SearchOK

LEMMA NoTaskType ==
  /\ NoTask.kind \in {"none", "insert", "plain", "filtered"}
  /\ NoTask.target \in Node \union {0} /\ NoTask.level \in Layer /\ NoTask.beam \in Nat
  /\ NoTask.k \in 0..MaxK /\ NoTask.accepts \in SUBSET Node
BY LayerType, CallerAssumption DEF NoTask

LEMMA NextLayerStep == ASSUME Inv, NextLayer PROVE Inv'
<1>1. CASE layer > 0
  <2>1. /\ SearchOK' /\ layer' \in Layer /\ visited' \in SUBSET Node
        /\ frontier' \in SUBSET Node /\ found' \in SUBSET Node
    BY <1>1, LayerDown DEF NextLayer
  <2>2. TypeOK'
    BY <1>1, <2>1 DEF Inv, TypeOK, NextLayer, tombVars, compactVars
  <2> QED BY <1>1, <2>1, <2>2, StoreUnchanged DEF Inv, NextLayer, graphVars
<1>2. CASE ~(layer > 0)
  <2>1. Finish /\ entry' = IF Promotes(task) THEN [id |-> task.target, level |-> task.level] ELSE entry
    BY <1>2 DEF NextLayer
  <2>2. task.target \in Node /\ task.level \in Layer
    BY DEF Inv, TypeOK, SearchOK, NextLayer
  <2>3. entry' \in [id : Node, level : Layer] \union {NoEntry}
    BY <2>1, <2>2 DEF Inv, TypeOK
  <2>4. TypeOK'
    BY <1>2, <2>1, <2>3, FinishTypes, NoTaskType DEF Inv, TypeOK, NextLayer, tombVars, compactVars
  <2>5. EntryOK'
    <3>1. task.target \in ToSet(order) /\ task.level = levels[task.target]
      BY DEF Inv, SearchOK, NextLayer
    <3> QED BY <2>1, <3>1 DEF Inv, EntryOK, NextLayer
  <2>6. StoreOK' /\ RebuildOK' /\ TombstonesCounted' /\ LinksStayOnLayer'
    BY DEF Inv, StoreOK, RebuildOK, TombstonesCounted, Dead, LinksStayOnLayer, Targets, NextLayer, tombVars, compactVars
  <2> QED BY <2>1, <2>4, <2>5, <2>6, FinishTypes DEF Inv
<1> QED BY <1>1, <1>2

-----------------------------------------------------------------------------
(* The caller's operations                                                 *)

\* A vector that was not in the store enters it.
LEMMA BeginInsertStep ==
  ASSUME Inv, pc = "idle", NEW n \in Node \ ToSet(order), NEW level \in Layer,
         BeginInsert(n, level), old'.order \in Seq(Node), old'.deleted \in Seq(BOOLEAN),
         next' \in Nat, answer' \in Seq(Node), RebuildOK'
  PROVE  Inv'
<1>1. order \in Seq(Node) /\ levels \in [Node -> Layer \union {-1}] /\ levels[n] = -1
  BY DEF Inv, TypeOK, StoreOK
<1>2. order' = Append(order, n) /\ levels' = [levels EXCEPT ![n] = level]
  BY DEF BeginInsert
<1>3. /\ order' \in Seq(Node) /\ Len(order') = Len(order) + 1
      /\ \A i \in DOMAIN order : order'[i] = order[i]
      /\ ToSet(order') = ToSet(order) \cup {n} /\ IsInjective(order')
  BY <1>1, <1>2, AppendSet DEF Inv, StoreOK
<1>4. levels' \in [Node -> Layer \union {-1}] /\ levels'[n] = level
      /\ \A x \in Node \ {n} : levels'[x] = levels[x]
  BY <1>1, <1>2
<1>5. StoreOK'
  BY <1>3, <1>4 DEF Inv, StoreOK
<1>6. TombstonesCounted'
  <2>1. Len(deleted) \in Nat /\ DOMAIN deleted = 1..Len(deleted)
        /\ Len(order) \in Nat /\ DOMAIN order = 1..Len(order) /\ Len(deleted) <= Len(order)
    <3>1. deleted \in Seq(BOOLEAN) /\ Len(deleted) <= Len(order)
      BY DEF Inv, TypeOK, TombstonesCounted
    <3> QED BY <1>1, <3>1, LenProperties
  <2>2. UNCHANGED <<deleted, deletedCount>>
    BY DEF BeginInsert, tombVars
  <2>3. \A i \in DOMAIN deleted : order'[i] = order[i]
    BY <1>3, <2>1
  <2>4. Dead' = Dead
    BY <2>2, <2>3 DEF Dead
  <2> QED BY <1>3, <2>1, <2>2, <2>4 DEF Inv, TombstonesCounted
<1>7. LinksStayOnLayer'
  <2> SUFFICES ASSUME NEW x \in Node, NEW l \in Layer, NEW t \in Targets(x, l)
               PROVE  l <= levels'[x] /\ l <= levels'[t]
    BY DEF LinksStayOnLayer, Targets, BeginInsert
  <2>1. l <= levels[x] /\ l <= levels[t] /\ t \in Node
    <3>1. links[x][l] \in Seq(Node)
      BY DEF Inv, TypeOK
    <3> QED BY <3>1 DEF Inv, LinksStayOnLayer, Targets, ToSet
  <2>2. ~(l <= -1)
    BY CallerAssumption DEF Layer
  <2> QED BY <1>1, <1>4, <2>1, <2>2
<1>8. CASE entry = NoEntry
  <2>1. entry' = [id |-> n, level |-> level] /\ UNCHANGED <<task, pc, layer, searchVars, links, tombVars, pending>>
    BY <1>8 DEF BeginInsert
  <2>2. TypeOK'
    BY <1>3, <1>4, <2>1 DEF Inv, TypeOK, searchVars, tombVars
  <2>3. EntryOK' /\ SearchOK'
    BY <1>3, <1>4, <2>1 DEF EntryOK, SearchOK
  <2> QED BY <1>5, <1>6, <1>7, <2>2, <2>3 DEF Inv
<1>9. CASE entry # NoEntry
  <2> DEFINE t == [NoTask EXCEPT !.kind = "insert", !.target = n,
                                 !.level = level, !.beam = EfConstruction]
  <2>1. task' = t /\ pc' = "search" /\ BeginLayer(t, entry.level, {entry.id})
        /\ UNCHANGED <<entry, links, tombVars, pending>>
    BY <1>9 DEF BeginInsert
  <2>2. t.kind = "insert" /\ t.target = n /\ t.level = level /\ t.beam = EfConstruction
        /\ t.k = 0 /\ t.accepts = {}
    BY DEF NoTask
  <2> HIDE DEF t
  <2>3. entry \in [id : Node, level : Layer]
    BY <1>9 DEF Inv, TypeOK
  <2>4. entry.id \in ToSet(order) /\ entry.level = levels[entry.id] /\ entry.id \in Node /\ entry.level \in Layer
    BY <1>9, <2>3 DEF Inv, EntryOK
  <2>5. layer' = entry.level /\ visited' = {entry.id} /\ frontier' = {entry.id} /\ found' \subseteq {entry.id}
    BY <2>1, LayerBegins
  <2>6. levels'[entry.id] = entry.level /\ entry.id \in ToSet(order')
    BY <1>3, <1>4, <2>4
  <2>7. SearchOK'
    <3>1. entry.level <= entry.level
      BY <2>4, CallerAssumption DEF Layer
    <3> QED BY <1>3, <1>4, <2>1, <2>2, <2>5, <2>6, <3>1 DEF SearchOK
  <2>8. EntryOK'
    BY <2>1, <2>6 DEF EntryOK
  <2>9. TypeOK'
    <3>1. EfConstruction \in Nat /\ 0 \in 0..MaxK
      BY ConfigAssumption, CallerAssumption
    <3> QED BY <1>3, <1>4, <2>1, <2>2, <2>4, <2>5, <3>1 DEF Inv, TypeOK, tombVars
  <2> QED BY <1>5, <1>6, <1>7, <2>7, <2>8, <2>9 DEF Inv
<1> QED BY <1>8, <1>9

LEMMA InsertStep == ASSUME Inv, Insert PROVE Inv'
<1>1. PICK n \in Node \ ToSet(order), level \in Layer : BeginInsert(n, level)
  BY DEF Insert
<1>2. /\ old'.order \in Seq(Node) /\ old'.deleted \in Seq(BOOLEAN)
      /\ next' = 0 /\ answer' \in Seq(Node) /\ pc = "idle"
  BY DEF Inv, TypeOK, Insert, compactVars
<1>3. RebuildOK'
  BY <1>2 DEF RebuildOK
<1> QED BY <1>1, <1>2, <1>3, BeginInsertStep

LEMMA ReinsertStep == ASSUME Inv, Reinsert PROVE Inv'
<1> DEFINE n == old.order[next]
<1>1. PICK level \in Layer : BeginInsert(n, level)
  BY DEF Reinsert
<1>2. /\ next \in DOMAIN old.order /\ old.order \in Seq(Node) /\ next # 0 /\ n \in Node /\ next \in Nat
      /\ next' = next + 1 /\ UNCHANGED <<old, answer>> /\ pc = "idle"
  BY DEF Inv, TypeOK, Reinsert
<1>3. /\ IsInjective(old.order) /\ deleted = <<>>
      /\ \A x \in ToSet(order) : \E j \in DOMAIN old.order : j < next /\ x = old.order[j]
  BY <1>2 DEF Inv, RebuildOK
<1>4. n \notin ToSet(order)
  BY <1>2, <1>3 DEF IsInjective
<1>5. RebuildOK'
  <2>1. ToSet(order') = ToSet(order) \cup {n}
    BY <1>1, <1>2, AppendSet DEF Inv, TypeOK, BeginInsert
  <2>2. deleted' = <<>>
    BY <1>1, <1>3 DEF BeginInsert, tombVars
  <2>3. \A x \in ToSet(order') : \E j \in DOMAIN old.order : j < next + 1 /\ x = old.order[j]
    BY <1>2, <1>3, <2>1
  <2> QED BY <1>2, <1>3, <2>2, <2>3 DEF RebuildOK
<1> HIDE DEF n
<1>6. /\ old'.order \in Seq(Node) /\ old'.deleted \in Seq(BOOLEAN)
      /\ next' \in Nat /\ answer' \in Seq(Node)
  BY <1>2 DEF Inv, TypeOK
<1> QED BY <1>1, <1>2, <1>4, <1>5, <1>6, BeginInsertStep

\* A search of either kind.
LEMMA BeginQueryStep ==
  ASSUME Inv, pc = "idle", NEW kind \in {"plain", "filtered"}, NEW q \in Node, NEW k \in 1..MaxK,
         NEW accepts \in SUBSET Node, BeginQuery(kind, q, k, accepts),
         UNCHANGED <<graphVars, tombVars, pending, compactVars>>
  PROVE  Inv'
<1>1. CASE entry = NoEntry
  <2>1. answer' = <<>> /\ UNCHANGED <<task, pc, layer, searchVars>>
    BY <1>1 DEF BeginQuery
  <2>2. TypeOK'
    BY <2>1 DEF Inv, TypeOK, graphVars, tombVars, searchVars, compactVars
  <2>3. SearchOK'
    BY <2>1 DEF SearchOK
  <2> QED BY <2>2, <2>3, StoreUnchanged DEF Inv
<1>2. CASE entry # NoEntry
  <2> DEFINE t == [kind |-> kind, target |-> q, level |-> 0,
                   beam |-> Greatest(EfSearch, k), k |-> k, accepts |-> accepts]
  <2>1. task' = t /\ pc' = "search" /\ answer' = <<>> /\ BeginLayer(t, entry.level, {entry.id})
    BY <1>2 DEF BeginQuery
  <2>2. /\ t.kind = kind /\ t.target = q /\ t.level = 0 /\ t.beam \in Nat /\ t.k \in 0..MaxK
        /\ t.accepts = accepts
    BY CallerAssumption DEF Greatest
  <2> HIDE DEF t
  <2>3. entry \in [id : Node, level : Layer] /\ entry.level = levels[entry.id]
    BY <1>2 DEF Inv, TypeOK, EntryOK
  <2>4. layer' = entry.level /\ visited' = {entry.id} /\ frontier' = {entry.id} /\ found' \subseteq {entry.id}
    BY <2>1, LayerBegins
  <2>5. SearchOK'
    <3>1. entry.level <= entry.level
      BY <2>3, CallerAssumption DEF Layer
    <3> QED BY <2>1, <2>2, <2>3, <2>4, <3>1 DEF SearchOK, graphVars
  <2>6. TypeOK'
    <3>1. /\ task'.kind \in {"none", "insert", "plain", "filtered"}
          /\ task'.target \in Node \union {0} /\ task'.level \in Layer /\ task'.beam \in Nat
          /\ task'.k \in 0..MaxK /\ task'.accepts \in SUBSET Node
      BY <2>1, <2>2, LayerType
    <3>2. /\ pc' \in {"idle", "search", "prune"} /\ layer' \in Layer
          /\ visited' \in SUBSET Node /\ frontier' \in SUBSET Node /\ found' \in SUBSET Node
          /\ answer' \in Seq(Node)
      BY <2>1, <2>3, <2>4
    <3>3. TypeOK
      BY DEF Inv
    <3> QED BY <3>1, <3>2, <3>3 DEF TypeOK, graphVars, tombVars, compactVars
  <2> QED BY <2>5, <2>6, StoreUnchanged DEF Inv
<1> QED BY <1>1, <1>2

LEMMA SearchSteps == ASSUME Inv, Search \/ SearchFiltered PROVE Inv'
<1>1. CASE Search
  BY <1>1, BeginQueryStep DEF Search, Route
<1>2. CASE SearchFiltered
  BY <1>2, BeginQueryStep, CallerAssumption DEF SearchFiltered
<1> QED BY <1>1, <1>2

LEMMA AnswerStep == ASSUME Inv, Answer PROVE Inv'
<1> DEFINE edges == [x \in found |-> x]
<1>1. \A d \in DOMAIN edges : edges[d] \in Node
  BY DEF Inv, TypeOK
<1>2. answer' \in Selections(task.target, edges, task.k, FALSE) /\ task.k \in Nat
  <2>1. answer' \in Selections(task.target, edges, task.k, FALSE)
    BY DEF Answer
  <2>2. task.k \in Nat
    <3>1. task.k \in 0..MaxK /\ MaxK \in Nat
      BY CallerAssumption DEF Inv, TypeOK
    <3> QED BY <3>1
  <2> QED BY <2>1, <2>2
<1> HIDE DEF edges
<1>3. answer' \in Seq(Node)
  BY <1>1, <1>2, SelectionsDrawn DEF DrawnFrom
<1>4. TypeOK'
  BY <1>3, FinishTypes, NoTaskType DEF Inv, TypeOK, Answer, graphVars, tombVars, compactVars
<1> QED BY <1>4, FinishTypes, StoreUnchanged DEF Inv, Answer

-----------------------------------------------------------------------------
(* Tombstones                                                              *)

\* What a removal and a restoration leave to show.
LEMMA TombStep ==
  ASSUME Inv, pc = "idle", next = 0, UNCHANGED <<graphVars, task, pc, layer, searchVars, pending, compactVars>>,
         answer' = <<>>, deleted' \in Seq(BOOLEAN), deletedCount' \in Nat, TombstonesCounted'
  PROVE  Inv'
<1>1. TypeOK'
  BY DEF Inv, TypeOK, graphVars, searchVars, compactVars
<1>2. StoreOK' /\ EntryOK' /\ LinksStayOnLayer'
  BY DEF Inv, StoreOK, EntryOK, LinksStayOnLayer, Targets, graphVars
<1>3. RebuildOK' /\ SearchOK'
  BY DEF RebuildOK, SearchOK, compactVars
<1> QED BY <1>1, <1>2, <1>3 DEF Inv

\* The dead are finitely many.
LEMMA DeadFinite == ASSUME TypeOK PROVE IsFiniteSet(Dead)
<1> DEFINE D == {j \in DOMAIN deleted : deleted[j]}
<1>1. D \subseteq 1..Len(deleted) /\ Len(deleted) \in Nat
  BY DEF TypeOK
<1>2. IsFiniteSet(D)
  BY <1>1, FS_Interval, FS_Subset
<1> DEFINE f == [j \in D |-> order[j]]
<1>3. f \in Surjection(D, Dead)
  BY DEF Dead, Surjection
<1> QED BY <1>2, <1>3, FS_Surjection

\* `deleted`, grown to the length of the store, marks what it did before.
LEMMA ResizedFacts ==
  ASSUME Inv
  PROVE  LET n == Len(order)
         IN  /\ Resized \in [1..n -> BOOLEAN] /\ Resized \in Seq(BOOLEAN)
             /\ \A j \in 1..n : Resized[j] <=> (j \in DOMAIN deleted /\ deleted[j])
<1> DEFINE n == Len(order)
<1>1. order \in Seq(Node) /\ n \in Nat /\ DOMAIN order = 1..n /\ deleted \in Seq(BOOLEAN)
  BY DEF Inv, TypeOK
<1>2. Resized = [j \in 1..n |-> j \in DOMAIN deleted /\ deleted[j]]
  BY <1>1 DEF Resized
<1>3. Resized \in [1..n -> BOOLEAN]
  BY <1>2, Zenon
<1>4. Resized \in Seq(BOOLEAN)
  BY <1>1, <1>3
<1> QED BY <1>2, <1>3, <1>4, Zenon

LEMMA RemoveVectorStep == ASSUME Inv, RemoveVector PROVE Inv'
<1> DEFINE n == Len(order)
<1>1. order \in Seq(Node) /\ n \in Nat /\ DOMAIN order = 1..n /\ IsInjective(order)
      /\ deleted \in Seq(BOOLEAN) /\ Len(deleted) <= n
  BY DEF Inv, TypeOK, StoreOK, TombstonesCounted
<1>2. PICK i \in 1..n : deleted' = [Resized EXCEPT ![i] = TRUE] /\ deletedCount' = CountRemoved(i)
  BY <1>1 DEF RemoveVector
<1>3. order' = order
  BY DEF RemoveVector, graphVars
<1>4. /\ Resized \in [1..n -> BOOLEAN] /\ Resized \in Seq(BOOLEAN)
      /\ \A j \in 1..n : Resized[j] <=> (j \in DOMAIN deleted /\ deleted[j])
  BY ResizedFacts
<1>5. deleted' \in Seq(BOOLEAN) /\ Len(deleted') = n /\ DOMAIN deleted' = 1..n
      /\ \A j \in 1..n : deleted'[j] <=> j = i \/ Resized[j]
  BY <1>1, <1>2, <1>4
<1>6. Dead = {order[j] : j \in {h \in 1..n : Resized[h]}}
  BY <1>1, <1>4 DEF Dead
<1>7. Dead' = {order[j] : j \in {h \in 1..n : h = i \/ Resized[h]}}
  BY <1>3, <1>5 DEF Dead
<1>8. Dead' = Dead \cup {order[i]}
  BY <1>6, <1>7
<1>9. order[i] \in Dead <=> Resized[i]
  BY <1>1, <1>6 DEF IsInjective
<1>10. IsFiniteSet(Dead) /\ deletedCount = Cardinality(Dead) /\ deletedCount \in Nat
  BY DeadFinite DEF Inv, TypeOK, TombstonesCounted
<1>11. deletedCount' = Cardinality(Dead') /\ deletedCount' \in Nat
  <2>1. Cardinality(Dead') = IF order[i] \in Dead THEN Cardinality(Dead) ELSE Cardinality(Dead) + 1
    BY <1>8, <1>10, FS_AddElement
  <2> QED BY <1>2, <1>9, <1>10, <2>1 DEF CountRemoved
<1> HIDE DEF n
<1>12. TombstonesCounted'
  BY <1>1, <1>3, <1>5, <1>11 DEF TombstonesCounted, n
<1> QED BY <1>5, <1>11, <1>12, TombStep DEF RemoveVector

LEMMA RestoreVectorStep == ASSUME Inv, RestoreVector PROVE Inv'
<1> DEFINE n == Len(deleted)
<1>1. order \in Seq(Node) /\ Len(order) \in Nat /\ DOMAIN order = 1..Len(order) /\ IsInjective(order)
      /\ deleted \in Seq(BOOLEAN) /\ n \in Nat /\ DOMAIN deleted = 1..n /\ n <= Len(order)
  BY DEF Inv, TypeOK, StoreOK, TombstonesCounted
<1>2. PICK i \in 1..n : deleted[i] /\ deleted' = [deleted EXCEPT ![i] = FALSE]
  BY <1>1 DEF RestoreVector
<1>3. order' = order /\ deletedCount' = deletedCount - 1
  BY DEF RestoreVector, graphVars
<1>4. deleted' \in Seq(BOOLEAN) /\ Len(deleted') = n /\ DOMAIN deleted' = 1..n
      /\ \A j \in 1..n : deleted'[j] <=> j # i /\ deleted[j]
  BY <1>1, <1>2
<1>5. Dead = {order[j] : j \in {h \in 1..n : deleted[h]}}
  BY <1>1 DEF Dead
<1>6. Dead' = {order[j] : j \in {h \in 1..n : h # i /\ deleted[h]}}
  BY <1>3, <1>4 DEF Dead
<1>7. Dead' = Dead \ {order[i]} /\ order[i] \in Dead
  <2>1. \A j \in 1..n : order[j] = order[i] => j = i
    BY <1>1 DEF IsInjective
  <2> QED BY <1>2, <1>5, <1>6, <2>1
<1>8. IsFiniteSet(Dead) /\ deletedCount = Cardinality(Dead) /\ deletedCount \in Nat
  BY DeadFinite DEF Inv, TypeOK, TombstonesCounted
<1>9. deletedCount' = Cardinality(Dead') /\ deletedCount' \in Nat
  <2>1. Cardinality(Dead') = Cardinality(Dead) - 1 /\ IsFiniteSet(Dead')
    BY <1>7, <1>8, FS_RemoveElement
  <2>2. Cardinality(Dead') \in Nat
    BY <2>1, FS_CardinalityType
  <2> QED BY <1>3, <1>8, <2>1, <2>2
<1> HIDE DEF n
<1>10. TombstonesCounted'
  BY <1>1, <1>3, <1>4, <1>9 DEF TombstonesCounted
<1> QED BY <1>4, <1>9, <1>10, TombStep DEF RestoreVector

-----------------------------------------------------------------------------
(* Compaction                                                              *)

LEMMA BeginCompactStep == ASSUME Inv, BeginCompact PROVE Inv'
<1>1. /\ order' = <<>> /\ levels' = [n \in Node |-> -1] /\ links' = NoLinks /\ entry' = NoEntry
      /\ deleted' = <<>> /\ deletedCount' = 0 /\ next' = 1 /\ answer' = <<>>
      /\ old' = [order |-> order, deleted |-> deleted]
      /\ pc = "idle" /\ UNCHANGED <<task, pc, layer, searchVars, pending>>
  BY DEF BeginCompact
<1>2. ToSet(order') = {} /\ Dead' = {}
  BY <1>1 DEF ToSet, Dead
<1>3. TypeOK'
  BY <1>1 DEF Inv, TypeOK, NoLinks, searchVars
<1>4. StoreOK'
  BY <1>1, <1>2, CallerAssumption DEF StoreOK, IsInjective, Layer
<1>5. EntryOK' /\ SearchOK'
  BY <1>1 DEF EntryOK, SearchOK
<1>6. RebuildOK'
  BY <1>1, <1>2 DEF RebuildOK, Inv, StoreOK
<1>7. TombstonesCounted'
  BY <1>1, <1>2, FS_EmptySet DEF TombstonesCounted
<1>8. LinksStayOnLayer'
  BY <1>1 DEF LinksStayOnLayer, Targets, NoLinks, ToSet
<1> QED BY <1>3, <1>4, <1>5, <1>6, <1>7, <1>8 DEF Inv

LEMMA SkipStep == ASSUME Inv, Skip PROVE Inv'
<1>1. next \in Nat /\ next \in DOMAIN old.order /\ next' = next + 1 /\ pc = "idle"
      /\ UNCHANGED <<graphVars, tombVars, task, pc, layer, searchVars, pending, old, answer>>
  BY DEF Inv, TypeOK, Skip
<1>2. TypeOK'
  <2>1. TypeOK
    BY DEF Inv
  <2>2. next' \in Nat
    BY <1>1
  <2>3. /\ UNCHANGED <<order, levels, links, entry, deleted, deletedCount, task, pc, layer>>
        /\ UNCHANGED <<visited, frontier, found, pending, old, answer>>
    BY <1>1 DEF graphVars, tombVars, searchVars
  <2> QED BY <2>1, <2>2, <2>3 DEF TypeOK
<1>3. SearchOK'
  BY <1>1 DEF SearchOK
<1>4. StoreOK' /\ EntryOK' /\ TombstonesCounted' /\ LinksStayOnLayer'
  BY <1>1 DEF Inv, StoreOK, EntryOK, TombstonesCounted, LinksStayOnLayer, Dead, Targets, graphVars, tombVars
<1>5. RebuildOK'
  <2>1. next # 0
    <3>1. old.order \in Seq(Node)
      BY DEF Inv, TypeOK
    <3> QED BY <1>1, <3>1
  <2>2. \A n \in ToSet(order) : \E j \in DOMAIN old.order : j < next + 1 /\ n = old.order[j]
    <3>1. old.order \in Seq(Node)
      BY DEF Inv, TypeOK
    <3> QED BY <1>1, <2>1, <3>1 DEF Inv, RebuildOK
  <2> QED BY <1>1, <2>1, <2>2 DEF Inv, RebuildOK, graphVars, tombVars
<1> QED BY <1>2, <1>3, <1>4, <1>5 DEF Inv

LEMMA EndCompactStep == ASSUME Inv, EndCompact PROVE Inv'
<1>1. next' = 0 /\ old' = NoIndex /\ pc = "idle"
      /\ UNCHANGED <<graphVars, tombVars, task, pc, layer, searchVars, pending, answer>>
  BY DEF EndCompact
<1>2. TypeOK'
  BY <1>1 DEF Inv, TypeOK, NoIndex, graphVars, tombVars, searchVars
<1>3. SearchOK' /\ RebuildOK'
  BY <1>1 DEF SearchOK, RebuildOK
<1>4. StoreOK' /\ EntryOK' /\ TombstonesCounted' /\ LinksStayOnLayer'
  BY <1>1 DEF Inv, StoreOK, EntryOK, TombstonesCounted, LinksStayOnLayer, Dead, Targets, graphVars, tombVars
<1> QED BY <1>2, <1>3, <1>4 DEF Inv

-----------------------------------------------------------------------------
(* The theorems                                                            *)

LEMMA StutterStep == ASSUME Inv, UNCHANGED vars PROVE Inv'
<1>1. TypeOK'
  BY DEF Inv, TypeOK, vars, graphVars, tombVars, searchVars, compactVars
<1>2. StoreOK' /\ EntryOK' /\ TombstonesCounted' /\ LinksStayOnLayer'
  BY DEF Inv, StoreOK, EntryOK, TombstonesCounted, LinksStayOnLayer, Dead, Targets,
         vars, graphVars, tombVars
<1>3. RebuildOK' /\ SearchOK'
  BY DEF Inv, RebuildOK, SearchOK, vars, graphVars, tombVars, searchVars, compactVars
<1> QED BY <1>1, <1>2, <1>3 DEF Inv

THEOREM Invariance == Spec => []Inv
<1>1. Inv /\ [Next]_vars => Inv'
  <2> SUFFICES ASSUME Inv, [Next]_vars PROVE Inv'
    OBVIOUS
  <2>1. CASE Expand BY <2>1, ExpandStep
  <2>2. CASE Descend BY <2>2, DescendStep
  <2>3. CASE Connect BY <2>3, ConnectStep
  <2>4. CASE Prune BY <2>4, PruneStep
  <2>5. CASE NextLayer BY <2>5, NextLayerStep
  <2>6. CASE Answer BY <2>6, AnswerStep
  <2>7. CASE Skip BY <2>7, SkipStep
  <2>8. CASE Reinsert BY <2>8, ReinsertStep
  <2>9. CASE EndCompact BY <2>9, EndCompactStep
  <2>10. CASE Insert BY <2>10, InsertStep
  <2>11. CASE Search \/ SearchFiltered BY <2>11, SearchSteps
  <2>12. CASE RemoveVector BY <2>12, RemoveVectorStep
  <2>13. CASE RestoreVector BY <2>13, RestoreVectorStep
  <2>14. CASE BeginCompact BY <2>14, BeginCompactStep
  <2>15. CASE UNCHANGED vars BY <2>15, StutterStep
  <2> QED BY <2>1, <2>2, <2>3, <2>4, <2>5, <2>6, <2>7, <2>8, <2>9, <2>10, <2>11, <2>12,
             <2>13, <2>14, <2>15 DEF Next, Run, Call
<1>2. Init => Inv
  BY InitInv
<1> QED BY <1>1, <1>2, PTL DEF Spec

\* Every variable keeps its type, whatever is called.
THEOREM TypeCorrect == Spec => []TypeOK
<1>1. Inv => TypeOK
  BY DEF Inv
<1> QED BY <1>1, Invariance, PTL

\* The deleted count that routes searches is at all times the number of
\* tombstones, through any removals, restorations and compactions.
THEOREM TombstonesExact == Spec => []TombstonesCounted
<1>1. Inv => TombstonesCounted
  BY DEF Inv
<1> QED BY <1>1, Invariance, PTL

\* An edge never names a vector that lacks the layer it is on: the unchecked
\* indexing of a neighbour's lists in insertion and search stays in bounds.
THEOREM LayersRespected == Spec => []LinksStayOnLayer
<1>1. Inv => LinksStayOnLayer
  BY DEF Inv
<1> QED BY <1>1, Invariance, PTL

-----------------------------------------------------------------------------
(* What an operation was called with                                       *)

LEMMA EntryIsReal ==
  ASSUME NEW e \in [id : Node, level : Layer]
  PROVE  e # NoEntry
<1>1. e.level \in Layer /\ NoEntry.level = -1
  BY DEF NoEntry
<1> QED BY <1>1, LayerType

\* An insertion inserts the vector stored last; a plain search runs only
\* while there are no tombstones; a filtered one holds none on layer 0; and
\* none runs while an index is rebuilt.
CallInv ==
  /\ pc = "idle" => task = NoTask
  /\ pc # "idle" => entry # NoEntry /\ task.kind # "none"
  /\ task.kind = "insert" => order # <<>> /\ order[Len(order)] = task.target
  /\ next # 0 => task.kind \in {"none", "insert"}
  /\ task.kind = "plain" => deletedCount = 0
  /\ (pc = "search" /\ task.kind = "filtered" /\ layer = 0) => found \cap Dead = {}

LEMMA LayerScreens ==
  ASSUME NEW t, NEW l, NEW entries, BeginLayer(t, l, entries), t.kind = "filtered", l = 0
  PROVE  found' \cap Dead = {}
BY DEF BeginLayer, Closest, Screened

\* While an operation runs, the store and what was asked do not change.
LEMMA CallRuns ==
  ASSUME Inv, CallInv, Expand \/ Descend \/ Connect \/ Prune
  PROVE  CallInv'
<1>1. /\ UNCHANGED <<order, entry, deleted, deletedCount, task, next>> /\ pc # "idle" /\ pc' # "idle"
  BY DEF Expand, Descend, Connect, Prune, graphVars, tombVars, compactVars
<1>2. Dead' = Dead
  BY <1>1 DEF Dead
<1>3. ASSUME pc' = "search", task.kind = "filtered", layer' = 0 PROVE found' \cap Dead = {}
  <2>1. CASE Expand
    <3>1. PICK c \in frontier :
            found' = Closest(task.target, found \union Screened(task, layer, Fresh(c)), Width(task, layer))
      BY <2>1 DEF Expand
    <3>2. pc = "search" /\ layer = 0
      BY <1>3, <2>1 DEF Expand
    <3> QED BY <1>3, <3>1, <3>2 DEF CallInv, Closest, Screened
  <2>2. CASE Descend
    <3>1. BeginLayer(task, layer - 1, found) /\ layer' = layer - 1
      BY <2>2 DEF Descend, BeginLayer
    <3> QED BY <1>3, <3>1, LayerScreens
  <2>3. CASE Connect \/ Prune
    BY <1>3, <2>3 DEF Connect, Prune
  <2> QED BY <2>1, <2>2, <2>3
<1> QED BY <1>1, <1>2, <1>3 DEF CallInv

LEMMA CallNextLayer == ASSUME Inv, CallInv, NextLayer PROVE CallInv'
<1>1. UNCHANGED <<order, deleted, deletedCount, next>> /\ pc = "prune" /\ task.kind = "insert"
  BY DEF NextLayer, tombVars, compactVars, Inv, SearchOK
<1>2. CASE layer > 0
  BY <1>1, <1>2 DEF NextLayer, CallInv
<1>3. CASE ~(layer > 0)
  BY <1>1, <1>3 DEF NextLayer, Finish, CallInv, NoTask
<1> QED BY <1>2, <1>3

LEMMA CallBegins ==
  ASSUME Inv, CallInv, NEW n \in Node, NEW level \in Layer, BeginInsert(n, level), pc = "idle"
  PROVE  CallInv'
<1>1. /\ order' = Append(order, n) /\ UNCHANGED <<deleted, deletedCount>> /\ order \in Seq(Node)
  BY DEF BeginInsert, tombVars, Inv, TypeOK
<1>2. order' # <<>> /\ order'[Len(order')] = n
  BY <1>1, AppendProperties
<1>3. CASE entry = NoEntry
  BY <1>3 DEF BeginInsert, CallInv, NoTask
<1>4. CASE entry # NoEntry
  <2>1. task'.kind = "insert" /\ task'.target = n /\ pc' = "search" /\ entry' = entry
    BY <1>4 DEF BeginInsert, NoTask
  <2> QED BY <1>2, <1>4, <2>1 DEF CallInv
<1> QED BY <1>3, <1>4

LEMMA CallQuery ==
  ASSUME Inv, CallInv, NEW kind \in {"plain", "filtered"}, NEW q, NEW k, NEW accepts,
         BeginQuery(kind, q, k, accepts), UNCHANGED <<graphVars, tombVars, compactVars>>,
         pc = "idle", next = 0, kind = "plain" => deletedCount = 0
  PROVE  CallInv'
<1>1. UNCHANGED <<order, entry, deleted, deletedCount, next>> /\ Dead' = Dead
  BY DEF graphVars, tombVars, compactVars, Dead
<1>2. CASE entry = NoEntry
  BY <1>1, <1>2 DEF BeginQuery, CallInv, searchVars, NoTask
<1>3. CASE entry # NoEntry
  <2>1. /\ task'.kind = kind /\ pc' = "search" /\ BeginLayer(task', entry.level, {entry.id})
    BY <1>3 DEF BeginQuery
  <2>2. layer' = entry.level
    BY <2>1 DEF BeginLayer
  <2>3. (kind = "filtered" /\ layer' = 0) => found' \cap Dead = {}
    BY <2>1, <2>2, LayerScreens
  <2> QED BY <1>1, <1>3, <2>1, <2>3 DEF CallInv
<1> QED BY <1>2, <1>3

LEMMA CallStep == ASSUME Inv, CallInv, [Next]_vars PROVE CallInv'
<1>1. CASE Expand \/ Descend \/ Connect \/ Prune
  BY <1>1, CallRuns
<1>2. CASE NextLayer
  BY <1>2, CallNextLayer
<1>3. CASE Answer
  BY <1>3 DEF Answer, Finish, CallInv, NoTask
<1>4. CASE Skip \/ EndCompact
  BY <1>4 DEF Skip, EndCompact, CallInv, graphVars, tombVars, NoTask
<1>5. CASE Insert
  BY <1>5, CallBegins DEF Insert
<1>6. CASE Reinsert
  <2>1. old.order[next] \in Node
    BY <1>6 DEF Reinsert, Inv, TypeOK
  <2> QED BY <1>6, <2>1, CallBegins DEF Reinsert
<1>7. CASE Search \/ SearchFiltered
  <2>1. deletedCount \in Nat
    BY DEF Inv, TypeOK
  <2> QED BY <1>7, <2>1, CallQuery DEF Search, SearchFiltered, Route
<1>8. CASE RemoveVector \/ RestoreVector \/ BeginCompact
  BY <1>8 DEF RemoveVector, RestoreVector, BeginCompact, CallInv, graphVars, compactVars, NoTask
<1>9. CASE UNCHANGED vars
  BY <1>9 DEF vars, graphVars, tombVars, searchVars, compactVars, CallInv, Dead
<1> QED BY <1>1, <1>2, <1>3, <1>4, <1>5, <1>6, <1>7, <1>8, <1>9 DEF Next, Run, Call

LEMMA CallInit == Init => CallInv
BY DEF Init, CallInv, NoTask

LEMMA CallsKnown == Spec => [](Inv /\ CallInv)
<1>1. Spec => []CallInv
  <2> USE CallInit, CallStep
  <2>1. Inv /\ CallInv /\ [Next]_vars => CallInv'
    OBVIOUS
  <2>2. Init => CallInv
    OBVIOUS
  <2> QED BY <2>1, <2>2, Invariance, PTL DEF Spec
<1> QED BY <1>1, Invariance, PTL

-----------------------------------------------------------------------------
(* The entry point                                                         *)

\* Position i of a store is the first of its highest level.
IsFirstOfTop(linked, level, i) ==
  /\ i \in DOMAIN linked
  /\ \A j \in DOMAIN linked : level[linked[j]] <= level[linked[i]]
  /\ \A j \in 1..(i - 1) : \E h \in DOMAIN linked : ~(level[linked[h]] <= level[linked[j]])

\* What EntryIsFirstOfTop says of the vectors that are linked.
EntryAt(linked) ==
  IF linked = <<>> THEN entry = NoEntry
  ELSE \E i \in DOMAIN linked :
         /\ IsFirstOfTop(linked, levels, i)
         /\ entry = [id |-> linked[i], level |-> levels[linked[i]]]

Linked == IF task.kind = "insert" THEN Front(order) ELSE order

LEMMA EntryMeans == EntryIsFirstOfTop <=> EntryAt(Linked)
BY DEF EntryIsFirstOfTop, EntryAt, Linked, IsFirstOfTop

\* A list and what comes before its last entry.
LEMMA FrontProperties ==
  ASSUME NEW s \in Seq(Node), s # <<>>
  PROVE  /\ Front(s) \in Seq(Node) /\ Len(Front(s)) = Len(s) - 1
         /\ Len(s) \in Nat \ {0} /\ DOMAIN s = 1..Len(s) /\ DOMAIN Front(s) = 1..(Len(s) - 1)
         /\ \A i \in 1..(Len(s) - 1) : Front(s)[i] = s[i]
<1>1. Len(s) \in Nat \ {0} /\ DOMAIN s = 1..Len(s)
  BY LenProperties, EmptySeq
<1>2. \A i \in 1..(Len(s) - 1) : s[i] \in Node
  BY <1>1, ElementOfSeq
<1>3. Front(s) = SubSeq(s, 1, Len(s) - 1)
  BY DEF Front
<1>4. /\ Front(s) \in Seq(Node) /\ Len(Front(s)) = Len(s) - 1
      /\ \A i \in 1..(Len(s) - 1) : Front(s)[i] = s[i]
  BY <1>1, <1>2, <1>3, SubSeqProperties
<1>5. DOMAIN Front(s) = 1..(Len(s) - 1)
  BY <1>4, LenProperties
<1> QED BY <1>1, <1>4, <1>5

LEMMA FrontOfAppend ==
  ASSUME NEW s \in Seq(Node), NEW n \in Node
  PROVE  Front(Append(s, n)) = s
<1> DEFINE a == Append(s, n)
<1>1. /\ a \in Seq(Node) /\ Len(a) = Len(s) + 1 /\ Len(s) \in Nat /\ a # <<>>
      /\ \A i \in 1..Len(s) : a[i] = s[i]
  BY AppendProperties, LenProperties
<1> HIDE DEF a
<1>2. /\ Front(a) \in Seq(Node) /\ Len(Front(a)) = Len(s)
      /\ \A i \in 1..Len(s) : Front(a)[i] = s[i]
  <2>1. /\ Front(a) \in Seq(Node) /\ Len(Front(a)) = Len(a) - 1
        /\ \A i \in 1..(Len(a) - 1) : Front(a)[i] = a[i]
    BY <1>1, FrontProperties
  <2>2. Len(a) - 1 = Len(s)
    BY <1>1
  <2> QED BY <1>1, <2>1, <2>2
<1>3. /\ Front(a) \in Seq(Node) /\ Len(Front(a)) = Len(s)
      /\ \A i \in 1..Len(Front(a)) : Front(a)[i] = s[i]
  BY <1>2
<1>4. Front(a) = s
  BY <1>3, SeqEqual
<1> QED BY <1>4 DEF a

\* Vectors in the store have a level.
LEMMA StoredLevels ==
  ASSUME Inv
  PROVE  \A i \in DOMAIN order : order[i] \in Node /\ levels[order[i]] \in Layer
BY DEF Inv, TypeOK, StoreOK, ToSet

\* The store starts empty, and the first vector is its entry point.
LEMMA EntryBegins ==
  ASSUME Inv, Inv', CallInv, EntryAt(Linked), pc = "idle",
         NEW n \in Node \ ToSet(order), NEW level \in Layer, BeginInsert(n, level)
  PROVE  EntryAt(Linked)'
<1>1. /\ order \in Seq(Node) /\ order' = Append(order, n)
      /\ levels' = [levels EXCEPT ![n] = level] /\ levels \in [Node -> Layer \cup {-1}]
      /\ DOMAIN order = 1..Len(order) /\ Len(order) \in Nat
  <2>1. order \in Seq(Node) /\ levels \in [Node -> Layer \cup {-1}]
    BY DEF Inv, TypeOK
  <2> QED BY <2>1, LenProperties DEF BeginInsert
<1>2. Linked = order
  BY DEF CallInv, Linked, NoTask
<1>3. CASE entry = NoEntry
  <2>1. order = <<>>
    <3> SUFFICES ASSUME order # <<>> PROVE FALSE
      OBVIOUS
    <3>1. PICK i \in DOMAIN order : entry = [id |-> order[i], level |-> levels[order[i]]]
      BY <1>2 DEF EntryAt
    <3>2. order[i] \in Node /\ levels[order[i]] \in Layer
      BY StoredLevels
    <3> QED BY <1>3, <3>1, <3>2, EntryIsReal
  <2>2. order' = <<n>>
    BY <1>1, <2>1
  <2>3. entry' = [id |-> n, level |-> level] /\ task' = NoTask
    BY <1>3 DEF BeginInsert, CallInv
  <2>4. Linked' = <<n>> /\ levels'[n] = level
    BY <1>1, <2>2, <2>3 DEF Linked, NoTask
  <2>5. level <= level
    BY LayerType
  <2>6. DOMAIN <<n>> = {1} /\ <<n>>[1] = n /\ <<n>> # <<>>
    OBVIOUS
  <2>7. IsFirstOfTop(Linked', levels', 1)
    BY <2>4, <2>5, <2>6 DEF IsFirstOfTop
  <2> QED BY <2>3, <2>4, <2>6, <2>7 DEF EntryAt
<1>4. CASE entry # NoEntry
  <2>1. task'.kind = "insert" /\ entry' = entry
    BY <1>4 DEF BeginInsert, NoTask
  <2>2. Linked' = order
    BY <1>1, <2>1, FrontOfAppend DEF Linked
  <2>3. \A i \in DOMAIN order : levels'[order[i]] = levels[order[i]]
    BY <1>1, StoredLevels DEF ToSet
  <2>4. ASSUME NEW i \in DOMAIN order, IsFirstOfTop(order, levels, i)
        PROVE  IsFirstOfTop(order, levels', i)
    <3>1. i \in Nat /\ i <= Len(order)
      BY <1>1
    <3>2. \A j \in 1..(i - 1) : j \in DOMAIN order
      BY <1>1, <3>1
    <3> QED BY <2>3, <2>4, <3>2 DEF IsFirstOfTop
  <2>5. order # <<>>
    BY <1>2, <1>4 DEF EntryAt
  <2>6. PICK i \in DOMAIN order : /\ IsFirstOfTop(order, levels, i)
                                  /\ entry = [id |-> order[i], level |-> levels[order[i]]]
    BY <1>2, <2>5 DEF EntryAt
  <2> QED BY <2>1, <2>2, <2>3, <2>4, <2>5, <2>6 DEF EntryAt
<1> QED BY <1>3, <1>4

\* The vector that is linked last takes over if it is higher.
LEMMA EntryEnds ==
  ASSUME Inv, CallInv, EntryAt(Linked), NextLayer, ~(layer > 0)
  PROVE  EntryAt(Linked)'
<1> DEFINE n == Len(order)
<1>1. /\ task.kind = "insert" /\ UNCHANGED <<order, levels>> /\ task' = NoTask
      /\ entry' = IF Promotes(task) THEN [id |-> task.target, level |-> task.level] ELSE entry
      /\ task.target \in Node /\ task.level = levels[task.target] /\ entry # NoEntry
  BY DEF NextLayer, Finish, Inv, SearchOK, CallInv
<1>2. /\ order \in Seq(Node) /\ order # <<>> /\ order[n] = task.target
      /\ Linked = Front(order) /\ Linked' = order
  BY <1>1 DEF Inv, TypeOK, CallInv, Linked, NoTask
<1>3. /\ n \in Nat \ {0} /\ DOMAIN order = 1..n /\ DOMAIN Front(order) = 1..(n - 1)
      /\ \A i \in 1..(n - 1) : Front(order)[i] = order[i]
  BY <1>2, FrontProperties
<1>4. Front(order) # <<>>
  BY <1>1, <1>2 DEF EntryAt
<1>5. PICK i \in 1..(n - 1) : /\ IsFirstOfTop(Front(order), levels, i)
                              /\ entry = [id |-> order[i], level |-> levels[order[i]]]
  BY <1>2, <1>3, <1>4 DEF EntryAt
<1>6. \A j \in 1..n : levels[order[j]] \in Nat
  BY <1>3, StoredLevels, LayerType
<1> DEFINE lev(j) == levels[order[j]]
<1>7. /\ \A j \in 1..(n - 1) : lev(j) <= lev(i)
      /\ \A j \in 1..(i - 1) : \E h \in 1..(n - 1) : ~(lev(h) <= lev(j))
  <2>1. \A j \in 1..(i - 1) : j \in 1..(n - 1)
    BY <1>3
  <2>2. \A j \in 1..(n - 1) : levels[Front(order)[j]] = lev(j)
    BY <1>3
  <2>3. /\ \A j \in 1..(n - 1) : levels[Front(order)[j]] <= levels[Front(order)[i]]
        /\ \A j \in 1..(i - 1) : \E h \in 1..(n - 1) :
             ~(levels[Front(order)[h]] <= levels[Front(order)[j]])
    BY <1>3, <1>5 DEF IsFirstOfTop
  <2> HIDE DEF lev, n
  <2> QED BY <2>1, <2>2, <2>3
<1>8. Promotes(task) <=> lev(n) > lev(i)
  BY <1>1, <1>2, <1>5 DEF Promotes
<1> HIDE DEF n
<1>9. CASE Promotes(task)
  <2>0. /\ n \in Nat \ {0} /\ i \in 1..n /\ lev(n) > lev(i)
        /\ \A j \in 1..n : lev(j) \in Nat
        /\ \A j \in 1..(n - 1) : lev(j) <= lev(i)
    BY <1>3, <1>5, <1>6, <1>7, <1>8, <1>9
  <2>2. ASSUME NEW j \in 1..(n - 1) PROVE ~(lev(n) <= lev(j))
    <3>1. /\ lev(j) \in Nat /\ lev(n) \in Nat /\ lev(i) \in Nat
          /\ lev(j) <= lev(i) /\ lev(n) > lev(i)
      BY <2>0
    <3> HIDE DEF lev
    <3> QED BY <3>1
  <2>1. ASSUME NEW j \in 1..n PROVE lev(j) <= lev(n)
    <3>1. lev(j) \in Nat /\ lev(n) \in Nat /\ (j = n \/ j \in 1..(n - 1))
      BY <2>0
    <3>2. j \in 1..(n - 1) => ~(lev(n) <= lev(j))
      BY <2>2
    <3> HIDE DEF lev
    <3> QED BY <3>1, <3>2
  <2>3. IsFirstOfTop(order, levels, n)
    BY <1>3, <2>1, <2>2 DEF IsFirstOfTop
  <2>4. IsFirstOfTop(Linked', levels', n)
    BY <1>1, <1>2, <2>3
  <2> QED BY <1>1, <1>2, <1>3, <1>9, <2>4 DEF EntryAt
<1>10. CASE ~Promotes(task)
  <2>1. lev(n) <= lev(i)
    BY <1>3, <1>6, <1>8, <1>10
  <2>2. \A j \in 1..n : lev(j) <= lev(i)
    BY <1>3, <1>7, <2>1
  <2>3. IsFirstOfTop(order, levels, i)
    BY <1>3, <1>7, <2>2 DEF IsFirstOfTop
  <2>4. IsFirstOfTop(Linked', levels', i)
    BY <1>1, <1>2, <2>3
  <2> QED BY <1>1, <1>2, <1>3, <1>5, <1>10, <2>4 DEF EntryAt
<1> QED BY <1>9, <1>10

\* Nothing else moves the entry point or what is linked.
LEMMA EntryStays ==
  ASSUME EntryAt(Linked), UNCHANGED <<order, levels, entry>>, Linked' = Linked
  PROVE  EntryAt(Linked)'
BY DEF EntryAt, IsFirstOfTop

LEMMA EntryStep == ASSUME Inv, Inv', CallInv, EntryAt(Linked), [Next]_vars PROVE EntryAt(Linked)'
<1>1. CASE Insert
  <2>1. PICK n \in Node \ ToSet(order), level \in Layer : BeginInsert(n, level)
    BY <1>1 DEF Insert
  <2> QED BY <1>1, <2>1, EntryBegins DEF Insert
<1>2. CASE Reinsert
  <2>1. PICK level \in Layer : BeginInsert(old.order[next], level)
    BY <1>2 DEF Reinsert
  <2>2. /\ next \in DOMAIN old.order /\ old.order \in Seq(Node) /\ next # 0
    BY <1>2 DEF Reinsert, Inv, TypeOK
  <2>3. old.order[next] \in Node /\ old.order[next] \notin ToSet(order)
    BY <2>2 DEF Inv, RebuildOK, IsInjective
  <2> QED BY <1>2, <2>1, <2>3, EntryBegins DEF Reinsert
<1>3. CASE NextLayer
  <2>1. CASE layer > 0
    BY <1>3, <2>1, EntryStays DEF NextLayer, Linked
  <2> QED BY <1>3, <2>1, EntryEnds
<1>4. CASE BeginCompact
  BY <1>4 DEF BeginCompact, EntryAt, Linked, CallInv, NoTask
<1>5. CASE Search \/ SearchFiltered
  <2>1. UNCHANGED <<order, levels, entry>> /\ pc = "idle"
    BY <1>5 DEF Search, SearchFiltered, graphVars
  <2>2. task'.kind # "insert"
    <3>1. PICK kind \in {"plain", "filtered"}, q \in Node, k \in 1..MaxK,
            accepts \in Filters \cup {Node} :
            BeginQuery(kind, q, k, accepts)
      BY <1>5 DEF Search, SearchFiltered, Route
    <3> QED BY <2>1, <3>1 DEF BeginQuery, CallInv, NoTask
  <2>3. Linked' = Linked
    BY <2>1, <2>2 DEF Linked, CallInv, NoTask
  <2> QED BY <2>1, <2>3, EntryStays
<1>6. CASE Answer
  <2>1. UNCHANGED <<order, levels, entry>> /\ task.kind # "insert" /\ task' = NoTask
    BY <1>6 DEF Answer, Finish, graphVars
  <2> QED BY <2>1, EntryStays DEF Linked, NoTask
<1>7. CASE Expand \/ Descend \/ Connect \/ Prune \/ Skip \/ EndCompact \/ RemoveVector \/ RestoreVector
             \/ UNCHANGED vars
  <2>1. UNCHANGED <<order, levels, entry, task>>
    BY <1>7 DEF Expand, Descend, Connect, Prune, Skip, EndCompact, RemoveVector, RestoreVector,
                vars, graphVars
  <2> QED BY <2>1, EntryStays DEF Linked
<1> QED BY <1>1, <1>2, <1>3, <1>4, <1>5, <1>6, <1>7 DEF Next, Run, Call

\* The entry point is the first vector of the highest level present, through
\* insertions that promote, ties that do not, and compactions that draw every
\* level anew; while a vector is being inserted, of those before it.
THEOREM EntryStaysOnTop == Spec => []EntryIsFirstOfTop
<1> DEFINE I == Inv /\ CallInv
           E == EntryAt(Linked)
<1>1. Init => E
  BY DEF Init, EntryAt, Linked, NoTask
<1>2. I /\ I' /\ E /\ [Next]_vars => E'
  BY EntryStep
<1>3. E => EntryIsFirstOfTop
  BY EntryMeans
<1>4. Spec => []I
  BY CallsKnown
<1> HIDE DEF I, E
<1> QED BY <1>1, <1>2, <1>3, <1>4, PTL DEF Spec

-----------------------------------------------------------------------------
(* The index as a collection of vectors                                    *)

AbsVectors == IF next = 0 THEN order ELSE old.order
AbsDead ==
  LET d == IF next = 0 THEN deleted ELSE old.deleted
  IN  {i \in DOMAIN d : d[i]}

\* `kept` lists, in ascending order, the positions below `upto` that live on:
\* the rebuilt store holds their vectors in that order.
Renumbers(kept, now, was, upto) ==
  /\ kept \in [1..Len(now) -> DOMAIN was.order]
  /\ \A i, j \in 1..Len(now) : i < j => kept[i] < kept[j]
  /\ \A i \in 1..Len(now) : now[i] = was.order[kept[i]]
  /\ \A j \in DOMAIN was.order :
       (\E i \in 1..Len(now) : kept[i] = j)
         <=> (j < upto /\ ~(j \in DOMAIN was.deleted /\ was.deleted[j]))

RebuiltInv ==
  next # 0 => answer = <<>> /\ \E kept : Renumbers(kept, order, old, next)

LEMMA RebuiltGrows ==
  ASSUME Inv, RebuiltInv, Reinsert
  PROVE  RebuiltInv'
<1>1. PICK level \in Layer : BeginInsert(old.order[next], level)
  BY DEF Reinsert
<1>2. /\ next \in DOMAIN old.order /\ ~WasDead(next) /\ next' = next + 1 /\ UNCHANGED <<old, answer>>
      /\ order' = Append(order, old.order[next])
  BY <1>1 DEF Reinsert, BeginInsert
<1>3. /\ order \in Seq(Node) /\ old.order \in Seq(Node) /\ next \in Nat \ {0} /\ old.order[next] \in Node
      /\ DOMAIN old.order \subseteq Nat
  <2>1. order \in Seq(Node) /\ old.order \in Seq(Node) /\ next \in Nat
    BY DEF Inv, TypeOK
  <2>2. DOMAIN old.order = 1..Len(old.order) /\ Len(old.order) \in Nat
    BY <2>1, LenProperties
  <2> QED BY <1>2, <2>1, <2>2, ElementOfSeq
<1> DEFINE n == Len(order)
<1>4. n \in Nat /\ Len(order') = n + 1 /\ order'[n + 1] = old.order[next]
      /\ \A i \in 1..n : order'[i] = order[i]
  BY <1>2, <1>3, AppendProperties, LenProperties
<1>5. PICK kept : Renumbers(kept, order, old, next)
  BY <1>3 DEF RebuiltInv
<1> DEFINE more == [i \in 1..(n + 1) |-> IF i = n + 1 THEN next ELSE kept[i]]
<1>6. /\ kept \in [1..n -> DOMAIN old.order]
      /\ \A i, j \in 1..n : i < j => kept[i] < kept[j]
      /\ \A i \in 1..n : order[i] = old.order[kept[i]]
      /\ \A j \in DOMAIN old.order : (\E i \in 1..n : kept[i] = j) <=> (j < next /\ ~WasDead(j))
  BY <1>5 DEF Renumbers, WasDead
<1> HIDE DEF n
<1>7. \A i \in 1..(n + 1) : i = n + 1 \/ i \in 1..n
  BY <1>4
<1>8. more[n + 1] = next /\ \A i \in 1..n : more[i] = kept[i]
  BY <1>4
<1>9. more \in [1..(n + 1) -> DOMAIN old.order]
  BY <1>2, <1>6, <1>7
<1> HIDE DEF more
<1>10. \A i \in 1..n : kept[i] < next
  BY <1>6
<1>11. \A i, j \in 1..(n + 1) : i < j => more[i] < more[j]
  <2> SUFFICES ASSUME NEW i \in 1..(n + 1), NEW j \in 1..(n + 1), i < j PROVE more[i] < more[j]
    OBVIOUS
  <2>1. i \in 1..n
    BY <1>4, <1>7
  <2> QED BY <1>6, <1>7, <1>8, <1>10, <2>1
<1>12. \A i \in 1..(n + 1) : order'[i] = old.order[more[i]]
  BY <1>4, <1>6, <1>7, <1>8
<1>13. \A j \in DOMAIN old.order :
         (\E i \in 1..(n + 1) : more[i] = j) <=> (j < next + 1 /\ ~WasDead(j))
  <2> SUFFICES ASSUME NEW j \in DOMAIN old.order
               PROVE  (\E i \in 1..(n + 1) : more[i] = j) <=> (j < next + 1 /\ ~WasDead(j))
    OBVIOUS
  <2>1. (\E i \in 1..(n + 1) : more[i] = j) <=> j = next \/ \E i \in 1..n : kept[i] = j
    <3>1. 1..n \subseteq 1..(n + 1) /\ n + 1 \in 1..(n + 1)
      BY <1>4
    <3> QED BY <1>7, <1>8, <3>1
  <2>2. j \in Nat
    BY <1>3
  <2> QED BY <1>2, <1>3, <1>6, <2>1, <2>2
<1>14. Renumbers(more, order', old', next')
  BY <1>2, <1>4, <1>9, <1>11, <1>12, <1>13 DEF Renumbers, WasDead
<1> QED BY <1>2, <1>3, <1>14 DEF RebuiltInv

LEMMA RebuiltSkips ==
  ASSUME Inv, RebuiltInv, Skip
  PROVE  RebuiltInv'
<1>1. /\ next \in DOMAIN old.order /\ WasDead(next) /\ next' = next + 1
      /\ UNCHANGED <<order, old, answer>>
  BY DEF Skip, graphVars
<1>2. old.order \in Seq(Node) /\ next \in Nat \ {0} /\ DOMAIN old.order \subseteq Nat
  BY <1>1 DEF Inv, TypeOK
<1>3. PICK kept : Renumbers(kept, order, old, next)
  BY <1>2 DEF RebuiltInv
<1>4. \A j \in DOMAIN old.order : (j < next + 1 /\ ~WasDead(j)) <=> (j < next /\ ~WasDead(j))
  BY <1>1, <1>2
<1>5. Renumbers(kept, order', old', next')
  BY <1>1, <1>3, <1>4 DEF Renumbers, WasDead
<1> QED BY <1>1, <1>2, <1>5 DEF RebuiltInv

LEMMA RebuiltBegins ==
  ASSUME Inv, BeginCompact
  PROVE  RebuiltInv'
<1>1. order' = <<>> /\ old' = [order |-> order, deleted |-> deleted] /\ next' = 1 /\ answer' = <<>>
  BY DEF BeginCompact
<1>2. Len(order') = 0 /\ 1..Len(order') = {}
  BY <1>1
<1>3. \A j \in DOMAIN old'.order : ~(j < next')
  BY <1>1 DEF Inv, TypeOK
<1>4. Renumbers(<<>>, order', old', next')
  BY <1>2, <1>3 DEF Renumbers
<1> QED BY <1>1, <1>4 DEF RebuiltInv

LEMMA RebuiltStep == ASSUME Inv, CallInv, RebuiltInv, [Next]_vars PROVE RebuiltInv'
<1>1. CASE Reinsert BY <1>1, RebuiltGrows
<1>2. CASE Skip BY <1>2, RebuiltSkips
<1>3. CASE BeginCompact BY <1>3, RebuiltBegins
<1>4. CASE EndCompact
  BY <1>4 DEF EndCompact, RebuiltInv
<1>5. CASE Expand \/ Descend \/ Connect \/ Prune \/ NextLayer
  <2>1. UNCHANGED <<order, old, next, answer>>
    BY <1>5 DEF Expand, Descend, Connect, Prune, NextLayer, graphVars, compactVars
  <2> QED BY <2>1 DEF RebuiltInv
<1>6. CASE Answer
  <2>1. next = 0
    BY <1>6 DEF Answer, CallInv
  <2> QED BY <1>6, <2>1 DEF Answer, RebuiltInv, compactVars
<1>7. CASE Insert \/ Search \/ SearchFiltered \/ RemoveVector \/ RestoreVector
  BY <1>7 DEF Insert, Search, SearchFiltered, RemoveVector, RestoreVector, RebuiltInv, compactVars
<1>8. CASE UNCHANGED vars
  BY <1>8 DEF vars, graphVars, compactVars, RebuiltInv
<1> QED BY <1>1, <1>2, <1>3, <1>4, <1>5, <1>6, <1>7, <1>8 DEF Next, Run, Call

LEMMA CollectionInit == Init => Collection!Init
<1> SUFFICES ASSUME Init PROVE Collection!Init
  OBVIOUS
<1>1. order = <<>> /\ deleted = <<>> /\ next = 0 /\ answer = <<>>
  BY DEF Init
<1>2. {i \in DOMAIN <<>> : <<>>[i]} = {}
  OBVIOUS
<1> QED BY <1>1, <1>2 DEF Collection!Init

\* Steps that the caller does not see.
LEMMA CollectionStutters ==
  ASSUME UNCHANGED <<order, deleted, old, next, answer>>
  PROVE  UNCHANGED Collection!vars
BY DEF Collection!vars

LEMMA CollectionRebuilds ==
  ASSUME next # 0, next' # 0, UNCHANGED <<old, answer>>
  PROVE  UNCHANGED Collection!vars
BY DEF Collection!vars

LEMMA CollectionForgets ==
  ASSUME AbsVectors' = AbsVectors, AbsDead' = AbsDead, answer' = <<>>
  PROVE  Collection!Next
BY DEF AbsVectors, AbsDead, Collection!Next, Collection!Forget

LEMMA CollectionInserts == ASSUME Inv, Insert PROVE Collection!Insert
<1>1. PICK n \in Node \ ToSet(order) : order' = Append(order, n)
  BY DEF Insert, BeginInsert
<1>2. next = 0 /\ next' = 0 /\ deleted' = deleted /\ answer' = <<>>
  BY <1>1 DEF Insert, BeginInsert, tombVars, compactVars
<1> QED BY <1>1, <1>2 DEF Collection!Insert, Collection!ToSet, ToSet

LEMMA CollectionRemoves == ASSUME Inv, RemoveVector PROVE Collection!Next
<1>1. PICK i \in DOMAIN order : deleted' = [Resized EXCEPT ![i] = TRUE]
  BY DEF RemoveVector
<1>2. /\ next = 0 /\ next' = 0 /\ order' = order /\ answer' = <<>>
      /\ order \in Seq(Node) /\ DOMAIN order = 1..Len(order) /\ Len(order) \in Nat
      /\ deleted \in Seq(BOOLEAN) /\ DOMAIN deleted = 1..Len(deleted) /\ Len(deleted) \in Nat
      /\ Len(deleted) <= Len(order)
  <2>1. order \in Seq(Node) /\ deleted \in Seq(BOOLEAN) /\ Len(deleted) <= Len(order)
    BY DEF Inv, TypeOK, TombstonesCounted
  <2>2. next = 0 /\ next' = 0 /\ order' = order /\ answer' = <<>>
    BY DEF RemoveVector, graphVars, compactVars
  <2> QED BY <2>1, <2>2, LenProperties
<1>3. /\ DOMAIN deleted' = DOMAIN order
      /\ \A j \in DOMAIN order : deleted'[j] <=> j = i \/ (j \in DOMAIN deleted /\ deleted[j])
  BY <1>1, <1>2, ResizedFacts
<1>4. /\ AbsDead = {j \in DOMAIN deleted : deleted[j]}
      /\ AbsDead' = {j \in DOMAIN deleted' : deleted'[j]}
      /\ AbsVectors = order /\ AbsVectors' = order
  BY <1>2 DEF AbsDead, AbsVectors
<1>5. AbsDead \subseteq DOMAIN order
  BY <1>2, <1>4
<1>6. AbsDead' = AbsDead \cup {i}
  BY <1>2, <1>3, <1>4, <1>5
<1>7. CASE i \in AbsDead
  <2>1. AbsDead' = AbsDead
    BY <1>6, <1>7
  <2> QED BY <1>2, <1>4, <2>1, CollectionForgets
<1>8. CASE i \notin AbsDead
  <2>1. i \in Collection!Live
    BY <1>2, <1>4, <1>8 DEF Collection!Live
  <2>2. Collection!RemoveVector
    BY <1>2, <1>4, <1>6, <2>1 DEF Collection!RemoveVector, AbsDead
  <2> QED BY <2>2 DEF Collection!Next
<1> QED BY <1>7, <1>8

LEMMA CollectionRestores == ASSUME Inv, RestoreVector PROVE Collection!Next
<1>1. PICK i \in DOMAIN deleted : deleted[i] /\ deleted' = [deleted EXCEPT ![i] = FALSE]
  BY DEF RestoreVector
<1>2. /\ next = 0 /\ next' = 0 /\ order' = order /\ answer' = <<>> /\ deleted \in Seq(BOOLEAN)
  BY DEF RestoreVector, graphVars, compactVars, Inv, TypeOK
<1>3. /\ AbsDead = {j \in DOMAIN deleted : deleted[j]}
      /\ AbsDead' = {j \in DOMAIN deleted' : deleted'[j]}
  BY <1>2 DEF AbsDead
<1>4. /\ DOMAIN deleted' = DOMAIN deleted
      /\ \A j \in DOMAIN deleted : deleted'[j] <=> j # i /\ deleted[j]
  BY <1>1, <1>2
<1>5. AbsDead' = AbsDead \ {i} /\ i \in AbsDead
  BY <1>1, <1>3, <1>4
<1>6. Collection!RestoreVector
  BY <1>2, <1>5 DEF Collection!RestoreVector, AbsDead
<1> QED BY <1>6 DEF Collection!Next

\* A compaction shows its effect when the rebuilt index is in place.
LEMMA CollectionCompacts == ASSUME Inv, RebuiltInv, EndCompact PROVE Collection!Compact
<1>1. /\ next > Len(old.order) /\ next' = 0 /\ UNCHANGED <<order, deleted, answer>>
  BY DEF EndCompact, graphVars, tombVars
<1>2. /\ order \in Seq(Node) /\ old.order \in Seq(Node) /\ next \in Nat
      /\ Len(old.order) \in Nat /\ DOMAIN old.order = 1..Len(old.order) /\ Len(order) \in Nat
      /\ DOMAIN order = 1..Len(order)
  <2>1. order \in Seq(Node) /\ old.order \in Seq(Node) /\ next \in Nat
    BY DEF Inv, TypeOK
  <2> QED BY <2>1, LenProperties
<1>3. next # 0
  BY <1>1, <1>2
<1>4. answer = <<>> /\ deleted = <<>>
  BY <1>3 DEF RebuiltInv, Inv, RebuildOK
<1>5. PICK kept : Renumbers(kept, order, old, next)
  BY <1>3 DEF RebuiltInv
<1> DEFINE n == Len(order)
           Live == {j \in DOMAIN old.order : ~(j \in DOMAIN old.deleted /\ old.deleted[j])}
<1>6. /\ kept \in [1..n -> DOMAIN old.order]
      /\ \A i, j \in 1..n : i < j => kept[i] < kept[j]
      /\ \A i \in 1..n : order[i] = old.order[kept[i]]
      /\ \A j \in DOMAIN old.order : (\E i \in 1..n : kept[i] = j) <=> j \in Live
  BY <1>1, <1>2, <1>5 DEF Renumbers
<1>7. Collection!Live = Live
  BY <1>3 DEF Collection!Live
<1> HIDE DEF n, Live
<1>8. n \in Nat /\ Live \subseteq DOMAIN old.order
  BY <1>2 DEF n, Live
<1>9. kept \in [1..n -> Live] /\ \A j \in Live : \E i \in 1..n : kept[i] = j
  BY <1>6, <1>8
<1>10. \A i, j \in 1..n : i # j => kept[i] # kept[j]
  <2> SUFFICES ASSUME NEW i \in 1..n, NEW j \in 1..n, i # j PROVE kept[i] # kept[j]
    OBVIOUS
  <2>1. kept[i] \in Nat /\ kept[j] \in Nat
    BY <1>2, <1>6
  <2>2. i < j \/ j < i
    BY <1>8
  <2> QED BY <1>6, <2>1, <2>2
<1>11. Cardinality(Live) = n
  <2>1. kept \in Bijection(1..n, Live)
    BY <1>9, <1>10 DEF Bijection, Injection, Surjection, IsInjective
  <2>2. ExistsBijection(1..n, Live)
    BY <2>1 DEF ExistsBijection
  <2>3. IsFiniteSet(1..n) /\ Cardinality(1..n) = n
    BY <1>8, FS_Interval
  <2> QED BY <2>2, <2>3, FS_Bijection
<1>12. order = [i \in DOMAIN kept |-> old.order[kept[i]]]
  <2>1. DOMAIN kept = 1..n
    BY <1>6
  <2>2. order = [i \in 1..n |-> order[i]]
    BY <1>2 DEF n
  <2> QED BY <1>6, <2>1, <2>2
<1>13. Cardinality(Collection!Live) = n /\ kept \in [1..Cardinality(Collection!Live) -> Collection!Live]
  BY <1>7, <1>9, <1>11
<1>14. \A i, j \in DOMAIN kept : i < j => kept[i] < kept[j]
  BY <1>6
<1>15. {i \in DOMAIN <<>> : <<>>[i]} = {}
  OBVIOUS
<1>16. AbsDead' = {} /\ answer' = <<>>
  BY <1>1, <1>4, <1>15 DEF AbsDead
<1>17. AbsVectors' = [i \in DOMAIN kept |-> AbsVectors[kept[i]]]
  BY <1>1, <1>3, <1>12 DEF AbsVectors
<1>18. \E keep \in [1..Cardinality(Collection!Live) -> Collection!Live] :
         /\ \A i, j \in DOMAIN keep : i < j => keep[i] < keep[j]
         /\ AbsVectors' = [i \in DOMAIN keep |-> AbsVectors[keep[i]]]
  BY <1>13, <1>14, <1>17
<1>19. Collection!Cardinality(Collection!Live) = Cardinality(Collection!Live)
  BY DEF Collection!Cardinality, Collection!IsFiniteSet, Cardinality, IsFiniteSet
<1> QED BY <1>16, <1>18, <1>19 DEF Collection!Compact, AbsDead, AbsVectors

\* What a search has found on layer 0 is in the store and alive.
LEMMA FoundIsLive ==
  ASSUME Inv, CallInv, Answer
  PROVE  next = 0 /\ found \subseteq Collection!LiveVectors
<1>1. pc = "search" /\ task.kind \in {"plain", "filtered"} /\ layer = 0 /\ next = 0
  BY DEF Answer, CallInv, Inv, TypeOK
<1>2. /\ order \in Seq(Node) /\ deleted \in Seq(BOOLEAN)
      /\ levels \in [Node -> Layer \cup {-1}] /\ found \subseteq Node
  BY DEF Inv, TypeOK
<1>3. found \cap Dead = {}
  <2>1. CASE task.kind = "plain"
    <3>1. Cardinality(Dead) = 0 /\ IsFiniteSet(Dead)
      BY <2>1, DeadFinite DEF CallInv, Inv, TombstonesCounted
    <3> QED BY <3>1, FS_EmptySet
  <2>2. CASE task.kind = "filtered"
    BY <1>1, <2>2 DEF CallInv
  <2> QED BY <1>1, <2>1, <2>2
<1>4. ASSUME NEW x \in found PROVE x \in Collection!LiveVectors
  <2>1. levels[x] \in Layer
    <3>1. 0 <= levels[x] /\ levels[x] \in Layer \cup {-1}
      BY <1>1, <1>2, <1>4 DEF Inv, SearchOK
    <3> QED BY <3>1
  <2>2. PICK i \in DOMAIN order : order[i] = x
    BY <1>2, <2>1 DEF Inv, StoreOK, ToSet
  <2>3. ~(i \in DOMAIN deleted /\ deleted[i])
    BY <1>3, <1>4, <2>2 DEF Dead
  <2>4. i \in Collection!Live
    BY <1>1, <2>2, <2>3 DEF Collection!Live
  <2> QED BY <1>1, <2>2, <2>4 DEF Collection!LiveVectors
<1> QED BY <1>1, <1>4

LEMMA CollectionAnswers == ASSUME Inv, CallInv, Answer PROVE Collection!Search
<1> DEFINE q == task.target
           live == Collection!LiveVectors
<1>1. next = 0 /\ found \subseteq live
  BY FoundIsLive
<1>2. UNCHANGED <<order, deleted, old, next>>
  BY DEF Answer, graphVars, tombVars, compactVars
<1>3. /\ q \in Node /\ found \in SUBSET Node /\ task.k \in 0..MaxK /\ MaxK \in Nat
      /\ answer' \in Selections(q, [x \in found |-> x], task.k, FALSE)
  BY CallerAssumption DEF Inv, TypeOK, SearchOK, Answer
<1> HIDE DEF live, q
<1>4. PICK size \in 0..task.k :
        /\ answer' \in [1..size -> found]
        /\ \A i, j \in 1..size : i < j => Closer(q, answer'[i], answer'[j])
  <2>1. task.k \in Nat
    BY <1>3
  <2> QED BY <1>3, <2>1, SortedSelection
<1>5. size \in 0..MaxK /\ answer' \in [1..size -> live]
  BY <1>1, <1>3, <1>4
<1>6. Collection!NearestFirst(q, answer')
  BY <1>4 DEF Collection!NearestFirst, Closer
<1> QED BY <1>2, <1>3, <1>5, <1>6 DEF Collection!Search, live

LEMMA CollectionStep ==
  ASSUME Inv, CallInv, RebuiltInv, [Next]_vars
  PROVE  [Collection!Next]_Collection!vars
<1>1. CASE Expand \/ Descend \/ Connect \/ Prune \/ NextLayer
  BY <1>1, CollectionStutters DEF Expand, Descend, Connect, Prune, NextLayer, graphVars, tombVars, compactVars
<1>2. CASE Skip \/ Reinsert
  <2>1. next \in Nat \ {0} /\ next' = next + 1 /\ UNCHANGED <<old, answer>>
    BY <1>2 DEF Skip, Reinsert, Inv, TypeOK
  <2> QED BY <2>1, CollectionRebuilds
<1>3. CASE EndCompact
  BY <1>3, CollectionCompacts DEF Collection!Next
<1>4. CASE Answer
  BY <1>4, CollectionAnswers DEF Collection!Next
<1>5. CASE Insert
  BY <1>5, CollectionInserts DEF Collection!Next
<1>6. CASE Search \/ SearchFiltered
  <2>1. UNCHANGED <<order, deleted, old, next>>
    BY <1>6 DEF Search, SearchFiltered, graphVars, tombVars, compactVars
  <2>2. answer' = <<>>
    BY <1>6 DEF Search, SearchFiltered, BeginQuery
  <2>3. AbsVectors' = AbsVectors /\ AbsDead' = AbsDead
    BY <2>1 DEF AbsVectors, AbsDead
  <2> QED BY <2>2, <2>3, CollectionForgets
<1>7. CASE BeginCompact
  <2>1. next = 0 /\ next' = 1 /\ old'.order = order /\ old'.deleted = deleted /\ answer' = <<>>
    BY <1>7 DEF BeginCompact
  <2>2. AbsVectors' = AbsVectors /\ AbsDead' = AbsDead
    BY <2>1 DEF AbsVectors, AbsDead
  <2> QED BY <2>1, <2>2, CollectionForgets
<1>8. CASE RemoveVector
  BY <1>8, CollectionRemoves
<1>9. CASE RestoreVector
  BY <1>9, CollectionRestores
<1>10. CASE UNCHANGED vars
  BY <1>10, CollectionStutters DEF vars, graphVars, tombVars, compactVars
<1> QED BY <1>1, <1>2, <1>3, <1>4, <1>5, <1>6, <1>7, <1>8, <1>9, <1>10 DEF Next, Run, Call

\* The index, with its graph, heaps and rebuilds, implements a collection of
\* vectors with ids and tombstones: ids are given in order and never move but
\* by a compaction, which keeps the live vectors in their order, and every
\* answer lists live vectors, at most k, closest first.
THEOREM IndexIsCollection == Spec => ImplementsCollection
<1> DEFINE I == Inv /\ CallInv
<1>1. Init => RebuiltInv
  BY DEF Init, RebuiltInv
<1>2. I /\ RebuiltInv /\ [Next]_vars => RebuiltInv'
  BY RebuiltStep
<1>3. I /\ RebuiltInv /\ [Next]_vars => [Collection!Next]_Collection!vars
  BY CollectionStep
<1>4. Init => Collection!Init
  BY CollectionInit
<1>5. Spec => []I
  BY CallsKnown
<1> HIDE DEF I
<1> QED BY <1>1, <1>2, <1>3, <1>4, <1>5, PTL DEF Spec, ImplementsCollection, Collection!Spec

-----------------------------------------------------------------------------
(* The vector being inserted                                               *)

\* The layers the vector being inserted has yet to be connected on.
Unconnected(l) == l < layer \/ (l = layer /\ pc = "search")

\* Nothing lists `target` on layer l, and its own list is empty.
Untouched(target, l) ==
  links[target][l] = <<>> /\ \A x \in Node : target \notin Targets(x, l)

\* Until a vector is connected on a layer nothing lists it there, so no
\* search of the layer meets it.
NewInv ==
  task.kind = "insert" =>
    /\ task.target \notin visited
    /\ \A l \in Layer : Unconnected(l) => Untouched(task.target, l)

LEMMA EmptyList ==
  ASSUME NEW s \in Seq(Node)
  PROVE  ToSet(s) = {} <=> s = <<>>
<1>1. Len(s) \in Nat /\ DOMAIN s = 1..Len(s)
  BY LenProperties
<1>2. s # <<>> => 1 \in DOMAIN s
  BY <1>1, EmptySeq
<1> QED BY <1>2 DEF ToSet

\* A vector that is not in the store is on no list and has none.
LEMMA AbsentUntouched ==
  ASSUME Inv, NEW n \in Node \ ToSet(order), NEW l \in Layer
  PROVE  Untouched(n, l)
<1>1. levels[n] = -1 /\ ~(l <= -1)
  BY CallerAssumption DEF Inv, TypeOK, StoreOK, Layer
<1>2. links[n][l] \in Seq(Node) /\ ToSet(links[n][l]) = {}
  BY <1>1 DEF Inv, TypeOK, LinksStayOnLayer, Targets
<1>3. links[n][l] = <<>>
  BY <1>2, EmptyList
<1>4. \A x \in Node : n \notin Targets(x, l)
  BY <1>1 DEF Inv, LinksStayOnLayer
<1> QED BY <1>3, <1>4 DEF Untouched

\* Changing the lists of one layer leaves the others untouched.
LEMMA UntouchedElsewhere ==
  ASSUME NEW n \in Node, NEW l \in Layer, Untouched(n, l),
         \A x \in Node : links'[x][l] = links[x][l]
  PROVE  Untouched(n, l)'
BY DEF Untouched, Targets

LEMMA LayerInt == ASSUME Inv PROVE layer \in Layer /\ layer \in Nat /\ Layer \subseteq Nat
BY LayerType DEF Inv, TypeOK

LEMMA NewExpand == ASSUME Inv, NewInv, Expand PROVE NewInv'
<1>1. PICK c \in frontier : visited' = visited \union Fresh(c)
  BY DEF Expand
<1>2. UNCHANGED <<links, task, pc, layer>> /\ c \in Node /\ pc = "search" /\ layer \in Layer
  BY <1>1 DEF Expand, graphVars, Inv, TypeOK
<1>3. task.kind = "insert" => task.target \notin Fresh(c)
  BY <1>2 DEF NewInv, Unconnected, Untouched, Fresh
<1> QED BY <1>1, <1>2, <1>3 DEF NewInv, Unconnected, Untouched, Targets

LEMMA NewLayerDown ==
  ASSUME Inv, NewInv, pc # "idle", BeginLayer(task, layer - 1, found),
         UNCHANGED <<links, task>>
  PROVE  NewInv'
<1>1. layer' = layer - 1 /\ visited' = found /\ found \subseteq visited
  BY LayerBegins DEF Inv, SearchOK
<1>2. \A l \in Layer : Unconnected(l)' => Unconnected(l)
  BY <1>1, LayerInt DEF Unconnected
<1> QED BY <1>1, <1>2 DEF NewInv, Untouched, Targets

LEMMA NewConnect == ASSUME Inv, NewInv, Connect PROVE NewInv'
<1>1. PICK selected \in Selected(MaxLinks(layer)) :
        links' = WithEdges(task.target, layer, selected)
  BY DEF Connect
<1>2. /\ UNCHANGED <<visited, task, layer>> /\ pc = "search" /\ pc' = "prune"
      /\ task.target \in Node
  BY DEF Connect, searchVars, Inv, SearchOK
<1>3. links \in [Node -> [Layer -> Seq(Node)]]
  BY DEF Inv, TypeOK
<1>4. \A l \in Layer \ {layer} : \A x \in Node : links'[x][l] = links[x][l]
  BY <1>1, <1>3 DEF WithEdges
<1>5. \A l \in Layer : Unconnected(l)' => l # layer /\ Unconnected(l)
  BY <1>2, LayerInt DEF Unconnected
<1> QED BY <1>2, <1>4, <1>5, UntouchedElsewhere DEF NewInv

LEMMA NewPrune == ASSUME Inv, NewInv, Prune PROVE NewInv'
<1>1. PICK nb, list : links' = [links EXCEPT ![nb][layer] = list]
  BY DEF Prune
<1>2. /\ UNCHANGED <<visited, task, layer, pc>> /\ pc = "prune"
      /\ task.target \in Node
  BY DEF Prune, searchVars, Inv, SearchOK
<1>3. links \in [Node -> [Layer -> Seq(Node)]]
  BY DEF Inv, TypeOK
<1>4. \A l \in Layer \ {layer} : \A x \in Node : links'[x][l] = links[x][l]
  BY <1>1, <1>3
<1>5. \A l \in Layer : Unconnected(l)' => l # layer /\ Unconnected(l)
  BY <1>2, LayerInt DEF Unconnected
<1> QED BY <1>2, <1>4, <1>5, UntouchedElsewhere DEF NewInv

LEMMA NewBegins ==
  ASSUME Inv, NewInv, CallInv, pc = "idle", NEW n \in Node \ ToSet(order), NEW level \in Layer,
         BeginInsert(n, level)
  PROVE  NewInv'
<1>1. UNCHANGED links
  BY DEF BeginInsert
<1>2. CASE entry = NoEntry
  BY <1>2 DEF BeginInsert, NewInv, CallInv, NoTask
<1>3. CASE entry # NoEntry
  <2>1. /\ task'.target = n /\ BeginLayer(task', entry.level, {entry.id})
    BY <1>3 DEF BeginInsert, NoTask
  <2>2. visited' = {entry.id}
    BY <2>1, LayerBegins
  <2>3. entry.id # n
    BY <1>3 DEF Inv, EntryOK
  <2>4. \A l \in Layer : Untouched(n, l)'
    BY <1>1, AbsentUntouched DEF Untouched, Targets
  <2> QED BY <2>1, <2>2, <2>3, <2>4 DEF NewInv
<1> QED BY <1>2, <1>3

\* No other step is a step of an insertion.
LEMMA InsertionSteps ==
  ASSUME Inv, CallInv,
         Search \/ SearchFiltered \/ Answer \/ Skip \/ EndCompact
         \/ RemoveVector \/ RestoreVector \/ BeginCompact
  PROVE  task'.kind # "insert"
<1>1. CASE Search \/ SearchFiltered
  <2>1. PICK kind \in {"plain", "filtered"}, q \in Node, k \in 1..MaxK,
            accepts \in Filters \cup {Node} :
          BeginQuery(kind, q, k, accepts) /\ pc = "idle"
    BY <1>1 DEF Search, SearchFiltered, Route
  <2> QED BY <2>1 DEF BeginQuery, CallInv, NoTask
<1>2. CASE Answer
  BY <1>2 DEF Answer, Finish, NoTask
<1>3. CASE Skip \/ EndCompact \/ RemoveVector \/ RestoreVector \/ BeginCompact
  BY <1>3 DEF Skip, EndCompact, RemoveVector, RestoreVector, BeginCompact, CallInv, NoTask
<1> QED BY <1>1, <1>2, <1>3

\* The vector a call of BeginInsert inserts was not in the store.
LEMMA InsertsAbsent ==
  ASSUME Inv, Insert \/ Reinsert
  PROVE  /\ pc = "idle"
         /\ \E n \in Node \ ToSet(order), level \in Layer : BeginInsert(n, level)
<1>1. CASE Insert
  BY <1>1 DEF Insert
<1>2. CASE Reinsert
  <2>1. PICK level \in Layer : BeginInsert(old.order[next], level)
    BY <1>2 DEF Reinsert
  <2>2. /\ next \in DOMAIN old.order /\ old.order \in Seq(Node) /\ next # 0
    BY <1>2 DEF Reinsert, Inv, TypeOK
  <2>3. old.order[next] \in Node \ ToSet(order)
    BY <2>2 DEF Inv, RebuildOK, IsInjective
  <2> QED BY <1>2, <2>1, <2>3 DEF Reinsert
<1> QED BY <1>1, <1>2

LEMMA NewStep == ASSUME Inv, CallInv, NewInv, [Next]_vars PROVE NewInv'
<1>1. CASE Expand
  BY <1>1, NewExpand
<1>2. CASE Descend
  BY <1>2, NewLayerDown DEF Descend, graphVars
<1>3. CASE Connect
  BY <1>3, NewConnect
<1>4. CASE Prune
  BY <1>4, NewPrune
<1>5. CASE NextLayer
  <2>1. CASE layer > 0
    BY <1>5, <2>1, NewLayerDown DEF NextLayer
  <2>2. CASE ~(layer > 0)
    BY <1>5, <2>2 DEF NextLayer, Finish, NewInv, NoTask
  <2> QED BY <2>1, <2>2
<1>6. CASE Insert \/ Reinsert
  BY <1>6, InsertsAbsent, NewBegins
<1>7. CASE Search \/ SearchFiltered \/ Answer \/ Skip \/ EndCompact
             \/ RemoveVector \/ RestoreVector \/ BeginCompact
  BY <1>7, InsertionSteps DEF NewInv
<1>8. CASE UNCHANGED vars
  BY <1>8 DEF vars, graphVars, searchVars, NewInv, Unconnected, Untouched, Targets
<1> QED BY <1>1, <1>2, <1>3, <1>4, <1>5, <1>6, <1>7, <1>8 DEF Next, Run, Call

-----------------------------------------------------------------------------
(* No list repeats a vector, and none grows by more than one               *)

\* With extended candidates the heuristic may be offered a vector twice.
Plain == ~(UseHeuristic /\ ExtendCandidates)

ListInv ==
  /\ NoDuplicates /\ PruneSeesOneExtra
  /\ pc = "prune" => IsInjective(pending)

\* What insertion selects without extension: some of the results, each once.
LEMMA PlainSelected ==
  ASSUME Inv, Plain, pc = "search", NEW m \in Nat, NEW selected \in Selected(m)
  PROVE  /\ selected \in Seq(Node) /\ Len(selected) <= m /\ IsInjective(selected)
         /\ ToSet(selected) \subseteq found
<1> DEFINE edges == [c \in found |-> c]
<1>1. DOMAIN edges = found /\ \A c \in found : edges[c] = c
  OBVIOUS
<1>2. selected \in Selections(task.target, edges, m, UseHeuristic)
  BY DEF Selected, Plain
<1> HIDE DEF edges
<1>3. found \subseteq Node /\ task.target \in Node
  BY DEF Inv, TypeOK, SearchOK
<1>4. \A d \in DOMAIN edges : edges[d] \in Node
  BY <1>1, <1>3
<1>5. EdgeList(edges)
  <2>1. DOMAIN edges \subseteq Int
    BY <1>1, <1>3, NodeAssumption
  <2> QED BY <1>4, <2>1 DEF EdgeList
<1>6. DrawnFrom(selected, edges, m)
  BY <1>2, <1>4, SelectionsDrawn
<1>7. PICK pick : Draws(selected, edges, pick)
  BY <1>2, <1>3, <1>5, SelectionDraws
<1>8. IsInjective(selected)
  BY <1>1, <1>7 DEF Draws, IsInjective
<1>9. ToSet(selected) \subseteq found
  BY <1>1, <1>6 DEF DrawnFrom, ToSet
<1> QED BY <1>6, <1>8, <1>9 DEF DrawnFrom

\* Pass 1 when no neighbour was selected twice.
LEMMA EdgesExact ==
  ASSUME links \in [Node -> [Layer -> Seq(Node)]], NEW n \in Node, NEW l \in Layer,
         NEW selected \in Seq(Node), IsInjective(selected), n \notin ToSet(selected),
         NEW x \in Node, NEW k \in Layer
  PROVE  WithEdges(n, l, selected)[x][k] =
           IF k # l THEN links[x][k]
           ELSE IF x = n THEN links[x][k] \o selected
           ELSE IF x \in ToSet(selected) THEN Append(links[x][k], n)
           ELSE links[x][k]
<1> DEFINE at == {j \in DOMAIN selected : selected[j] = x}
           copies == [i \in 1..Cardinality(at) |-> n]
<1>1. WithEdges(n, l, selected)[x][k] =
        IF k # l THEN links[x][k]
        ELSE IF x = n THEN links[x][k] \o selected ELSE links[x][k] \o copies
  BY DEF WithEdges
<1>2. CASE x \in ToSet(selected)
  <2>1. PICK j \in DOMAIN selected : selected[j] = x
    BY <1>2 DEF ToSet
  <2>2. at = {j}
    BY <2>1 DEF IsInjective
  <2>3. Cardinality(at) = 1
    BY <2>2, FS_Singleton
  <2> HIDE DEF at
  <2>4. copies = <<n>>
    BY <2>3
  <2> HIDE DEF copies
  <2>5. links[x][k] \o <<n>> = Append(links[x][k], n)
    <3>1. links[x][k] \in Seq(Node)
      OBVIOUS
    <3> QED BY <3>1, AppendIsConcat
  <2>6. x # n
    BY <1>2
  <2> QED BY <1>1, <1>2, <2>4, <2>5, <2>6
<1>3. CASE x \notin ToSet(selected)
  <2>1. at = {}
    BY <1>3 DEF ToSet
  <2>2. Cardinality(at) = 0
    BY <2>1, FS_EmptySet
  <2> HIDE DEF at
  <2>3. copies = <<>>
    BY <2>2
  <2> HIDE DEF copies
  <2>4. links[x][k] \o <<>> = links[x][k]
    <3>1. links[x][k] \in Seq(Node)
      OBVIOUS
    <3> QED BY <3>1, ConcatEmptySeq
  <2> QED BY <1>1, <1>3, <2>3, <2>4
<1> QED BY <1>2, <1>3

\* What ListInv asks of one list, with `extra` entries allowed over the limit.
ListOK(list, x, l, extra) ==
  IsInjective(list) /\ x \notin ToSet(list) /\ Len(list) <= MaxLinks(l) + extra

Extra(x, l) == IF pc = "prune" /\ layer = l /\ x \in ToSet(pending) THEN 1 ELSE 0

LEMMA ListMeans ==
  (NoDuplicates /\ PruneSeesOneExtra)
    <=> \A x \in Node, l \in Layer : ListOK(links[x][l], x, l, Extra(x, l))
BY DEF NoDuplicates, PruneSeesOneExtra, ListOK, Extra, Targets

LEMMA ListConnect ==
  ASSUME Inv, Plain, NewInv, ListInv, Connect PROVE ListInv'
<1> DEFINE n == task.target
<1>1. PICK selected \in Selected(MaxLinks(layer)) :
        links' = WithEdges(n, layer, selected) /\ pending' = selected
  BY DEF Connect
<1>2. /\ n \in Node /\ layer \in Layer /\ MaxLinks(layer) \in Nat /\ pc = "search"
      /\ pc' = "prune" /\ layer' = layer /\ task.kind = "insert"
      /\ links \in [Node -> [Layer -> Seq(Node)]]
  BY LimitType DEF Connect, Connects, Inv, SearchOK, TypeOK
<1>3. /\ selected \in Seq(Node) /\ Len(selected) <= MaxLinks(layer) /\ IsInjective(selected)
      /\ ToSet(selected) \subseteq found
  BY <1>1, <1>2, PlainSelected
<1>4. n \notin ToSet(selected) /\ Untouched(n, layer)
  BY <1>2, <1>3 DEF NewInv, Unconnected, Inv, SearchOK
<1> HIDE DEF n
<1>5. ASSUME NEW x \in Node, NEW l \in Layer
      PROVE  ListOK(links'[x][l], x, l, Extra(x, l)')
  <2> DEFINE list == links[x][l]
  <2>1. /\ list \in Seq(Node) /\ Len(list) \in Nat /\ MaxLinks(l) \in Nat
        /\ ListOK(list, x, l, 0)
    <3>1. list \in Seq(Node)
      BY <1>2
    <3>2. ListOK(list, x, l, Extra(x, l)) /\ Extra(x, l) = 0
      BY <1>2, ListMeans DEF ListInv, Extra
    <3> HIDE DEF list
    <3> QED BY <3>1, <3>2, LenProperties, LimitType
  <2>2. links'[x][l] = IF l # layer THEN list
                       ELSE IF x = n THEN list \o selected
                       ELSE IF x \in ToSet(selected) THEN Append(list, n) ELSE list
    BY <1>1, <1>2, <1>3, <1>4, EdgesExact
  <2>3. Extra(x, l)' = IF layer = l /\ x \in ToSet(selected) THEN 1 ELSE 0
    BY <1>1, <1>2 DEF Extra
  <2>4. l = layer => /\ n \notin ToSet(list)
                     /\ x = n => list = <<>>
    BY <1>4 DEF Untouched, Targets
  <2> HIDE DEF list
  <2>5. CASE l = layer /\ x = n
    <3>1. list \o selected = selected
      BY <1>3, <2>4, <2>5, ConcatEmptySeq
    <3> QED BY <1>3, <1>4, <2>2, <2>3, <2>5, <3>1, LimitType DEF ListOK
  <2>6. CASE l = layer /\ x # n /\ x \in ToSet(selected)
    <3>1. /\ Len(Append(list, n)) = Len(list) + 1 /\ IsInjective(Append(list, n))
          /\ ToSet(Append(list, n)) = ToSet(list) \cup {n}
      BY <1>2, <2>1, <2>4, <2>6, AppendSet DEF ListOK
    <3>2. Len(Append(list, n)) <= MaxLinks(l) + 1 /\ x \notin ToSet(Append(list, n))
      BY <2>1, <2>6, <3>1 DEF ListOK
    <3>3. links'[x][l] = Append(list, n) /\ Extra(x, l)' = 1
      BY <2>2, <2>3, <2>6
    <3> QED BY <3>1, <3>2, <3>3 DEF ListOK
  <2>7. CASE l # layer \/ (x # n /\ x \notin ToSet(selected))
    <3>1. links'[x][l] = list /\ Extra(x, l)' = 0
      BY <2>2, <2>3, <2>7
    <3> QED BY <2>1, <3>1
  <2> QED BY <2>5, <2>6, <2>7
<1>6. (NoDuplicates /\ PruneSeesOneExtra)'
  BY <1>5, ListMeans DEF NoDuplicates, PruneSeesOneExtra, ListOK, Extra, Targets
<1> QED BY <1>1, <1>3, <1>6 DEF ListInv

LEMMA ListPrune == ASSUME Inv, ListInv, Prune PROVE ListInv'
<1> DEFINE nb == Head(pending)
<1>1. /\ pending \in Seq(Node) /\ pending # <<>> /\ layer \in Layer /\ pc = "prune"
      /\ IsInjective(pending) /\ UNCHANGED <<pc, layer>> /\ pending' = Tail(pending)
      /\ links \in [Node -> [Layer -> Seq(Node)]]
  BY DEF Inv, TypeOK, Prune, ListInv
<1>2. nb \in Node /\ Tail(pending) \in Seq(Node)
  BY <1>1, HeadTailElements
<1>3. /\ \A i \in DOMAIN pending : \/ pending[i] = nb
                                  \/ \E j \in DOMAIN Tail(pending) : pending[i] = Tail(pending)[j]
      /\ IsInjective(Tail(pending))
      /\ \A j \in DOMAIN Tail(pending) : Tail(pending)[j] # nb
  BY <1>1, HeadOrTail
<1> HIDE DEF nb
<1>4. nb \notin ToSet(Tail(pending)) /\ ToSet(pending) \subseteq ToSet(Tail(pending)) \cup {nb}
  BY <1>3 DEF ToSet
<1> DEFINE full == links[nb][layer]
           m == MaxLinks(layer)
<1>5. PICK list \in Pruned(nb, full, m, PruneHeuristic) :
        links' = [links EXCEPT ![nb][layer] = list]
  BY DEF Prune, nb
<1>6. full \in Seq(Node) /\ m \in Nat /\ ListOK(full, nb, layer, Extra(nb, layer))
  BY <1>1, <1>2, LimitType, ListMeans DEF ListInv
<1>7. /\ \A x \in Node, l \in Layer : x # nb \/ l # layer => links'[x][l] = links[x][l]
      /\ links'[nb][layer] = list
  BY <1>1, <1>2, <1>5
<1> HIDE DEF full
<1>8. ListOK(list, nb, layer, 0)
  <2> HIDE DEF m
  <2>1. DrawnFrom(list, full, m)
    BY <1>5, <1>6, PrunedDrawn
  <2>2. PICK pick : Draws(list, full, pick)
    BY <1>2, <1>5, <1>6, PrunedDraws
  <2>3. IsInjective(list) /\ nb \notin ToSet(list)
    BY <1>6, <2>2 DEF ListOK, Draws, IsInjective, ToSet
  <2>4. Len(list) <= m + 0
    BY <1>6, <2>1, LenProperties DEF DrawnFrom
  <2> QED BY <2>3, <2>4 DEF ListOK, m
<1> HIDE DEF m
<1>9. ASSUME NEW x \in Node, NEW l \in Layer
      PROVE  ListOK(links'[x][l], x, l, Extra(x, l)')
  <2>1. CASE x = nb /\ l = layer
    <3>1. Extra(x, l)' = 0
      BY <1>1, <1>4, <2>1 DEF Extra
    <3> QED BY <1>7, <1>8, <2>1, <3>1
  <2>2. CASE ~(x = nb /\ l = layer)
    <3>1. Extra(x, l)' = Extra(x, l)
      <4>1. x \in ToSet(Tail(pending)) => x \in ToSet(pending)
        <5>1. \A j \in DOMAIN Tail(pending) : \E i \in DOMAIN pending : Tail(pending)[j] = pending[i]
          BY <1>1, HeadTailElements
        <5> QED BY <5>1 DEF ToSet
      <4> QED BY <1>1, <1>4, <2>2, <4>1 DEF Extra
    <3> QED BY <1>7, <2>2, <3>1, ListMeans DEF ListInv
  <2> QED BY <2>1, <2>2
<1>10. (NoDuplicates /\ PruneSeesOneExtra)'
  BY <1>9 DEF NoDuplicates, PruneSeesOneExtra, ListOK, Extra, Targets
<1> QED BY <1>1, <1>3, <1>10 DEF ListInv

\* A step that leaves the lists alone, with nothing left to prune.
LEMMA ListStays ==
  ASSUME ListInv, UNCHANGED links, pc # "prune" \/ pending = <<>>, pc' # "prune"
  PROVE  ListInv'
<1>1. \A x \in Node, l \in Layer : Extra(x, l) = 0 /\ Extra(x, l)' = 0
  BY DEF Extra, ToSet
<1>2. \A x \in Node, l \in Layer : ListOK(links'[x][l], x, l, Extra(x, l)')
  BY <1>1, ListMeans DEF ListInv
<1>3. (NoDuplicates /\ PruneSeesOneExtra)'
  BY <1>2 DEF NoDuplicates, PruneSeesOneExtra, ListOK, Extra, Targets
<1> QED BY <1>3 DEF ListInv

LEMMA ListEmpty ==
  ASSUME NEW x \in Node, NEW l \in Layer, NEW extra \in {0, 1}
  PROVE  ListOK(<<>>, x, l, extra)
<1>1. IsInjective(<<>>) /\ ToSet(<<>>) = {} /\ Len(<<>>) = 0
  BY DEF IsInjective, ToSet
<1>2. MaxLinks(l) \in Nat
  BY LimitType
<1> QED BY <1>1, <1>2 DEF ListOK

LEMMA ListStep ==
  ASSUME Inv, Plain, CallInv, NewInv, ListInv, [Next]_vars PROVE ListInv'
<1>1. CASE Connect
  BY <1>1, ListConnect
<1>2. CASE Prune
  BY <1>2, ListPrune
<1>3. CASE Expand \/ Descend \/ NextLayer \/ Answer \/ Skip \/ EndCompact
             \/ Insert \/ Reinsert \/ Search \/ SearchFiltered \/ RemoveVector \/ RestoreVector
  <2>1. UNCHANGED links /\ (pc # "prune" \/ pending = <<>>) /\ pc' # "prune"
    <3>1. CASE Expand \/ Descend \/ NextLayer \/ Answer
      BY <1>3, <3>1 DEF Expand, Descend, NextLayer, Answer, Finish, graphVars
    <3>2. CASE Skip \/ EndCompact \/ RemoveVector \/ RestoreVector
      BY <1>3, <3>2 DEF Skip, EndCompact, RemoveVector, RestoreVector, graphVars
    <3>3. CASE Insert \/ Reinsert
      BY <3>3 DEF Insert, Reinsert, BeginInsert
    <3>4. CASE Search \/ SearchFiltered
      BY <3>4 DEF Search, SearchFiltered, BeginQuery, graphVars
    <3> QED BY <1>3, <3>1, <3>2, <3>3, <3>4
  <2> QED BY <2>1, ListStays
<1>4. CASE BeginCompact
  <2>1. links' = NoLinks /\ pc' = "idle"
    BY <1>4 DEF BeginCompact
  <2>2. \A x \in Node, l \in Layer : links'[x][l] = <<>>
    BY <2>1 DEF NoLinks
  <2>3. \A x \in Node, l \in Layer : ListOK(links'[x][l], x, l, Extra(x, l)')
    BY <2>2, ListEmpty DEF Extra
  <2>4. (NoDuplicates /\ PruneSeesOneExtra)'
    BY <2>3 DEF NoDuplicates, PruneSeesOneExtra, ListOK, Extra, Targets
  <2> QED BY <2>1, <2>4 DEF ListInv
<1>5. CASE UNCHANGED vars
  BY <1>5 DEF vars, graphVars, ListInv, NoDuplicates, PruneSeesOneExtra, Targets
<1> QED BY <1>1, <1>2, <1>3, <1>4, <1>5 DEF Next, Run, Call

LEMMA ListInit == Init => NewInv /\ ListInv
<1> SUFFICES ASSUME Init PROVE NewInv /\ ListInv OBVIOUS
<1>1. \A x \in Node, l \in Layer : links[x][l] = <<>>
  BY DEF Init, NoLinks
<1>2. \A x \in Node, l \in Layer : ListOK(links[x][l], x, l, Extra(x, l))
  BY <1>1, ListEmpty DEF Extra
<1> QED BY <1>2, ListMeans DEF Init, NewInv, ListInv, NoTask

\* Everything known so far of the operation that runs.
LEMMA NewKept == Spec => [](Inv /\ CallInv /\ NewInv)
<1> DEFINE I == Inv /\ CallInv
<1>1. Init => NewInv
  BY ListInit
<1>2. I /\ NewInv /\ [Next]_vars => NewInv'
  BY NewStep
<1>3. Spec => []I
  BY CallsKnown
<1>4. Spec => []NewInv
  <2> HIDE DEF I
  <2> QED BY <1>1, <1>2, <1>3, PTL DEF Spec
<1> QED BY <1>3, <1>4, PTL

LEMMA ListsKept == ASSUME Plain PROVE Spec => []ListInv
<1> DEFINE I == Inv /\ CallInv /\ NewInv
<1>1. Init => ListInv
  BY ListInit
<1>2. I /\ ListInv /\ [Next]_vars => ListInv'
  BY ListStep
<1>3. Spec => []I
  BY NewKept
<1> HIDE DEF I
<1> QED BY <1>1, <1>2, <1>3, PTL DEF Spec

\* Without extended candidates no list names a vector twice or its owner: the
\* vector being inserted is met by none of its own searches, so its reverse
\* edges go to lists that do not name it yet.
THEOREM ListedOnce == ASSUME Plain PROVE Spec => []NoDuplicates
<1>1. ListInv => NoDuplicates
  BY DEF ListInv
<1> QED BY <1>1, ListsKept, PTL

\* Without extended candidates a list that pruning is called on is one over
\* its limit, as the code of the heuristic assumes, and no other is over it.
THEOREM OneOverAtMost == ASSUME Plain PROVE Spec => []PruneSeesOneExtra
<1>1. ListInv => PruneSeesOneExtra
  BY DEF ListInv
<1> QED BY <1>1, ListsKept, PTL

-----------------------------------------------------------------------------
(* On a layer of two vectors or more each has a link                       *)

\* A search keeps one result at least, and as many as its caller asked for.
BeamOK ==
  pc # "idle" =>
    /\ task.beam \in Nat \ {0}
    /\ task.kind # "insert" => task.level = 0 /\ task.k \in Nat \ {0} /\ task.k <= task.beam

LEMMA BeamStep == ASSUME Inv, BeamOK, [Next]_vars PROVE BeamOK'
<1>1. CASE Insert \/ Reinsert
  <2>1. PICK n, level : BeginInsert(n, level)
    BY <1>1 DEF Insert, Reinsert
  <2>2. pc = "idle"
    BY <1>1 DEF Insert, Reinsert
  <2>3. EfConstruction \in Nat \ {0}
    BY ConfigAssumption
  <2> QED BY <2>1, <2>2, <2>3 DEF BeginInsert, NoTask, BeamOK
<1>2. CASE Search \/ SearchFiltered
  <2>1. PICK kind \in {"plain", "filtered"}, q \in Node, k \in 1..MaxK,
            accepts \in Filters \cup {Node} :
          BeginQuery(kind, q, k, accepts)
    BY <1>2 DEF Search, SearchFiltered, Route
  <2>2. pc = "idle"
    BY <1>2 DEF Search, SearchFiltered
  <2>3. Greatest(EfSearch, k) \in Nat \ {0} /\ k <= Greatest(EfSearch, k) /\ k \in Nat \ {0}
    BY CallerAssumption DEF Greatest
  <2> QED BY <2>1, <2>2, <2>3 DEF BeginQuery, BeamOK
<1>3. CASE Expand \/ Descend \/ Connect \/ Prune \/ NextLayer \/ Answer
  BY <1>3 DEF Expand, Descend, Connect, Prune, NextLayer, Answer, Finish, BeamOK
<1>4. CASE Skip \/ EndCompact \/ RemoveVector \/ RestoreVector \/ BeginCompact \/ UNCHANGED vars
  BY <1>4 DEF Skip, EndCompact, RemoveVector, RestoreVector, BeginCompact, vars, BeamOK
<1> QED BY <1>1, <1>2, <1>3, <1>4 DEF Next, Run, Call

LEMMA BeamKept == Spec => []BeamOK
<1>1. Init => BeamOK
  BY DEF Init, BeamOK
<1>2. Inv /\ BeamOK /\ [Next]_vars => BeamOK'
  BY BeamStep
<1> QED BY <1>1, <1>2, Invariance, PTL DEF Spec

LEMMA WidthPositive ==
  ASSUME NEW t, NEW l, t.beam \in Nat \ {0} PROVE Width(t, l) \in Nat \ {0}
BY DEF Width

\* Every vector that is linked is on the entry point's layer or below.
LEMMA EntryIsTop ==
  ASSUME Inv, CallInv, EntryAt(Linked), NEW x \in Node, levels[x] \in Layer,
         task.kind = "insert" => x # task.target
  PROVE  /\ entry # NoEntry /\ entry.level \in Layer
         /\ levels[x] <= entry.level
<1>1. x \in ToSet(order) /\ order \in Seq(Node)
  BY DEF Inv, TypeOK, StoreOK
<1>2. PICK j \in DOMAIN order : order[j] = x
  BY <1>1 DEF ToSet
<1>3. \E i \in DOMAIN Linked : Linked[i] = x
  <2>1. CASE task.kind # "insert"
    BY <1>2, <2>1 DEF Linked
  <2>2. CASE task.kind = "insert"
    <3>1. order # <<>> /\ order[Len(order)] = task.target /\ Linked = Front(order)
      BY <2>2 DEF CallInv, Linked
    <3>2. /\ Len(order) \in Nat \ {0} /\ DOMAIN order = 1..Len(order)
          /\ DOMAIN Linked = 1..(Len(order) - 1)
          /\ \A i \in 1..(Len(order) - 1) : Linked[i] = order[i]
      BY <1>1, <3>1, FrontProperties
    <3>3. j # Len(order)
      BY <1>2, <2>2, <3>1
    <3> QED BY <1>2, <3>2, <3>3
  <2> QED BY <2>1, <2>2
<1>4. Linked # <<>>
  BY <1>3
<1>5. PICK i \in DOMAIN Linked :
        /\ IsFirstOfTop(Linked, levels, i)
        /\ entry = [id |-> Linked[i], level |-> levels[Linked[i]]]
  BY <1>4 DEF EntryAt
<1>6. levels[x] <= entry.level
  BY <1>3, <1>5 DEF IsFirstOfTop
<1>7. entry # NoEntry
  <2>1. Linked[i] \in Node /\ levels[Linked[i]] \in Layer
    <3>1. Linked[i] \in ToSet(order)
      <4>1. CASE task.kind # "insert"
        BY <1>5, <4>1 DEF Linked, ToSet
      <4>2. CASE task.kind = "insert"
        <5>1. order # <<>> /\ Linked = Front(order)
          BY <4>2 DEF CallInv, Linked
        <5>2. /\ Len(order) \in Nat \ {0} /\ DOMAIN order = 1..Len(order)
              /\ DOMAIN Linked = 1..(Len(order) - 1)
              /\ \A h \in 1..(Len(order) - 1) : Linked[h] = order[h]
          BY <1>1, <5>1, FrontProperties
        <5>3. i \in 1..(Len(order) - 1)
          BY <1>5, <5>2
        <5>4. i \in DOMAIN order /\ Linked[i] = order[i]
          BY <5>2, <5>3
        <5> QED BY <5>4 DEF ToSet
      <4> QED BY <4>1, <4>2
    <3>2. ToSet(order) \subseteq Node
      BY <1>1 DEF ToSet
    <3> QED BY <3>1, <3>2 DEF Inv, StoreOK
  <2> QED BY <1>5, <2>1, LayerType DEF NoEntry
<1>8. entry.level \in Layer
  BY <1>7 DEF Inv, TypeOK
<1> QED BY <1>6, <1>7, <1>8

\* What insertion selects, extended or not: something, and never itself.
LEMMA SelectedAnew ==
  ASSUME Inv, NewInv, pc = "search", task.kind = "insert", found # {},
         NEW m \in Nat \ {0}, NEW selected \in Selected(m)
  PROVE  selected # <<>> /\ task.target \notin ToSet(selected)
<1> DEFINE n == task.target
           Others == Node \ {n}
<1>1. n \in Node /\ layer \in Layer /\ found \subseteq Others
  BY DEF Inv, TypeOK, SearchOK, NewInv
<1>2. \A c \in found : /\ links[c][layer] \in Seq(Node)
                      /\ \A i \in DOMAIN links[c][layer] : links[c][layer][i] \in Others
  <2>1. Untouched(n, layer)
    BY <1>1 DEF NewInv, Unconnected
  <2>2. \A c \in found : links[c][layer] \in Seq(Node)
    BY <1>1 DEF Inv, TypeOK
  <2>3. \A c \in found : n \notin ToSet(links[c][layer])
    BY <1>1, <2>1 DEF Untouched, Targets
  <2> QED BY <2>2, <2>3 DEF ToSet
<1>3. \A x \in Others : x \in Nat
  BY NodeAssumption
<1> HIDE DEF n, Others
<1>4. ASSUME NEW edges, EdgeList(edges), DOMAIN edges # {},
             \A d \in DOMAIN edges : edges[d] \in Others,
             NEW pick \in DiversePicks(n, edges, m) \cup NearestPicks(n, edges, m),
             selected = [i \in DOMAIN pick |-> edges[pick[i]]]
      PROVE  selected # <<>> /\ n \notin ToSet(selected)
  <2>1. DOMAIN pick # {}
    BY <1>1, <1>4, PickNonempty
  <2>2. DOMAIN selected # {}
    BY <1>4, <2>1
  <2>3. \E size \in 0..m : pick \in [1..size -> DOMAIN edges]
    BY <1>1, <1>4, PickInjective DEF DistinctPlaces
  <2>4. \A i \in DOMAIN selected : selected[i] \in Others
    BY <1>4, <2>3
  <2> QED BY <2>2, <2>4 DEF ToSet, Others
<1>5. CASE UseHeuristic /\ ExtendCandidates
  <2> DEFINE pairs == found \X {0}
                 \union {p \in UNION {Offered(c) : c \in found} : links[p[1]][layer][p[2]] \notin found}
             place(p) == p[1] + p[2] * Cardinality(Node)
             node(p) == IF p[2] = 0 THEN p[1] ELSE links[p[1]][layer][p[2]]
  <2>1. Extended = [at \in {place(p) : p \in pairs} |-> node(CHOOSE p \in pairs : place(p) = at)]
    BY DEF Extended, Edges
  <2>2. ASSUME NEW p \in pairs PROVE node(p) \in Others /\ place(p) \in Int
    <3>1. Cardinality(Node) \in Nat
      BY NodeAssumption, FS_CardinalityType
    <3>2. p[1] \in Nat /\ p[2] \in Nat /\ node(p) \in Others
      <4>1. CASE p \in found \X {0}
        <5>1. p[1] \in found /\ p[2] = 0
          BY <4>1
        <5>2. p[1] \in Others
          BY <1>1, <5>1
        <5> QED BY <1>3, <5>1, <5>2
      <4>2. CASE p \notin found \X {0}
        <5>1. PICK c \in found : p \in Offered(c)
          BY <2>2, <4>2
        <5>2. PICK i \in DOMAIN links[c][layer] : p = <<c, i>>
          BY <5>1 DEF Offered
        <5>3. c \in Nat /\ i \in Nat \ {0}
          BY <1>1, <1>2, <1>3, <5>2
        <5> QED BY <1>2, <5>2, <5>3
      <4> QED BY <4>1, <4>2
    <3> QED BY <3>1, <3>2
  <2>3. pairs # {}
    <3>1. PICK c \in found : TRUE
      OBVIOUS
    <3>2. <<c, 0>> \in found \X {0}
      BY <3>1
    <3> QED BY <3>2
  <2> HIDE DEF pairs, place, node
  <2>4. ASSUME NEW at \in {place(p) : p \in pairs}
        PROVE  node(CHOOSE p \in pairs : place(p) = at) \in Others /\ at \in Int
    <3>1. \E p \in pairs : place(p) = at
      BY <2>4
    <3>2. (CHOOSE p \in pairs : place(p) = at) \in pairs
      BY <3>1
    <3> QED BY <2>2, <3>1, <3>2
  <2>5. DOMAIN Extended # {} /\ \A d \in DOMAIN Extended : Extended[d] \in Others /\ d \in Int
    BY <2>1, <2>3, <2>4
  <2>6. EdgeList(Extended)
    BY <2>5 DEF EdgeList, Others
  <2>7. selected \in ListsOf(Extended, DiversePicks(n, Extended, m))
    BY <1>5 DEF Selected, n
  <2>8. PICK pick \in DiversePicks(n, Extended, m) :
          selected = [i \in DOMAIN pick |-> Extended[pick[i]]]
    BY <2>7 DEF ListsOf
  <2> QED BY <1>4, <2>5, <2>6, <2>8 DEF n
<1>6. CASE ~(UseHeuristic /\ ExtendCandidates)
  <2> DEFINE edges == [c \in found |-> c]
  <2>1. DOMAIN edges = found /\ \A c \in found : edges[c] = c
    OBVIOUS
  <2>2. selected \in Selections(n, edges, m, UseHeuristic)
    BY <1>6 DEF Selected, n
  <2> HIDE DEF edges
  <2>3. \A d \in DOMAIN edges : edges[d] \in Others /\ d \in Int
    BY <1>1, <1>3, <2>1
  <2>4. EdgeList(edges)
    BY <2>3 DEF EdgeList, Others
  <2>5. PICK pick \in DiversePicks(n, edges, m) \cup NearestPicks(n, edges, m) :
          selected = [i \in DOMAIN pick |-> edges[pick[i]]]
    BY <2>2, SelectionsPick
  <2> QED BY <1>4, <2>1, <2>3, <2>4, <2>5 DEF n
<1> QED BY <1>5, <1>6

\* Pass 1 takes no entry off a list, and gives both ends of an edge one.
LEMMA EdgesKeep ==
  ASSUME links \in [Node -> [Layer -> Seq(Node)]], NEW n \in Node, NEW l \in Layer,
         NEW selected \in Seq(Node), selected # <<>>, NEW x \in Node,
         links[x][l] # <<>> \/ x = n \/ x \in ToSet(selected)
  PROVE  WithEdges(n, l, selected)[x][l] # <<>>
<1> DEFINE at == {j \in DOMAIN selected : selected[j] = x}
           added == IF x = n THEN selected ELSE [i \in 1..Cardinality(at) |-> n]
           list == links[x][l]
<1>1. WithEdges(n, l, selected)[x][l] = list \o added
  BY DEF WithEdges
<1>2. Cardinality(at) \in Nat /\ (x \in ToSet(selected) => Cardinality(at) # 0)
  <2>1. IsFiniteSet(1..Len(selected)) /\ at \subseteq 1..Len(selected)
    BY FS_Interval
  <2>2. Cardinality(at) \in Nat /\ IsFiniteSet(at)
    BY <2>1, FS_Subset, FS_CardinalityType
  <2>3. x \in ToSet(selected) => at # {}
    BY DEF ToSet
  <2> HIDE DEF at
  <2> QED BY <2>2, <2>3, FS_EmptySet
<1>3. added \in Seq(Node) /\ (x = n \/ x \in ToSet(selected) => added # <<>>)
  <2>1. CASE x = n
    BY <2>1
  <2>2. CASE x # n
    <3> DEFINE size == Cardinality(at)
    <3>1. added = [i \in 1..size |-> n] /\ size \in Nat /\ (x \in ToSet(selected) => size # 0)
      BY <1>2, <2>2
    <3> HIDE DEF size, added
    <3>2. [i \in 1..size |-> n] \in [1..size -> Node]
      OBVIOUS
    <3>3. added \in Seq(Node)
      BY <3>1, <3>2, SeqDef
    <3>4. size # 0 => 1 \in DOMAIN added
      BY <3>1
    <3>5. size # 0 => added # <<>>
      BY <3>4
    <3> QED BY <2>2, <3>1, <3>3, <3>5
  <2> QED BY <2>1, <2>2
<1>4. list \in Seq(Node)
  OBVIOUS
<1>5. list # <<>> \/ added # <<>>
  BY <1>3
<1> HIDE DEF added, list
<1>6. list \o added # <<>>
  BY <1>3, <1>4, <1>5, ConcatProperties, EmptySeq, LenProperties
<1> QED BY <1>1, <1>6

\* The vector being inserted, on a layer it is not connected on yet.
Exempt(x, l) == task.kind = "insert" /\ x = task.target /\ Unconnected(l)

LinkedOn(l) ==
  \A n, t \in {x \in Node : levels[x] >= l} :
    n # t /\ ~Exempt(n, l) /\ ~Exempt(t, l) => links[n][l] # <<>>

\* An unfiltered search has a result at all times.
LinkedInv ==
  /\ task.kind = "insert" => found # {}
  /\ \A l \in Layer : LinkedOn(l)

\* Whatever a layer's search begins with or adds, something is found.
LEMMA FoundBegins ==
  ASSUME NEW t, NEW l, NEW entries \in SUBSET Node, BeginLayer(t, l, entries),
         t.kind # "filtered", t.target \in Node, t.beam \in Nat \ {0}, entries # {}
  PROVE  found' # {}
<1>1. found' = Closest(t.target, entries, Width(t, l))
  BY DEF BeginLayer, Screened
<1> QED BY <1>1, WidthPositive, ClosestBest

LEMMA FoundExpands ==
  ASSUME Inv, BeamOK, Expand, task.kind = "insert", found # {}
  PROVE  found' # {}
<1>1. PICK c \in frontier :
        found' = Closest(task.target, found \union Screened(task, layer, Fresh(c)), Width(task, layer))
  BY DEF Expand
<1>2. c \in Node /\ layer \in Layer /\ found \subseteq Node /\ task.target \in Node
      /\ task.beam \in Nat \ {0}
  BY <1>1 DEF Inv, TypeOK, SearchOK, Expand, BeamOK
<1>3. Fresh(c) \subseteq Node
  <2>1. links[c][layer] \in Seq(Node)
    BY <1>2 DEF Inv, TypeOK
  <2> QED BY <2>1 DEF Fresh, Targets, ToSet
<1>4. found \union Screened(task, layer, Fresh(c)) \in SUBSET Node
  BY <1>2, <1>3 DEF Screened
<1> QED BY <1>1, <1>2, <1>4, WidthPositive, ClosestBest

\* Lists that are kept or grow, and no vector that loses its exemption.
LEMMA LinkedStays ==
  ASSUME NEW l \in Layer, LinkedOn(l), levels' = levels,
         \A x \in Node : links[x][l] # <<>> => links'[x][l] # <<>>,
         \A x \in Node : levels[x] >= l /\ Exempt(x, l) => Exempt(x, l)'
  PROVE  LinkedOn(l)'
BY DEF LinkedOn

LEMMA LinkedConnect ==
  ASSUME Inv, NewInv, LinkedInv, Connect PROVE LinkedInv'
<1> DEFINE n == task.target
<1>1. PICK selected \in Selected(MaxLinks(layer)) : links' = WithEdges(n, layer, selected)
  BY DEF Connect
<1>2. /\ n \in Node /\ layer \in Layer /\ MaxLinks(layer) \in Nat \ {0} /\ pc = "search"
      /\ pc' = "prune" /\ UNCHANGED <<layer, task, found, levels>> /\ task.kind = "insert"
      /\ links \in [Node -> [Layer -> Seq(Node)]] /\ found # {}
  BY ConfigAssumption DEF MaxLinks, Connect, Connects, searchVars, Inv, SearchOK, TypeOK, LinkedInv
<1>3. /\ selected \in Seq(Node) /\ \A i \in DOMAIN selected : layer <= levels[selected[i]]
      /\ selected # <<>> /\ n \notin ToSet(selected)
  BY <1>1, <1>2, SelectedOnLayer, SelectedAnew
<1>4. ASSUME NEW l \in Layer, l # layer PROVE LinkedOn(l)'
  <2>1. \A x \in Node : links'[x][l] = links[x][l]
    BY <1>1, <1>2, <1>4 DEF WithEdges
  <2>2. \A x \in Node : Exempt(x, l) => Exempt(x, l)'
    BY <1>2, <1>4 DEF Exempt, Unconnected
  <2> QED BY <1>2, <2>1, <2>2, LinkedStays DEF LinkedInv
<1>5. LinkedOn(layer)'
  <2>1. SUFFICES ASSUME NEW x \in Node, NEW t \in Node, levels[x] >= layer, levels[t] >= layer, x # t
                 PROVE  links'[x][layer] # <<>>
    BY <1>2 DEF LinkedOn
  <2>2. links[x][layer] # <<>> \/ x = n \/ x \in ToSet(selected)
    <3>1. ASSUME x # n, links[x][layer] = <<>>
          PROVE  x \in ToSet(selected)
      <4>1. \A u \in Node : levels[u] >= layer /\ u # n => u = x
        BY <1>2, <2>1, <3>1 DEF LinkedInv, LinkedOn, Exempt, n
      <4>2. 1 \in DOMAIN selected /\ selected[1] \in Node
        BY <1>3, LenProperties, EmptySeq, ElementOfSeq
      <4>3. selected[1] # n /\ layer <= levels[selected[1]] /\ selected[1] \in ToSet(selected)
        BY <1>3, <4>2 DEF ToSet
      <4>4. levels[selected[1]] >= layer
        BY <4>2, <4>3, LayerInt DEF Inv, TypeOK, Layer
      <4> QED BY <4>1, <4>2, <4>3, <4>4
    <3> QED BY <3>1
  <2> HIDE DEF n
  <2> QED BY <1>1, <1>2, <1>3, <2>2, EdgesKeep
<1>6. \A l \in Layer : LinkedOn(l)'
  <2> SUFFICES ASSUME NEW l \in Layer PROVE LinkedOn(l)'
    OBVIOUS
  <2>1. CASE l # layer
    BY <1>4, <2>1
  <2>2. CASE l = layer
    BY <1>2, <1>5, <2>2
  <2> QED BY <2>1, <2>2
<1> QED BY <1>2, <1>6 DEF LinkedInv

LEMMA LinkedPrune ==
  ASSUME Inv, LinkedInv, Prune PROVE LinkedInv'
<1> DEFINE nb == Head(pending)
           full == links[nb][layer]
           m == MaxLinks(layer)
<1>1. /\ pending \in Seq(Node) /\ pending # <<>> /\ layer \in Layer /\ pc = "prune"
      /\ UNCHANGED <<pc, layer, task, levels, found>> /\ m \in Nat \ {0}
      /\ links \in [Node -> [Layer -> Seq(Node)]]
  <2>1. pending \in Seq(Node) /\ layer \in Layer /\ links \in [Node -> [Layer -> Seq(Node)]]
    BY DEF Inv, TypeOK
  <2>2. m \in Nat \ {0}
    BY ConfigAssumption DEF MaxLinks
  <2>3. pending # <<>> /\ pc = "prune" /\ UNCHANGED <<pc, layer, task, levels, found>>
    BY DEF Prune, searchVars
  <2> QED BY <2>1, <2>2, <2>3
<1>2. nb \in Node
  BY <1>1, HeadTailElements
<1>3. PICK list \in Pruned(nb, full, m, PruneHeuristic) :
        links' = [links EXCEPT ![nb][layer] = list]
  BY DEF Prune
<1> HIDE DEF nb, m
<1>4. full # <<>> => list # <<>>
  <2>1. full \in Seq(Node)
    BY <1>1, <1>2
  <2> HIDE DEF full
  <2> QED BY <1>1, <1>2, <1>3, <2>1, PrunedNonempty
<1>5. \A l \in Layer, x \in Node : links[x][l] # <<>> => links'[x][l] # <<>>
  BY <1>1, <1>2, <1>3, <1>4
<1>6. \A l \in Layer, x \in Node : Exempt(x, l) => Exempt(x, l)'
  BY <1>1 DEF Exempt, Unconnected
<1>7. \A l \in Layer : LinkedOn(l)'
  BY <1>1, <1>5, <1>6, LinkedStays DEF LinkedInv
<1> QED BY <1>1, <1>7 DEF LinkedInv

\* One layer down: a layer that was not connected is above the vector.
LEMMA LinkedLayerDown ==
  ASSUME Inv, BeamOK, LinkedInv, pc # "idle", layer > 0, BeginLayer(task, layer - 1, found),
         UNCHANGED <<links, levels, task>>, pc' = "search",
         pc = "prune" \/ layer > task.level
  PROVE  LinkedInv'
<1>1. layer' = layer - 1 /\ layer \in Nat /\ Layer \subseteq Nat
  BY LayerBegins, LayerInt
<1>2. ASSUME NEW l \in Layer PROVE LinkedOn(l)'
  <2>1. l \in Nat
    BY <1>1
  <2>2. ASSUME NEW x \in Node, levels[x] >= l, Exempt(x, l) PROVE Exempt(x, l)'
    <3>1. levels[x] = task.level
      BY <2>2 DEF Exempt, Inv, SearchOK
    <3>2. ~(l = layer /\ pc = "search")
      <4>1. task.level \in Nat
        BY <1>1 DEF Inv, TypeOK
      <4> QED BY <1>1, <2>1, <2>2, <3>1, <4>1
    <3>3. l <= layer - 1
      BY <1>1, <2>1, <2>2, <3>2 DEF Exempt, Unconnected
    <3>4. Unconnected(l)'
      BY <1>1, <2>1, <3>3 DEF Unconnected
    <3> QED BY <2>2, <3>4 DEF Exempt
  <2> QED BY <2>2, LinkedStays DEF LinkedInv
<1>3. task.kind = "insert" => found' # {}
  BY FoundBegins DEF Inv, TypeOK, SearchOK, BeamOK, LinkedInv
<1> QED BY <1>2, <1>3 DEF LinkedInv

\* A vector enters the store: the layers above the entry point are its alone.
LEMMA LinkedBegins ==
  ASSUME Inv, CallInv, LinkedInv, EntryAt(Linked), pc = "idle",
         NEW n \in Node \ ToSet(order), NEW level \in Layer, BeginInsert(n, level)
  PROVE  LinkedInv'
<1>1. /\ levels' = [levels EXCEPT ![n] = level] /\ levels \in [Node -> Layer \cup {-1}]
      /\ UNCHANGED links /\ task.kind = "none" /\ Layer \subseteq Nat
  <2>1. levels \in [Node -> Layer \cup {-1}]
    BY DEF Inv, TypeOK
  <2>2. task.kind = "none"
    BY DEF CallInv, NoTask
  <2> QED BY <2>1, <2>2, LayerType DEF BeginInsert
<1>2. ASSUME NEW l \in Layer, NEW x \in Node, x # n, levels'[x] >= l
      PROVE  /\ levels[x] \in Layer /\ levels[x] >= l
             /\ entry # NoEntry /\ l \in Nat /\ entry.level \in Nat /\ l <= entry.level
  <2>1. l \in Nat /\ levels[x] >= l /\ levels[x] \in Layer
    BY <1>1, <1>2
  <2>2. entry # NoEntry /\ entry.level \in Nat /\ levels[x] <= entry.level /\ levels[x] \in Nat
    BY <1>1, <2>1, EntryIsTop
  <2> QED BY <2>1, <2>2
<1>3. ASSUME NEW l \in Layer PROVE LinkedOn(l)'
  <2> SUFFICES ASSUME NEW x \in Node, NEW t \in Node, levels'[x] >= l, levels'[t] >= l, x # t,
                      ~Exempt(x, l)', ~Exempt(t, l)'
               PROVE  links'[x][l] # <<>>
    BY DEF LinkedOn
  <2>1. CASE x # n /\ t # n
    <3>1. levels[x] >= l /\ levels[t] >= l
      BY <1>2, <2>1
    <3>2. ~Exempt(x, l) /\ ~Exempt(t, l)
      BY <1>1 DEF Exempt
    <3> QED BY <1>1, <3>1, <3>2 DEF LinkedInv, LinkedOn
  <2>2. CASE x = n \/ t = n
    <3>1. entry # NoEntry /\ l \in Nat /\ entry.level \in Nat /\ l <= entry.level
      BY <1>2, <2>2
    <3>2. /\ task'.kind = "insert" /\ task'.target = n /\ pc' = "search"
          /\ BeginLayer(task', entry.level, {entry.id})
      BY <3>1 DEF BeginInsert, NoTask
    <3>3. layer' = entry.level
      BY <3>2, LayerBegins
    <3>4. Unconnected(l)'
      BY <3>1, <3>2, <3>3 DEF Unconnected
    <3>5. Exempt(n, l)'
      BY <3>2, <3>4 DEF Exempt
    <3> QED BY <2>2, <3>5
  <2> QED BY <2>1, <2>2
<1>4. task'.kind = "insert" => found' # {}
  <2>1. CASE entry = NoEntry
    BY <1>1, <2>1 DEF BeginInsert
  <2>2. CASE entry # NoEntry
    <3> DEFINE t == [NoTask EXCEPT !.kind = "insert", !.target = n,
                                   !.level = level, !.beam = EfConstruction]
    <3>1. BeginLayer(t, entry.level, {entry.id})
      BY <2>2 DEF BeginInsert
    <3>2. t.kind # "filtered" /\ t.target \in Node /\ t.beam \in Nat \ {0}
      BY ConfigAssumption DEF NoTask
    <3>3. {entry.id} \in SUBSET Node /\ {entry.id} # {}
      BY <2>2 DEF Inv, TypeOK
    <3> HIDE DEF t
    <3> QED BY <3>1, <3>2, <3>3, FoundBegins
  <2> QED BY <2>1, <2>2
<1> QED BY <1>3, <1>4 DEF LinkedInv

LEMMA LinkedStep ==
  ASSUME Inv, CallInv, NewInv, BeamOK, EntryAt(Linked), LinkedInv, [Next]_vars
  PROVE  LinkedInv'
<1>1. CASE Expand
  <2>1. UNCHANGED <<links, levels, task, pc, layer>>
    BY <1>1 DEF Expand, graphVars
  <2>2. \A l \in Layer : LinkedOn(l)'
    BY <2>1, LinkedStays DEF LinkedInv, Exempt, Unconnected
  <2>3. task.kind = "insert" => found' # {}
    BY <1>1, FoundExpands DEF LinkedInv
  <2> QED BY <2>1, <2>2, <2>3 DEF LinkedInv
<1>2. CASE Descend
  <2>1. layer > 0
    BY <1>2, LayerInt DEF Descend, Inv, TypeOK, Layer
  <2> QED BY <1>2, <2>1, LinkedLayerDown DEF Descend, graphVars
<1>3. CASE Connect
  BY <1>3, LinkedConnect
<1>4. CASE Prune
  BY <1>4, LinkedPrune
<1>5. CASE NextLayer
  <2>1. CASE layer > 0
    BY <1>5, <2>1, LinkedLayerDown DEF NextLayer
  <2>2. CASE ~(layer > 0)
    <3>1. UNCHANGED <<links, levels>> /\ task' = NoTask /\ pc = "prune"
      BY <1>5, <2>2 DEF NextLayer, Finish
    <3>2. \A l \in Layer : ~Unconnected(l)
      BY <2>2, <3>1, LayerInt DEF Unconnected
    <3>3. \A l \in Layer : LinkedOn(l)'
      BY <3>1, <3>2, LinkedStays DEF LinkedInv, Exempt
    <3> QED BY <3>1, <3>3 DEF LinkedInv, NoTask
  <2> QED BY <2>1, <2>2
<1>6. CASE Insert \/ Reinsert
  BY <1>6, InsertsAbsent, LinkedBegins
<1>7. CASE Search \/ SearchFiltered \/ Answer \/ Skip \/ EndCompact \/ RemoveVector \/ RestoreVector
  <2>1. UNCHANGED <<links, levels>> /\ task.kind # "insert"
    <3>1. CASE Answer
      BY <3>1 DEF Answer, graphVars
    <3>2. CASE ~Answer
      <4>1. UNCHANGED <<links, levels>> /\ pc = "idle"
        BY <1>7, <3>2 DEF Search, SearchFiltered, Skip, EndCompact, RemoveVector, RestoreVector, graphVars
      <4> QED BY <4>1 DEF CallInv, NoTask
    <3> QED BY <3>1, <3>2
  <2>2. task'.kind # "insert"
    BY <1>7, InsertionSteps
  <2>3. \A l \in Layer : LinkedOn(l)'
    BY <2>1, LinkedStays DEF LinkedInv, Exempt
  <2> QED BY <2>2, <2>3 DEF LinkedInv
<1>8. CASE BeginCompact
  <2>1. levels' = [n \in Node |-> -1]
    BY <1>8 DEF BeginCompact
  <2>2. \A l \in Layer, x \in Node : ~(levels'[x] >= l)
    BY <2>1, CallerAssumption DEF Layer
  <2>3. \A l \in Layer : LinkedOn(l)'
    BY <2>2 DEF LinkedOn
  <2> QED BY <1>8, <2>3, InsertionSteps DEF LinkedInv
<1>9. CASE UNCHANGED vars
  BY <1>9 DEF vars, graphVars, searchVars, LinkedInv, LinkedOn, Exempt, Unconnected
<1> QED BY <1>1, <1>2, <1>3, <1>4, <1>5, <1>6, <1>7, <1>8, <1>9 DEF Next, Run, Call

\* On every layer that two vectors or more have, each of them keeps a link:
\* an insertion always finds and selects something, the first vector of a layer
\* is what the second one selects, and no pruning empties a list.
THEOREM NobodyIsolated == Spec => []UpperLayersLinked
<1> DEFINE I == Inv /\ CallInv /\ NewInv
           E == EntryAt(Linked)
<1>1. Init => LinkedInv
  <2> SUFFICES ASSUME Init PROVE LinkedInv OBVIOUS
  <2>1. \A l \in Layer, x \in Node : ~(levels[x] >= l)
    BY CallerAssumption DEF Init, Layer
  <2> QED BY <2>1 DEF Init, LinkedInv, LinkedOn, NoTask
<1>2. I /\ BeamOK /\ E /\ LinkedInv /\ [Next]_vars => LinkedInv'
  BY LinkedStep
<1>3. Spec => []I
  BY NewKept
<1>4. EntryIsFirstOfTop => E
  BY EntryMeans
<1>5. LinkedInv => UpperLayersLinked
  BY DEF LinkedInv, LinkedOn, UpperLayersLinked, Exempt
<1> HIDE DEF I, E
<1> QED BY <1>1, <1>2, <1>3, <1>4, <1>5, EntryStaysOnTop, BeamKept, PTL DEF Spec

-----------------------------------------------------------------------------
(* No neighbour of the best answer is closer                               *)

\* The eligible vectors that the search of a layer has visited.
Met == visited \cap Eligible(task)

\* On layer 0 the results are the closest of the eligible vectors visited, and
\* a visited vector that is not to be expanded either has been or lost to
\* every one of as many results as the beam holds.
BestInv ==
  pc = "search" /\ layer = 0 =>
    /\ found = Closest(task.target, Met, Width(task, 0))
    /\ \A v \in visited \ frontier :
         \/ Targets(v, 0) \subseteq visited
         \/ /\ Cardinality(Met) >= Width(task, 0)
            /\ \E r \in found : Closer(task.target, r, v)

LEMMA ScreenedEligible ==
  ASSUME NEW t, NEW S \in SUBSET Node
  PROVE  Screened(t, 0, S) = S \cap Eligible(t)
BY DEF Screened, Eligible

LEMMA BestBegins ==
  ASSUME NEW l, NEW entries \in SUBSET Node, BeginLayer(task', l, entries), Dead' = Dead
  PROVE  BestInv'
<1> SUFFICES ASSUME layer' = 0 PROVE BestInv'
  BY DEF BestInv
<1>1. /\ l = 0 /\ visited' = entries /\ frontier' = entries
      /\ found' = Closest(task'.target, entries \cap Eligible(task'), Width(task', 0))
  BY ScreenedEligible DEF BeginLayer
<1>2. Met' = entries \cap Eligible(task')
  BY <1>1 DEF Met, Eligible
<1>3. Width(task, 0)' = Width(task', 0)
  BY DEF Width
<1> QED BY <1>1, <1>2, <1>3 DEF BestInv

LEMMA BestExpand == ASSUME Inv, BeamOK, BestInv, Expand PROVE BestInv'
<1> SUFFICES ASSUME layer' = 0 PROVE BestInv'
  BY DEF BestInv
<1> DEFINE q == task.target
           new(c) == Fresh(c)
           width == Width(task, 0)
<1>1. PICK c \in frontier :
        /\ visited' = visited \union new(c)
        /\ found' = Closest(q, found \union Screened(task, layer, Fresh(c)), Width(task, layer))
        /\ frontier' = (frontier \ {c}) \union {x \in new(c) : Promising(task, x, found')}
  BY DEF Expand
<1>2. /\ layer = 0 /\ UNCHANGED <<graphVars, tombVars, task, pc, layer>> /\ pc = "search"
      /\ q \in Node /\ width \in Nat \ {0} /\ visited \subseteq Node
      /\ frontier \subseteq visited /\ found \subseteq visited
  BY WidthPositive DEF Expand, Inv, SearchOK, TypeOK, BeamOK
<1>3. new(c) \subseteq Node /\ new(c) = Targets(c, 0) \ visited
  <2>1. c \in Node /\ links[c][0] \in Seq(Node)
    BY <1>1, <1>2, LayerType DEF Inv, TypeOK
  <2> QED BY <1>2, <2>1 DEF Fresh, Targets, ToSet
<1>4. found' = Closest(q, found \cup (new(c) \cap Eligible(task)), width)
  BY <1>1, <1>2, <1>3, ScreenedEligible
<1>5. /\ Eligible(task)' = Eligible(task) /\ \A v \in Node : Targets(v, 0)' = Targets(v, 0)
      /\ task' = task
  BY <1>2 DEF Eligible, Dead, Targets, graphVars, tombVars
<1>6. /\ Met' = Met \cup (new(c) \cap Eligible(task)) /\ Met' \in SUBSET Node
      /\ Met \in SUBSET Met' /\ Met \in SUBSET Node /\ new(c) \cap Eligible(task) \in SUBSET Node
  BY <1>1, <1>2, <1>3, <1>5 DEF Met
<1>7. Width(task, 0)' = width
  BY <1>5 DEF Width
<1>8. found = Closest(q, Met, width)
  BY <1>2 DEF BestInv
<1> HIDE DEF q, new, width
<1>9. found' = Closest(q, Met', width)
  <2> DEFINE X == new(c) \cap Eligible(task)
  <2>1. /\ q \in Node /\ width \in Nat /\ Met \in SUBSET Node /\ X \in SUBSET Node
        /\ found' = Closest(q, found \cup X, width) /\ Met' = Met \cup X
    BY <1>2, <1>4, <1>6
  <2> HIDE DEF X
  <2>2. Closest(q, Closest(q, Met, width) \cup X, width) = Closest(q, Met \cup X, width)
    BY <2>1, ClosestAgain
  <2> QED BY <1>8, <2>1, <2>2
<1>10. found \subseteq Met /\ found' \in SUBSET Met' /\ found \subseteq Node /\ found' \subseteq Node
  BY <1>6, <1>8, <1>9, ClosestSubset
<1>11. Cardinality(Met) >= width => Cardinality(Met') >= width
  <2>1. Cardinality(Met) <= Cardinality(Met')
    BY <1>6, NodesWithin
  <2> QED BY <1>2, <1>6, <2>1, NodesCounted
<1>12. ASSUME NEW v \in visited' \ frontier'
       PROVE  \/ Targets(v, 0) \subseteq visited'
              \/ Cardinality(Met') >= width /\ \E r \in found' : Closer(q, r, v)
  <2>1. CASE v = c
    BY <1>1, <1>3, <2>1
  <2>2. CASE v \in new(c)
    <3>1. ~Promising(task, v, found')
      BY <1>1, <1>12, <2>2
    <3>2. ~(Cardinality(found') < width) /\ \A r \in found' : v # r /\ ~Closer(q, v, r)
      BY <1>2, <3>1 DEF Promising, width, q
    <3>3. found' # {}
      BY <1>2, <3>2, FS_EmptySet
    <3>4. PICK r \in found' : TRUE
      BY <3>3
    <3>5. Closer(q, r, v)
      BY <1>2, <1>3, <1>10, <2>2, <3>2, <3>4, CloserTotal
    <3>6. Cardinality(Met') >= width
      <4>1. Cardinality(found') <= Cardinality(Met')
        BY <1>6, <1>10, NodesWithin
      <4>2. Cardinality(found') \in Nat /\ Cardinality(Met') \in Nat
        BY <1>6, <1>10, NodesCounted
      <4> QED BY <1>2, <3>2, <4>1, <4>2
    <3> QED BY <3>4, <3>5, <3>6
  <2>3. CASE v \in visited /\ v # c
    <3>1. v \notin frontier
      BY <1>1, <1>12, <2>3
    <3>2. \/ Targets(v, 0) \subseteq visited
          \/ Cardinality(Met) >= width /\ \E b \in found : Closer(q, b, v)
      BY <1>2, <2>3, <3>1 DEF BestInv, q, width
    <3>3. ASSUME NEW b \in found, Closer(q, b, v) PROVE \E r \in found' : Closer(q, r, v)
      <4>1. PICK r \in found' : r = b \/ Closer(q, r, b)
        BY <1>2, <1>6, <1>9, <1>10, ClosestBest
      <4>2. r \in Node /\ b \in Node /\ v \in Node
        BY <1>2, <1>10, <2>3
      <4> QED BY <1>2, <3>3, <4>1, <4>2, CloserTransitive
    <3> QED BY <1>1, <1>11, <3>2, <3>3
  <2> QED BY <1>1, <1>12, <2>1, <2>2, <2>3
<1>13. visited' \subseteq Node
  BY <1>1, <1>2, <1>3
<1> QED BY <1>5, <1>7, <1>9, <1>12, <1>13 DEF BestInv, q

LEMMA BestStep == ASSUME Inv, BeamOK, BestInv, [Next]_vars PROVE BestInv'
<1>1. CASE Expand
  BY <1>1, BestExpand
<1>2. CASE Descend \/ (NextLayer /\ layer > 0)
  <2>1. BeginLayer(task, layer - 1, found) /\ task' = task /\ pc # "idle" /\ Dead' = Dead
    BY <1>2 DEF Descend, NextLayer, graphVars, tombVars, Dead
  <2> QED BY <2>1, BestBegins DEF Inv, TypeOK
<1>3. CASE Insert \/ Reinsert
  <2>1. PICK n \in Node \ ToSet(order), level \in Layer : BeginInsert(n, level)
    BY <1>3, InsertsAbsent
  <2>2. CASE entry = NoEntry
    BY <1>3, <2>1, <2>2, InsertsAbsent DEF BeginInsert, BestInv
  <2>3. CASE entry # NoEntry
    <3>1. BeginLayer(task', entry.level, {entry.id})
      BY <2>1, <2>3 DEF BeginInsert, NoTask
    <3>2. Dead' = Dead
      <4>1. deleted' = deleted /\ order' = Append(order, n) /\ order \in Seq(Node)
        BY <2>1 DEF BeginInsert, tombVars, Inv, TypeOK
      <4>2. \A i \in DOMAIN order : order'[i] = order[i]
        BY <4>1, AppendSet
      <4>3. Len(deleted) \in Nat /\ DOMAIN deleted = 1..Len(deleted)
            /\ Len(order) \in Nat /\ DOMAIN order = 1..Len(order) /\ Len(deleted) <= Len(order)
        BY LenProperties DEF Inv, TypeOK, TombstonesCounted
      <4>4. \A i \in DOMAIN deleted : order'[i] = order[i]
        BY <4>2, <4>3
      <4> QED BY <4>1, <4>4 DEF Dead
    <3>3. {entry.id} \in SUBSET Node
      BY <2>3 DEF Inv, TypeOK
    <3> QED BY <3>1, <3>2, <3>3, BestBegins
  <2> QED BY <2>2, <2>3
<1>4. CASE Search \/ SearchFiltered
  <2>1. PICK kind \in {"plain", "filtered"}, q \in Node, k \in 1..MaxK,
            accepts \in Filters \cup {Node} :
          BeginQuery(kind, q, k, accepts)
    BY <1>4 DEF Search, SearchFiltered, Route
  <2>2. pc = "idle" /\ Dead' = Dead
    BY <1>4 DEF Search, SearchFiltered, graphVars, tombVars, Dead
  <2>3. CASE entry = NoEntry
    BY <2>1, <2>2, <2>3 DEF BeginQuery, BestInv
  <2>4. CASE entry # NoEntry
    <3>1. BeginLayer(task', entry.level, {entry.id})
      BY <2>1, <2>4 DEF BeginQuery
    <3>2. {entry.id} \in SUBSET Node
      BY <2>4 DEF Inv, TypeOK
    <3> QED BY <2>2, <3>1, <3>2, BestBegins
  <2> QED BY <2>3, <2>4
<1>5. CASE Connect \/ Prune \/ Answer \/ (NextLayer /\ ~(layer > 0))
  BY <1>5 DEF Connect, Prune, Answer, NextLayer, Finish, BestInv
<1>6. CASE Skip \/ EndCompact \/ RemoveVector \/ RestoreVector \/ BeginCompact
  BY <1>6 DEF Skip, EndCompact, RemoveVector, RestoreVector, BeginCompact, BestInv
<1>7. CASE UNCHANGED vars
  BY <1>7 DEF vars, graphVars, tombVars, searchVars, BestInv, Met, Width, Eligible, Dead, Targets
<1> QED BY <1>1, <1>2, <1>3, <1>4, <1>5, <1>6, <1>7 DEF Next, Run, Call

LEMMA BestAnswers ==
  ASSUME Inv, BeamOK, BestInv, Answer, answer' # <<>>,
         NEW t \in Targets(answer'[1], 0) \intersect Eligible(task)
  PROVE  ~Closer(task.target, t, answer'[1])
<1> DEFINE q == task.target
           c == answer'[1]
<1>1. /\ pc = "search" /\ layer = 0 /\ q \in Node /\ task.k \in Nat
      /\ found \subseteq visited /\ visited \subseteq Node /\ frontier \subseteq visited
      /\ LayerDone(task)
  BY CallerAssumption DEF Answer, Inv, SearchOK, TypeOK
<1>2. answer' \in Selections(q, [x \in found |-> x], task.k, FALSE)
  BY DEF Answer
<1>3. c \in found /\ \A x \in found : x = c \/ Closer(q, c, x)
  BY <1>1, <1>2, SortedFirst
<1>4. t \in Node
  <2>1. links[c][0] \in Seq(Node)
    BY <1>1, <1>3, LayerType DEF Inv, TypeOK
  <2> QED BY <2>1 DEF Targets, ToSet
<1> HIDE DEF q, c
<1>5. c \notin frontier
  <2>1. c \in frontier => Closer(q, c, c)
    BY <1>1, <1>3 DEF LayerDone, q
  <2> QED BY <1>1, <1>3, <2>1, CloserTotal
<1>6. ~\E r \in found : Closer(q, r, c)
  BY <1>1, <1>3, CloserTotal
<1>7. Targets(c, 0) \subseteq visited
  BY <1>1, <1>3, <1>5, <1>6 DEF BestInv, q
<1>8. t \in Met
  BY <1>7 DEF c, Met
<1>9. PICK r \in found : r = t \/ Closer(q, r, t)
  <2>1. Width(task, 0) \in Nat \ {0} /\ Met \in SUBSET Node
    BY <1>1, WidthPositive DEF BeamOK, Met
  <2>2. found = Closest(q, Met, Width(task, 0))
    BY <1>1 DEF BestInv, q
  <2> QED BY <1>1, <1>8, <2>1, <2>2, ClosestBest
<1>10. c = t \/ Closer(q, c, t)
  BY <1>1, <1>3, <1>4, <1>9, CloserTransitive
<1>11. ~Closer(q, t, c)
  BY <1>1, <1>3, <1>4, <1>10, CloserTotal
<1> QED BY <1>11 DEF q, c

LEMMA BestKept == Spec => [](Inv /\ CallInv /\ BeamOK /\ BestInv)
<1> DEFINE I == Inv /\ CallInv
<1>1. Init => BestInv
  BY DEF Init, BestInv
<1>2. I /\ BeamOK /\ BestInv /\ [Next]_vars => BestInv'
  BY BestStep
<1>3. Spec => []I
  BY CallsKnown
<1>4. Spec => []BestInv
  <2> HIDE DEF I
  <2> QED BY <1>1, <1>2, <1>3, BeamKept, PTL DEF Spec
<1> QED BY <1>3, <1>4, BeamKept, PTL

\* The first answer of a search, plain or filtered, has no eligible neighbour
\* on layer 0 that is closer: the search does not stop before its best result
\* is expanded.
THEOREM LocallyClosest == Spec => AnswerIsLocallyClosest
<1> DEFINE I == Inv /\ CallInv /\ BeamOK /\ BestInv
           A == Answer /\ answer' # <<>> =>
                  \A t \in Targets(answer'[1], 0) \intersect Eligible(task) :
                    ~Closer(task.target, t, answer'[1])
<1>1. I /\ [Next]_vars => [A]_vars
  BY BestAnswers
<1>2. Spec => []I
  BY BestKept
<1>3. Spec => [][A]_vars
  <2> HIDE DEF I, A
  <2> QED BY <1>1, <1>2, PTL DEF Spec
<1> QED BY <1>3 DEF AnswerIsLocallyClosest

-----------------------------------------------------------------------------
(* What a search misses                                                    *)

\* One more round of following links.
Spread(R) == R \union UNION {Targets(n, 0) : n \in R}

\* g is what the rounds reach, up to the m-th.
Rounds(g, m) ==
  /\ g \in [0..m -> SUBSET Node] /\ g[0] = visited
  /\ \A i \in 1..m : g[i] = Spread(g[i - 1])

LEMMA SpreadNodes ==
  ASSUME links \in [Node -> [Layer -> Seq(Node)]], NEW R \in SUBSET Node
  PROVE  Spread(R) \in SUBSET Node /\ R \subseteq Spread(R)
<1>1. \A n \in R : Targets(n, 0) \subseteq Node
  <2> SUFFICES ASSUME NEW n \in R PROVE Targets(n, 0) \subseteq Node
    OBVIOUS
  <2>1. links[n][0] \in Seq(Node)
    BY LayerType
  <2> QED BY <2>1 DEF Targets, ToSet
<1> QED BY <1>1 DEF Spread

LEMMA RoundsExist ==
  ASSUME links \in [Node -> [Layer -> Seq(Node)]], visited \in SUBSET Node
  PROVE  \A m \in Nat : \E g : Rounds(g, m)
<1> DEFINE Missing == {m \in Nat : ~\E g : Rounds(g, m)}
<1> SUFFICES ASSUME Missing # {} PROVE FALSE
  OBVIOUS
<1>1. PICK m \in Missing : \A j \in Missing : m <= j
  BY LeastExists
<1>2. m # 0
  <2>1. Rounds([i \in 0..0 |-> visited], 0)
    BY DEF Rounds
  <2> QED BY <1>1, <2>1
<1>3. m - 1 \in Nat /\ m - 1 \notin Missing
  BY <1>1, <1>2
<1>4. PICK g : Rounds(g, m - 1)
  BY <1>3
<1> DEFINE h == [i \in 0..m |-> IF i = m THEN Spread(g[m - 1]) ELSE g[i]]
<1>5. g[m - 1] \in SUBSET Node
  BY <1>3, <1>4 DEF Rounds
<1>6. Spread(g[m - 1]) \in SUBSET Node
  BY <1>5, SpreadNodes
<1>7. h \in [0..m -> SUBSET Node]
  BY <1>3, <1>4, <1>6 DEF Rounds
<1>8. h[0] = visited
  BY <1>2, <1>3, <1>4 DEF Rounds
<1>9. ASSUME NEW i \in 1..m PROVE h[i] = Spread(h[i - 1])
  <2>1. i - 1 \in 0..m /\ i - 1 # m /\ h[i - 1] = g[i - 1]
    BY <1>1, <1>9
  <2>2. CASE i = m
    BY <1>9, <2>1, <2>2
  <2>3. CASE i # m
    <3>1. i \in 1..(m - 1) /\ h[i] = g[i]
      BY <1>1, <1>9, <2>3
    <3> QED BY <1>4, <2>1, <3>1 DEF Rounds
  <2> QED BY <2>2, <2>3
<1> HIDE DEF h
<1>10. Rounds(h, m)
  BY <1>7, <1>8, <1>9 DEF Rounds
<1> QED BY <1>1, <1>10

\* What is reachable includes what was visited, and is no more than that if
\* no link leads out of it.
LEMMA ReachableBounds ==
  ASSUME links \in [Node -> [Layer -> Seq(Node)]], visited \in SUBSET Node
  PROVE  /\ Reachable \in SUBSET Node /\ visited \subseteq Reachable
         /\ (\A v \in visited : Targets(v, 0) \subseteq visited) => Reachable = visited
<1> DEFINE size == Cardinality(Node)
           Is(g) == g = [i \in 0..size |-> IF i = 0 THEN visited
                                          ELSE g[i - 1] \union UNION {Targets(n, 0) : n \in g[i - 1]}]
           reach == CHOOSE g : Is(g)
<1>1. size \in Nat
  BY NodeAssumption, FS_CardinalityType
<1>2. Reachable = reach[size]
  BY DEF Reachable
<1> HIDE DEF size
<1>3. \E g : Is(g)
  <2>1. PICK g : Rounds(g, size)
    BY <1>1, RoundsExist
  <2>2. \A i \in 0..size : g[i] = IF i = 0 THEN visited
                                   ELSE g[i - 1] \union UNION {Targets(n, 0) : n \in g[i - 1]}
    BY <1>1, <2>1 DEF Rounds, Spread
  <2>3. g = [i \in 0..size |-> g[i]]
    BY <2>1 DEF Rounds
  <2> QED BY <2>2, <2>3
<1>4. Is(reach)
  BY <1>3
<1>5. \A i \in 0..size : reach[i] = IF i = 0 THEN visited ELSE Spread(reach[i - 1])
  BY <1>4 DEF Spread
<1> HIDE DEF reach, Is
<1>6. ASSUME NEW good,
             visited \in good, \A R \in good : Spread(R) \in good
      PROVE  reach[size] \in good
  <2> DEFINE wrong == {i \in 0..size : reach[i] \notin good}
  <2>1. CASE wrong = {}
    BY <1>1, <2>1
  <2>2. CASE wrong # {}
    <3>1. wrong \subseteq Nat
      BY <1>1
    <3>2. PICK i \in wrong : \A j \in wrong : i <= j
      BY <2>2, <3>1, LeastExists
    <3>3. i # 0
      BY <1>5, <1>6, <3>2
    <3>4. i - 1 \in 0..size /\ i - 1 \notin wrong
      BY <1>1, <3>2, <3>3
    <3> QED BY <1>5, <1>6, <3>2, <3>3, <3>4
  <2> QED BY <2>1, <2>2
<1>7. reach[size] \in {R \in SUBSET Node : visited \subseteq R}
  <2>1. \A R \in {R \in SUBSET Node : visited \subseteq R} :
          Spread(R) \in {Q \in SUBSET Node : visited \subseteq Q}
    BY SpreadNodes
  <2> QED BY <1>6, <2>1
<1>8. ASSUME \A v \in visited : Targets(v, 0) \subseteq visited PROVE reach[size] \in {visited}
  <2>1. Spread(visited) = visited
    BY <1>8 DEF Spread
  <2> QED BY <1>6, <2>1
<1> QED BY <1>2, <1>7, <1>8

\* The live vectors among the first i.
LiveUpTo(i) ==
  {order[j] : j \in {h \in DOMAIN order : h <= i /\ ~(h \in DOMAIN deleted /\ deleted[h])}}

LEMMA LiveGrows ==
  ASSUME order \in Seq(Node), NEW i \in 1..Len(order)
  PROVE  /\ LiveUpTo(i - 1) \in SUBSET Node /\ order[i] \in Node
         /\ LiveUpTo(i) = IF i \in DOMAIN deleted /\ deleted[i] THEN LiveUpTo(i - 1)
                          ELSE LiveUpTo(i - 1) \cup {order[i]}
<1>1. DOMAIN order = 1..Len(order) /\ Len(order) \in Nat /\ \A j \in 1..Len(order) : order[j] \in Node
  BY LenProperties, ElementOfSeq
<1> DEFINE live(j) == ~(j \in DOMAIN deleted /\ deleted[j])
           upto(m) == {h \in 1..Len(order) : h <= m /\ live(h)}
<1>2. \A m : LiveUpTo(m) = {order[j] : j \in upto(m)}
  BY <1>1 DEF LiveUpTo
<1>3. upto(i) = IF live(i) THEN upto(i - 1) \cup {i} ELSE upto(i - 1)
  <2> HIDE DEF live
  <2>1. \A h \in 1..Len(order) : h <= i <=> (h <= i - 1 \/ h = i)
    BY <1>1
  <2> QED BY <2>1
<1> HIDE DEF live
<1>4. \A j \in upto(i - 1) : order[j] \in Node
  BY <1>1
<1> HIDE DEF upto
<1>5. LiveUpTo(i - 1) \in SUBSET Node
  BY <1>2, <1>4
<1>6. LiveUpTo(i) = IF live(i) THEN LiveUpTo(i - 1) \cup {order[i]} ELSE LiveUpTo(i - 1)
  BY <1>2, <1>3
<1> QED BY <1>1, <1>5, <1>6 DEF live

\* The exact search returns the k closest of the live vectors: its heap loses
\* nothing by keeping no more than k at a time.
LEMMA TopKExact ==
  ASSUME order \in Seq(Node), NEW q \in Node, NEW k \in Nat
  PROVE  TopK(q, k) = Closest(q, LiveUpTo(Len(order)), k)
<1> DEFINE size == Len(order)
           Is(g) == g = [i \in 0..size |->
                           IF i = 0 THEN {}
                           ELSE IF i \in DOMAIN deleted /\ deleted[i] THEN g[i - 1]
                           ELSE Closest(q, g[i - 1] \union {order[i]}, k)]
           worst == CHOOSE g : Is(g)
           best == [i \in 0..size |-> Closest(q, LiveUpTo(i), k)]
<1>1. size \in Nat
  BY LenProperties
<1>2. TopK(q, k) = worst[size]
  BY DEF TopK
<1>3. LiveUpTo(0) = {} /\ Closest(q, {}, k) = {}
  <2>1. \A h \in DOMAIN order : ~(h <= 0)
    <3>1. DOMAIN order = 1..Len(order)
      BY LenProperties
    <3> QED BY <3>1
  <2> QED BY <2>1 DEF LiveUpTo, Closest
<1> HIDE DEF size
<1>4. \A i \in 1..size :
        Closest(q, LiveUpTo(i), k) =
          IF i \in DOMAIN deleted /\ deleted[i] THEN Closest(q, LiveUpTo(i - 1), k)
          ELSE Closest(q, Closest(q, LiveUpTo(i - 1), k) \union {order[i]}, k)
  <2> SUFFICES ASSUME NEW i \in 1..size
               PROVE  Closest(q, LiveUpTo(i), k) =
                        IF i \in DOMAIN deleted /\ deleted[i] THEN Closest(q, LiveUpTo(i - 1), k)
                        ELSE Closest(q, Closest(q, LiveUpTo(i - 1), k) \union {order[i]}, k)
    OBVIOUS
  <2> DEFINE S == LiveUpTo(i - 1)
             X == {order[i]}
  <2>1. /\ S \in SUBSET Node /\ X \in SUBSET Node
        /\ LiveUpTo(i) = IF i \in DOMAIN deleted /\ deleted[i] THEN S ELSE S \cup X
    BY LiveGrows DEF size
  <2> HIDE DEF S, X
  <2>2. Closest(q, Closest(q, S, k) \cup X, k) = Closest(q, S \cup X, k)
    BY <2>1, ClosestAgain
  <2>3. Closest(q, LiveUpTo(i), k) =
          IF i \in DOMAIN deleted /\ deleted[i] THEN Closest(q, S, k)
          ELSE Closest(q, Closest(q, S, k) \cup X, k)
    BY <2>1, <2>2
  <2> QED BY <2>3 DEF S, X
<1>5. \A i \in 0..size : best[i] = IF i = 0 THEN {}
                                 ELSE IF i \in DOMAIN deleted /\ deleted[i] THEN best[i - 1]
                                 ELSE Closest(q, best[i - 1] \union {order[i]}, k)
  <2> SUFFICES ASSUME NEW i \in 0..size
               PROVE  best[i] = IF i = 0 THEN {}
                                ELSE IF i \in DOMAIN deleted /\ deleted[i] THEN best[i - 1]
                                ELSE Closest(q, best[i - 1] \union {order[i]}, k)
    OBVIOUS
  <2>1. CASE i = 0
    BY <1>3, <2>1
  <2>2. CASE i # 0
    <3>1. i \in 1..size /\ i - 1 \in 0..size
      BY <1>1, <2>2
    <3>2. best[i] = Closest(q, LiveUpTo(i), k) /\ best[i - 1] = Closest(q, LiveUpTo(i - 1), k)
      BY <3>1
    <3> HIDE DEF best
    <3> QED BY <1>4, <2>2, <3>1, <3>2
  <2> QED BY <2>1, <2>2
<1>6. Is(best)
  BY <1>5
<1>7. Is(worst)
  BY <1>6
<1>8. \A i \in 0..size : worst[i] = IF i = 0 THEN {}
                                  ELSE IF i \in DOMAIN deleted /\ deleted[i] THEN worst[i - 1]
                                  ELSE Closest(q, worst[i - 1] \union {order[i]}, k)
  BY <1>7
<1> HIDE DEF worst, best, Is
<1> DEFINE wrong == {i \in 0..size : worst[i] # best[i]}
<1>9. wrong = {}
  <2> SUFFICES ASSUME wrong # {} PROVE FALSE
    OBVIOUS
  <2>1. wrong \subseteq Nat
    BY <1>1
  <2>2. PICK i \in wrong : \A j \in wrong : i <= j
    BY <2>1, LeastExists
  <2>3. i # 0
    BY <1>5, <1>8, <2>2
  <2>4. i - 1 \in 0..size /\ i - 1 \notin wrong
    BY <1>1, <2>2, <2>3
  <2>5. worst[i - 1] = best[i - 1]
    BY <2>4
  <2>6. worst[i] = best[i]
    BY <1>5, <1>8, <2>2, <2>3, <2>5
  <2> QED BY <2>2, <2>6
<1>10. worst[size] = best[size]
  BY <1>1, <1>9
<1>11. best[size] = Closest(q, LiveUpTo(size), k)
  BY <1>1 DEF best
<1> QED BY <1>2, <1>10, <1>11 DEF size

LEMMA LiveVectorsAre ==
  ASSUME Inv
  PROVE  LiveUpTo(Len(order)) = ToSet(order) \ Dead
<1>1. order \in Seq(Node) /\ DOMAIN order = 1..Len(order) /\ Len(order) \in Nat /\ IsInjective(order)
  BY LenProperties DEF Inv, TypeOK, StoreOK
<1>2. \A i \in DOMAIN deleted : i \in DOMAIN order
  <2>1. deleted \in Seq(BOOLEAN) /\ Len(deleted) <= Len(order)
    BY DEF Inv, TypeOK, TombstonesCounted
  <2>2. DOMAIN deleted = 1..Len(deleted) /\ Len(deleted) \in Nat
    BY <2>1, LenProperties
  <2> QED BY <1>1, <2>1, <2>2
<1>3. \A j \in DOMAIN order : order[j] \in Dead <=> (j \in DOMAIN deleted /\ deleted[j])
  BY <1>1, <1>2 DEF Dead, IsInjective
<1>4. {h \in DOMAIN order : h <= Len(order) /\ ~(h \in DOMAIN deleted /\ deleted[h])}
        = {h \in DOMAIN order : order[h] \notin Dead}
  BY <1>1, <1>3
<1> QED BY <1>4 DEF LiveUpTo, ToSet

\* When a search ends short of its beam, nothing it could follow is left.
LEMMA SearchExhausts ==
  ASSUME Inv, CallInv, BeamOK, BestInv, Answer, Cardinality(Met) < Width(task, 0)
  PROVE  Reachable = visited
<1>1. /\ pc = "search" /\ layer = 0 /\ LayerDone(task) /\ task.target \in Node
      /\ visited \in SUBSET Node /\ frontier \subseteq visited
      /\ links \in [Node -> [Layer -> Seq(Node)]] /\ task.kind \in {"plain", "filtered"}
  BY DEF Answer, Inv, TypeOK, SearchOK, CallInv
<1>2. Met \in SUBSET Node /\ Width(task, 0) \in Nat
  BY <1>1, WidthPositive DEF Met, BeamOK
<1>3. found = Met
  <2>1. found = Closest(task.target, Met, Width(task, 0))
    BY <1>1 DEF BestInv
  <2>2. Cardinality(Met) <= Width(task, 0)
    BY <1>2, NodesCounted
  <2> QED BY <1>1, <1>2, <2>1, <2>2, ClosestWhole
<1>4. frontier = {}
  <2> SUFFICES ASSUME NEW c \in frontier PROVE FALSE
    OBVIOUS
  <2>1. task.kind = "filtered" => Cardinality(found) >= Width(task, 0)
    BY <1>1 DEF LayerDone
  <2>2. task.kind = "plain"
    BY <1>1, <1>2, <1>3, <2>1, NodesCounted
  <2>3. c \in found
    BY <1>1, <1>3, <2>2 DEF Met, Eligible
  <2>4. Closer(task.target, c, c)
    BY <1>1, <2>3 DEF LayerDone
  <2> QED BY <1>1, <2>4, CloserTotal
<1>5. \A v \in visited : Targets(v, 0) \subseteq visited
  <2>1. ~(Cardinality(Met) >= Width(task, 0))
    BY <1>2, NodesCounted
  <2> QED BY <1>1, <1>4, <2>1 DEF BestInv
<1> QED BY <1>1, <1>5, ReachableBounds

LEMMA AnswerFacts ==
  ASSUME Inv, CallInv, BeamOK, BestInv, Answer
  PROVE  LET eligible == Reachable \intersect Eligible(task)
         IN  /\ Len(answer') = Least(task.k, Cardinality(eligible))
             /\ Cardinality(eligible) <= task.beam =>
                  /\ ToSet(answer') = Closest(task.target, eligible, task.k)
                  /\ eligible = ToSet(order) \ Dead => ToSet(answer') = TopK(task.target, task.k)
<1> DEFINE E == Reachable \intersect Eligible(task)
           q == task.target
           k == task.k
           W == task.beam
<1>1. /\ pc = "search" /\ layer = 0 /\ q \in Node /\ visited \in SUBSET Node
      /\ links \in [Node -> [Layer -> Seq(Node)]] /\ order \in Seq(Node)
      /\ k \in Nat /\ W \in Nat /\ k <= W /\ Width(task, 0) = W
      /\ found = Closest(q, Met, W)
      /\ answer' \in Selections(q, [x \in found |-> x], k, FALSE)
  <2>1. /\ pc = "search" /\ layer = 0 /\ task.kind # "insert"
        /\ answer' \in Selections(q, [x \in found |-> x], k, FALSE)
    BY DEF Answer
  <2>2. /\ q \in Node /\ visited \in SUBSET Node
        /\ links \in [Node -> [Layer -> Seq(Node)]] /\ order \in Seq(Node)
    BY <2>1 DEF Inv, TypeOK, SearchOK
  <2>3. W \in Nat /\ k \in Nat /\ k <= W /\ task.level = 0
    BY <2>1 DEF BeamOK
  <2>4. Width(task, 0) = W
    BY <2>3 DEF Width
  <2>5. found = Closest(q, Met, W)
    BY <2>1, <2>4 DEF BestInv
  <2> QED BY <2>1, <2>2, <2>3, <2>4, <2>5
<1>2. E \in SUBSET Node /\ Met \in SUBSET E /\ Met \in SUBSET Node
  BY <1>1, ReachableBounds DEF Met
<1>3. found \in SUBSET Node
  BY <1>1, <1>2, ClosestSubset
<1>4. Cardinality(Met) < W => E = Met
  <2>1. Cardinality(Met) < W => Reachable = visited
    BY <1>1, SearchExhausts
  <2> QED BY <2>1 DEF Met
<1> HIDE DEF E, q, k, W
<1>5. /\ Cardinality(E) \in Nat /\ Cardinality(Met) \in Nat /\ Cardinality(found) \in Nat
      /\ Cardinality(Met) <= Cardinality(E) /\ (Met # E => Cardinality(Met) < Cardinality(E))
  BY <1>2, <1>3, NodesCounted, NodesWithin
<1>6. /\ Len(answer') = IF Cardinality(found) <= k THEN Cardinality(found) ELSE k
      /\ ToSet(answer') = Closest(q, found, k)
  <2>1. /\ Len(answer') = IF Cardinality(found) <= k THEN Cardinality(found) ELSE k
        /\ {answer'[i] : i \in DOMAIN answer'} = Closest(q, found, k)
    <3>1. q \in Node /\ k \in Nat /\ answer' \in Selections(q, [x \in found |-> x], k, FALSE)
      BY <1>1
    <3> QED BY <1>3, <3>1, SortedIsClosest
  <2> QED BY <2>1 DEF ToSet
<1>7. Cardinality(found) = IF Cardinality(Met) <= W THEN Cardinality(Met) ELSE W
  <2>1. CASE Cardinality(Met) <= W
    BY <1>1, <1>2, <2>1, ClosestWhole
  <2>2. CASE Cardinality(Met) > W
    BY <1>1, <1>2, <1>5, <2>2, ClosestFills
  <2> QED BY <1>1, <1>5, <2>1, <2>2
<1>8. Len(answer') = Least(k, Cardinality(E))
  <2>1. CASE Cardinality(Met) < W
    <3>1. E = Met /\ Cardinality(found) = Cardinality(E)
      BY <1>1, <1>4, <1>5, <1>7, <2>1
    <3> QED BY <1>1, <1>5, <1>6, <3>1 DEF Least
  <2>2. CASE ~(Cardinality(Met) < W)
    <3>1. Cardinality(found) = W /\ k <= Cardinality(E)
      BY <1>1, <1>5, <1>7, <2>2
    <3> QED BY <1>1, <1>5, <1>6, <3>1 DEF Least
  <2> QED BY <2>1, <2>2
<1>9. ASSUME Cardinality(E) <= W
      PROVE  /\ ToSet(answer') = Closest(q, E, k)
             /\ E = ToSet(order) \ Dead => ToSet(answer') = TopK(q, k)
  <2>1. Met = E
    BY <1>1, <1>4, <1>5, <1>9
  <2>2. found = E
    BY <1>1, <1>2, <1>9, <2>1, ClosestWhole
  <2>3. ToSet(answer') = Closest(q, E, k)
    BY <1>6, <2>2
  <2>4. TopK(q, k) = Closest(q, ToSet(order) \ Dead, k)
    BY <1>1, TopKExact, LiveVectorsAre
  <2> QED BY <2>3, <2>4
<1> QED BY <1>8, <1>9 DEF E, q, k, W

\* A search returns fewer than k vectors only when it has followed every link
\* there is from where layer 0 was entered, and when its beam holds all that
\* is eligible there it answers exactly as the exhaustive search would: the
\* heap of limited size, the early stop and the filter lose nothing.
THEOREM AnswersComplete == Spec => AnswerIsComplete
<1> DEFINE I == Inv /\ CallInv
           A == Answer =>
                  LET eligible == Reachable \intersect Eligible(task)
                  IN  /\ Len(answer') = Least(task.k, Cardinality(eligible))
                      /\ Cardinality(eligible) <= task.beam =>
                           /\ ToSet(answer') = Closest(task.target, eligible, task.k)
                           /\ eligible = ToSet(order) \ Dead => ToSet(answer') = TopK(task.target, task.k)
<1>1. I /\ BeamOK /\ BestInv /\ [Next]_vars => [A]_vars
  BY AnswerFacts
<1>2. Spec => [](I /\ BeamOK /\ BestInv)
  BY BestKept
<1>3. Spec => [][A]_vars
  <2> HIDE DEF I, A
  <2> QED BY <1>1, <1>2, PTL DEF Spec
<1> QED BY <1>3 DEF AnswerIsComplete

=============================================================================
