---------------------- MODULE NeighbourSelectionProofs ----------------------
(***************************************************************************)
(* What the proofs about the two ways of building a graph need to know of  *)
(* selecting and pruning neighbours, for any set of nodes, any metric and  *)
(* any list.                                                               *)
(***************************************************************************)
EXTENDS NeighbourSelection, FiniteSetTheorems, SequenceTheorems, TLAPS

-----------------------------------------------------------------------------
(* Numbers, sets and lists                                                 *)

\* Any set of natural numbers that is not empty has a least member.
LEMMA LeastExists ==
  ASSUME NEW T, T \subseteq Nat, T # {}
  PROVE  \E x \in T : \A y \in T : x <= y
<1> DEFINE R == {ss \in Nat \X Nat : ss[1] < ss[2]}
<1>1. IsWellFoundedOn(R, Nat)
  BY NatLessThanWellFounded DEF OpToRel
<1> HIDE DEF R
<1>2. PICK x \in T : \A y \in T : ~(<<y, x>> \in R)
  BY <1>1, WFMin
<1>3. \A y \in T : ~(y < x)
  BY <1>2 DEF R
<1> QED BY <1>3

\* The elements of a concatenation are those of its parts.
LEMMA ConcatElements ==
  ASSUME NEW S, NEW s \in Seq(S), NEW t \in Seq(S)
  PROVE  /\ s \o t \in Seq(S)
         /\ Len(s \o t) = Len(s) + Len(t)
         /\ \A i \in DOMAIN (s \o t) :
              \/ i \in DOMAIN s /\ (s \o t)[i] = s[i]
              \/ \E j \in DOMAIN t : (s \o t)[i] = t[j]
<1>1. s \o t \in Seq(S) /\ Len(s \o t) = Len(s) + Len(t)
  BY ConcatProperties
<1>2. ASSUME NEW i \in 1..(Len(s) + Len(t)), i <= Len(s)
      PROVE  i \in DOMAIN s /\ (s \o t)[i] = s[i]
  BY <1>2, ConcatProperties
<1>3. ASSUME NEW i \in 1..(Len(s) + Len(t)), ~(i <= Len(s))
      PROVE  \E j \in DOMAIN t : (s \o t)[i] = t[j]
  <2>1. i - Len(s) \in DOMAIN t /\ (s \o t)[i] = t[i - Len(s)]
    BY <1>3, ConcatProperties
  <2>2. QED
    BY <2>1
<1>4. DOMAIN (s \o t) = 1..(Len(s) + Len(t))
  BY <1>1
<1>5. QED
  BY <1>1, <1>2, <1>3, <1>4

\* Whatever is in a part of a concatenation is in the whole.
LEMMA ConcatCovers ==
  ASSUME NEW S, NEW s \in Seq(S), NEW t \in Seq(S)
  PROVE  /\ \A i \in DOMAIN s : i \in DOMAIN (s \o t) /\ (s \o t)[i] = s[i]
         /\ \A j \in DOMAIN t : /\ Len(s) + j \in DOMAIN (s \o t)
                                /\ (s \o t)[Len(s) + j] = t[j]
<1>1. Len(s) \in Nat /\ Len(t) \in Nat /\ DOMAIN s = 1..Len(s) /\ DOMAIN t = 1..Len(t)
  BY LenProperties
<1>2. DOMAIN (s \o t) = 1..(Len(s) + Len(t))
  BY ConcatProperties, LenProperties
<1>3. ASSUME NEW i \in DOMAIN s PROVE i \in DOMAIN (s \o t) /\ (s \o t)[i] = s[i]
  BY <1>1, <1>2, ConcatProperties
<1>4. ASSUME NEW j \in DOMAIN t
      PROVE  Len(s) + j \in DOMAIN (s \o t) /\ (s \o t)[Len(s) + j] = t[j]
  <2>1. Len(s) + j \in 1..(Len(s) + Len(t)) /\ ~(Len(s) + j <= Len(s))
          /\ (Len(s) + j) - Len(s) = j
    BY <1>1
  <2> QED BY <1>2, <2>1, ConcatProperties
<1> QED BY <1>3, <1>4

\* The head and the tail of a list are made of its elements.
LEMMA HeadTailElements ==
  ASSUME NEW S, NEW s \in Seq(S), s # <<>>
  PROVE  /\ 1 \in DOMAIN s /\ Head(s) = s[1] /\ Head(s) \in S
         /\ Tail(s) \in Seq(S)
         /\ \A i \in DOMAIN Tail(s) : \E j \in DOMAIN s : Tail(s)[i] = s[j]
<1>1. 1 \in DOMAIN s /\ Head(s) = s[1] /\ Head(s) \in S
  BY HeadTailProperties, EmptySeq
<1>2. /\ Tail(s) \in Seq(S) /\ Len(Tail(s)) = Len(s) - 1
      /\ \A i \in 1..Len(Tail(s)) : Tail(s)[i] = s[i + 1]
  BY HeadTailProperties
<1>3. ASSUME NEW i \in DOMAIN Tail(s) PROVE \E j \in DOMAIN s : Tail(s)[i] = s[j]
  <2>1. i + 1 \in DOMAIN s /\ Tail(s)[i] = s[i + 1]
    BY <1>2
  <2>2. QED
    BY <2>1
<1>4. QED
  BY <1>1, <1>2, <1>3

\* Every element of a list is its head or in its tail, and only one of the
\* two if no element is there twice.
LEMMA HeadOrTail ==
  ASSUME NEW S, NEW s \in Seq(S), s # <<>>
  PROVE  /\ \A i \in DOMAIN s : \/ s[i] = Head(s)
                                \/ \E j \in DOMAIN Tail(s) : s[i] = Tail(s)[j]
         /\ IsInjective(s) => /\ IsInjective(Tail(s))
                              /\ \A j \in DOMAIN Tail(s) : Tail(s)[j] # Head(s)
<1>1. /\ Head(s) = s[1] /\ 1 \in DOMAIN s /\ DOMAIN s = 1..Len(s) /\ Len(s) \in Nat
      /\ Tail(s) \in Seq(S) /\ Len(Tail(s)) = Len(s) - 1
      /\ \A i \in 1..Len(Tail(s)) : Tail(s)[i] = s[i + 1]
  BY HeadTailProperties, EmptySeq, LenProperties
<1>2. DOMAIN Tail(s) = 1..(Len(s) - 1)
  BY <1>1, LenProperties
<1>3. ASSUME NEW i \in DOMAIN s, i # 1
      PROVE  \E j \in DOMAIN Tail(s) : s[i] = Tail(s)[j]
  <2>1. i - 1 \in DOMAIN Tail(s) /\ Tail(s)[i - 1] = s[(i - 1) + 1] /\ (i - 1) + 1 = i
    BY <1>1, <1>2, <1>3
  <2> QED BY <2>1
<1>4. ASSUME IsInjective(s) PROVE IsInjective(Tail(s))
  <2>1. ASSUME NEW i \in DOMAIN Tail(s), NEW j \in DOMAIN Tail(s), Tail(s)[i] = Tail(s)[j]
        PROVE  i = j
    <3>1. /\ i + 1 \in DOMAIN s /\ j + 1 \in DOMAIN s /\ i \in Int /\ j \in Int
          /\ s[i + 1] = s[j + 1]
      BY <1>1, <1>2, <2>1
    <3>2. i + 1 = j + 1
      BY <1>4, <3>1 DEF IsInjective
    <3> QED BY <3>1, <3>2
  <2> QED BY <2>1 DEF IsInjective
<1>5. ASSUME IsInjective(s), NEW j \in DOMAIN Tail(s) PROVE Tail(s)[j] # Head(s)
  <2>1. j + 1 \in DOMAIN s /\ j + 1 # 1 /\ Tail(s)[j] = s[j + 1]
    BY <1>1, <1>2
  <2> QED BY <1>1, <1>5, <2>1 DEF IsInjective
<1> QED BY <1>1, <1>3, <1>4, <1>5

-----------------------------------------------------------------------------
(* The members of a set that are closest to a node                         *)

LEMMA ClosestSubset ==
  ASSUME NEW q, NEW S, NEW k
  PROVE  Closest(q, S, k) \subseteq S
BY DEF Closest

LEMMA DistType == \A q, a \in Node : Dist[q][a] \in Int
BY DistAssumption

\* Some member of a set is such that no other one is closer.
LEMMA NearestExists ==
  ASSUME NEW q \in Node, NEW S \in SUBSET Node, S # {}
  PROVE  \E x \in S : \A y \in S : ~Closer(q, y, x)
<1> DEFINE closer(x) == {y \in S : Closer(q, y, x)}
           T == {Cardinality(closer(x)) : x \in S}
<1>1. \A x \in S : IsFiniteSet(closer(x)) /\ Cardinality(closer(x)) \in Nat
  <2> SUFFICES ASSUME NEW x \in S
               PROVE  IsFiniteSet(closer(x)) /\ Cardinality(closer(x)) \in Nat
    OBVIOUS
  <2>1. closer(x) \in SUBSET Node
    OBVIOUS
  <2> HIDE DEF closer
  <2>2. IsFiniteSet(closer(x))
    BY <2>1, FS_Subset, NodeAssumption
  <2> QED BY <2>2, FS_CardinalityType
<1>2. T \subseteq Nat /\ T # {}
  BY <1>1
<1>3. PICK c \in T : \A d \in T : c <= d
  BY <1>2, LeastExists
<1>4. PICK x \in S : c = Cardinality(closer(x))
  OBVIOUS
<1>5. ASSUME NEW y \in S, Closer(q, y, x) PROVE FALSE
  <2>1. closer(y) \subseteq closer(x)
    BY <1>5, DistType DEF Closer
  <2>2. y \in closer(x) /\ y \notin closer(y)
    BY <1>5, DistType DEF Closer
  <2>3. Cardinality(closer(x)) <= Cardinality(closer(y))
    BY <1>3, <1>4
  <2> HIDE DEF closer
  <2>4. Cardinality(closer(y)) <= Cardinality(closer(x))
    BY <1>1, <2>1, FS_Subset
  <2>5. Cardinality(closer(x)) = Cardinality(closer(y))
    BY <1>1, <2>3, <2>4
  <2>6. closer(x) = closer(y)
    BY <1>1, <2>1, <2>5, FS_Subset
  <2> QED BY <2>2, <2>6
<1> QED BY <1>5

\* The k closest of a set are at least one, and for k > 1 at least one
\* besides any given member.
LEMMA ClosestKeeps ==
  ASSUME NEW q \in Node, NEW S \in SUBSET Node, NEW n, S \ {n} # {}, NEW k \in Nat,
         IF n \in S THEN k >= 2 ELSE k >= 1
  PROVE  Closest(q, S, k) \ {n} # {}
<1>1. PICK x \in S \ {n} : \A y \in S \ {n} : ~Closer(q, y, x)
  BY NearestExists
<1> DEFINE closer == {y \in S : Closer(q, y, x)}
<1>2. closer \subseteq {n} /\ (n \notin S => closer = {})
  BY <1>1
<1>3. Cardinality(closer) < k
  <2> HIDE DEF closer
  <2>1. CASE n \in S
    <3>1. IsFiniteSet({n}) /\ Cardinality({n}) = 1
      BY FS_Singleton
    <3>2. IsFiniteSet(closer) /\ Cardinality(closer) <= 1
      BY <1>2, <3>1, FS_Subset
    <3>3. Cardinality(closer) \in Nat
      BY <3>2, FS_CardinalityType
    <3> QED BY <2>1, <3>2, <3>3
  <2>2. CASE n \notin S
    BY <1>2, <2>2, FS_EmptySet
  <2> QED BY <2>1, <2>2
<1> QED BY <1>1, <1>3 DEF Closest

-----------------------------------------------------------------------------
(* What a selection returns                                                *)

\* The list consists of entries of `edges`, no entry taken twice.
Draws(list, edges, pick) ==
  /\ pick \in [DOMAIN list -> DOMAIN edges] /\ IsInjective(pick)
  /\ \A i \in DOMAIN list : list[i] = edges[pick[i]]

\* A list of at most m of what is offered.
DrawnFrom(list, edges, m) ==
  /\ list \in Seq(Node) /\ Len(list) <= m
  /\ \A i \in DOMAIN list : \E d \in DOMAIN edges : list[i] = edges[d]

\* A selection is a list of at most m of what is offered.
LEMMA SelectionDrawn ==
  ASSUME NEW edges, \A d \in DOMAIN edges : edges[d] \in Node, NEW m \in Nat,
         NEW picks \in SUBSET Picks(edges, m), NEW sel \in ListsOf(edges, picks)
  PROVE  DrawnFrom(sel, edges, m)
<1>1. PICK pick \in picks : sel = [i \in DOMAIN pick |-> edges[pick[i]]]
  BY DEF ListsOf
<1>2. PICK k \in 0..m : pick \in [1..k -> DOMAIN edges]
  BY <1>1 DEF Picks
<1>3. sel \in Seq(Node) /\ Len(sel) = k
  BY <1>1, <1>2
<1> QED BY <1>1, <1>2, <1>3 DEF DrawnFrom

LEMMA SelectionsDrawn ==
  ASSUME NEW q, NEW edges, \A d \in DOMAIN edges : edges[d] \in Node, NEW m \in Nat, NEW h,
         NEW sel \in Selections(q, edges, m, h)
  PROVE  DrawnFrom(sel, edges, m)
<1>1. DiversePicks(q, edges, m) \in SUBSET Picks(edges, m)
  BY DEF DiversePicks
<1>2. NearestPicks(q, edges, m) \in SUBSET Picks(edges, m)
  BY DEF NearestPicks
<1> QED BY <1>1, <1>2, SelectionDrawn DEF Selections

\* Pruning leaves a part of the list.
LEMMA PrunedDrawn ==
  ASSUME NEW q, NEW list \in Seq(Node), NEW m \in Nat, NEW h, NEW kept \in Pruned(q, list, m, h)
  PROVE  DrawnFrom(kept, list, m)
<1>1. \A d \in DOMAIN list : list[d] \in Node
  OBVIOUS
<1>2. CASE Len(list) <= m
  BY <1>2 DEF Pruned, DrawnFrom
<1>3. CASE ~(Len(list) <= m)
  BY <1>1, <1>3, SelectionsDrawn DEF Pruned
<1> QED BY <1>2, <1>3

\* Entries at numbered places, each of them a node.
EdgeList(edges) ==
  DOMAIN edges \subseteq Int /\ \A d \in DOMAIN edges : edges[d] \in Node

\* The pick lists two sets of places that have nothing in common.
ListsApart(q, edges, m, kept, spare, pick) ==
  /\ pick \in Picks(edges, m) /\ kept \cap spare = {}
  /\ IsListing(q, edges, m, kept, spare, pick)

\* A sequence of at most m different places.
DistinctPlaces(edges, m, pick) ==
  /\ IsInjective(pick)
  /\ \E k \in 0..m : pick \in [1..k -> DOMAIN edges] /\ Len(pick) = k

\* What is listed: the pick is a sequence of different positions; if it
\* leaves something out then it has m entries.
LEMMA ListingFacts ==
  ASSUME NEW q \in Node, NEW edges, NEW m \in Nat,
         EdgeList(edges), NEW kept, NEW spare, NEW pick,
         ListsApart(q, edges, m, kept, spare, pick)
  PROVE  /\ DistinctPlaces(edges, m, pick)
         /\ \A t \in kept \cup spare :
              Len(pick) = m \/ \E i \in DOMAIN pick : pick[i] = t
<1> USE DEF ListsApart, EdgeList
<1>1. PICK k \in 0..m : pick \in [1..k -> DOMAIN edges]
  BY DEF Picks
<1>2. pick \in Seq(DOMAIN edges) /\ Len(pick) = k /\ DOMAIN pick = 1..k
  BY <1>1
<1> DEFINE Before(s, t) ==
             \/ s \in kept /\ t \in spare
             \/ (s \in kept <=> t \in kept) /\ Precedes(q, edges, s, t)
           chosen == {pick[i] : i \in DOMAIN pick}
<1>3. /\ \A i, j \in DOMAIN pick : i < j => Before(pick[i], pick[j])
      /\ \A t \in (kept \cup spare) \ chosen : Len(pick) = m
  BY DEF IsListing
<1>4. \A s \in DOMAIN edges : ~Precedes(q, edges, s, s)
  BY DistType DEF Precedes, Closer
<1>5. \A s \in DOMAIN edges : ~Before(s, s)
  BY <1>4
<1>6. ASSUME NEW i \in DOMAIN pick, NEW j \in DOMAIN pick, pick[i] = pick[j], i # j
      PROVE  FALSE
  <2>1. i < j \/ j < i
    BY <1>2, <1>6
  <2>2. pick[i] \in DOMAIN edges
    BY <1>1
  <2> HIDE DEF Before
  <2>3. Before(pick[i], pick[i])
    BY <1>3, <1>6, <2>1
  <2> QED BY <1>5, <2>2, <2>3
<1> QED BY <1>1, <1>2, <1>3, <1>6 DEF IsInjective, DistinctPlaces

\* Both ways of picking list a set of positions; the heuristic lists those
\* it keeps before those it discards.
LEMMA PickLists ==
  ASSUME NEW q, NEW edges, NEW m,
         NEW pick \in DiversePicks(q, edges, m) \cup NearestPicks(q, edges, m)
  PROVE  \/ ListsApart(q, edges, m, DOMAIN edges, {}, pick)
         \/ /\ pick \in DiversePicks(q, edges, m)
            /\ \E kept \in SUBSET DOMAIN edges :
                 /\ IsDiverse(q, edges, m, kept)
                 /\ ListsApart(q, edges, m, kept, Discarded(q, edges, m, kept), pick)
BY DEF DiversePicks, NearestPicks, Discarded, ListsApart

\* A pick is a sequence of at most m different positions.
LEMMA PickInjective ==
  ASSUME NEW q \in Node, NEW edges, NEW m \in Nat, EdgeList(edges),
         NEW pick \in DiversePicks(q, edges, m) \cup NearestPicks(q, edges, m)
  PROVE  DistinctPlaces(edges, m, pick)
BY PickLists, ListingFacts

LEMMA SelectionsPick ==
  ASSUME NEW q, NEW edges, NEW m, NEW h, NEW sel \in Selections(q, edges, m, h)
  PROVE  \E pick \in DiversePicks(q, edges, m) \cup NearestPicks(q, edges, m) :
           /\ sel = [i \in DOMAIN pick |-> edges[pick[i]]]
           /\ ~h => pick \in NearestPicks(q, edges, m)
           /\ ~(Cardinality(DOMAIN edges) > m) => pick \in NearestPicks(q, edges, m)
<1> DEFINE few == ~(h /\ Cardinality(DOMAIN edges) > m)
           picks == IF few THEN NearestPicks(q, edges, m) ELSE DiversePicks(q, edges, m)
<1>1. sel \in ListsOf(edges, picks)
  BY DEF Selections
<1>2. PICK pick \in picks : sel = [i \in DOMAIN pick |-> edges[pick[i]]]
  BY <1>1 DEF ListsOf
<1>3. /\ pick \in DiversePicks(q, edges, m) \cup NearestPicks(q, edges, m)
      /\ few => pick \in NearestPicks(q, edges, m)
  BY <1>2
<1>4. (~h => few) /\ (~(Cardinality(DOMAIN edges) > m) => few)
  OBVIOUS
<1> HIDE DEF few, picks
<1> QED BY <1>2, <1>3, <1>4

\* A selection takes no entry twice.
LEMMA SelectionDraws ==
  ASSUME NEW q \in Node, NEW edges, NEW m \in Nat, NEW h,
         EdgeList(edges), NEW sel \in Selections(q, edges, m, h)
  PROVE  \E pick : Draws(sel, edges, pick)
<1>1. PICK pick \in DiversePicks(q, edges, m) \cup NearestPicks(q, edges, m) :
        sel = [i \in DOMAIN pick |-> edges[pick[i]]]
  BY SelectionsPick
<1>2. IsInjective(pick) /\ \E k \in 0..m : pick \in [1..k -> DOMAIN edges]
  BY PickInjective DEF DistinctPlaces
<1>3. DOMAIN sel = DOMAIN pick /\ pick \in [DOMAIN pick -> DOMAIN edges]
  BY <1>1, <1>2
<1> QED BY <1>1, <1>2, <1>3 DEF Draws

\* Pruning keeps no entry twice.
LEMMA PrunedDraws ==
  ASSUME NEW q \in Node, NEW list \in Seq(Node), NEW m \in Nat, NEW h,
         NEW kept \in Pruned(q, list, m, h)
  PROVE  \E pick : Draws(kept, list, pick)
<1>1. EdgeList(list)
  BY DEF EdgeList
<1>2. CASE Len(list) <= m
  <2>1. kept = list
    BY <1>2 DEF Pruned
  <2>2. Draws(kept, list, [i \in DOMAIN list |-> i])
    BY <2>1 DEF Draws, IsInjective
  <2> QED BY <2>2
<1>3. CASE ~(Len(list) <= m)
  BY <1>1, <1>3, SelectionDraws DEF Pruned
<1> QED BY <1>2, <1>3

\* Something is picked whenever there is something to pick from: the loop
\* of the heuristic keeps the first entry it examines.
LEMMA PickNonempty ==
  ASSUME NEW q \in Node, NEW edges, NEW m \in Nat \ {0},
         EdgeList(edges), DOMAIN edges # {},
         NEW pick \in DiversePicks(q, edges, m) \cup NearestPicks(q, edges, m)
  PROVE  DOMAIN pick # {}
<1>1. PICK k \in 0..m : pick \in [1..k -> DOMAIN edges] /\ Len(pick) = k
  BY PickInjective DEF DistinctPlaces
<1>2. ASSUME NEW kept, NEW spare, kept # {}, ListsApart(q, edges, m, kept, spare, pick)
      PROVE  DOMAIN pick # {}
  <2>1. PICK t \in kept : TRUE
    BY <1>2
  <2>2. Len(pick) = m \/ \E i \in DOMAIN pick : pick[i] = t
    BY <1>2, <2>1, ListingFacts
  <2>3. DOMAIN pick = 1..k /\ Len(pick) = k /\ k \in Nat
    BY <1>1
  <2>4. CASE Len(pick) = m
    BY <2>3, <2>4
  <2>5. CASE \E i \in DOMAIN pick : pick[i] = t
    BY <2>5
  <2> QED BY <2>2, <2>4, <2>5
<1>4. ASSUME NEW kept \in SUBSET DOMAIN edges, IsDiverse(q, edges, m, kept)
      PROVE  kept # {}
  <2> SUFFICES ASSUME kept = {} PROVE FALSE
    OBVIOUS
  <2>1. PICK t \in DOMAIN edges : TRUE
    OBVIOUS
  <2>2. Examined(q, edges, m, kept, t)
    <3>1. {s \in kept : Precedes(q, edges, s, t)} = {}
      OBVIOUS
    <3> QED BY <3>1, FS_EmptySet DEF Examined
  <2> QED BY <1>4, <2>1, <2>2 DEF IsDiverse
<1> QED BY <1>2, <1>4, PickLists

\* Selecting from something and pruning something leave something.
LEMMA SelectionNonempty ==
  ASSUME NEW q \in Node, NEW edges, NEW m \in Nat \ {0}, NEW h,
         EdgeList(edges), DOMAIN edges # {}, NEW sel \in Selections(q, edges, m, h)
  PROVE  sel # <<>>
<1>1. PICK pick \in DiversePicks(q, edges, m) \cup NearestPicks(q, edges, m) :
        sel = [i \in DOMAIN pick |-> edges[pick[i]]]
  BY SelectionsPick
<1>2. DOMAIN pick # {}
  BY PickNonempty
<1>3. DOMAIN sel # {}
  BY <1>1, <1>2
<1> QED BY <1>3

LEMMA PrunedNonempty ==
  ASSUME NEW q \in Node, NEW list \in Seq(Node), NEW m \in Nat \ {0}, NEW h,
         list # <<>>, NEW kept \in Pruned(q, list, m, h)
  PROVE  kept # <<>>
<1>1. EdgeList(list) /\ DOMAIN list # {}
  <2>1. 1 \in DOMAIN list /\ DOMAIN list = 1..Len(list) /\ Len(list) \in Nat
    BY HeadTailElements, LenProperties
  <2>2. \A d \in DOMAIN list : list[d] \in Node
    BY <2>1, ElementOfSeq
  <2> QED BY <2>1, <2>2 DEF EdgeList
<1>2. CASE Len(list) <= m
  BY <1>2 DEF Pruned
<1>3. CASE ~(Len(list) <= m)
  BY <1>1, <1>3, SelectionNonempty DEF Pruned
<1> QED BY <1>2, <1>3

\* Picking the closest, and the heuristic that fills up with what it had
\* discarded, return m entries if there are as many.
LEMMA PickFills ==
  ASSUME NEW q \in Node, NEW edges, NEW m \in Nat, EdgeList(edges),
         IsFiniteSet(DOMAIN edges), Cardinality(DOMAIN edges) >= m,
         NEW pick, pick \in NearestPicks(q, edges, m)
                   \/ (KeepPruned /\ pick \in DiversePicks(q, edges, m))
  PROVE  Len(pick) = m
<1>1. PICK k \in 0..m : pick \in [1..k -> DOMAIN edges] /\ Len(pick) = k
  BY PickInjective DEF DistinctPlaces
<1> DEFINE chosen == {pick[i] : i \in DOMAIN pick}
<1>2. IsFiniteSet(chosen) /\ Cardinality(chosen) <= k
  <2>1. pick \in Surjection(1..k, chosen)
    BY <1>1 DEF Surjection
  <2>2. IsFiniteSet(1..k) /\ Cardinality(1..k) = k
    BY FS_Interval
  <2> HIDE DEF chosen
  <2> QED BY <2>1, <2>2, FS_Surjection
<1>3. Cardinality(chosen) \in Nat
  BY <1>2, FS_CardinalityType
<1>4. ASSUME NEW S \in SUBSET chosen, Cardinality(S) >= m PROVE Len(pick) = m
  <2> HIDE DEF chosen
  <2>1. Cardinality(S) <= Cardinality(chosen) /\ Cardinality(S) \in Nat
    BY <1>2, FS_Subset, FS_CardinalityType
  <2> QED BY <1>1, <1>2, <1>3, <1>4, <2>1
<1>5. CASE ListsApart(q, edges, m, DOMAIN edges, {}, pick)
  <2>1. CASE DOMAIN edges \subseteq chosen
    BY <1>4, <2>1
  <2>2. CASE ~(DOMAIN edges \subseteq chosen)
    BY <1>5, <2>2, ListingFacts
  <2> QED BY <2>1, <2>2
<1>6. ASSUME KeepPruned, NEW kept \in SUBSET DOMAIN edges,
             ListsApart(q, edges, m, kept, Discarded(q, edges, m, kept), pick)
      PROVE  Len(pick) = m
  <2> DEFINE spare == Discarded(q, edges, m, kept)
  <2>1. CASE ~(kept \cup spare \subseteq chosen)
    BY <1>6, <2>1, ListingFacts
  <2>2. CASE kept \cup spare \subseteq chosen
    <3>1. CASE DOMAIN edges \subseteq kept \cup spare
      BY <1>4, <2>2, <3>1
    <3>2. ASSUME NEW t \in DOMAIN edges \ (kept \cup spare) PROVE Len(pick) = m
      <4> DEFINE earlier == {s \in kept : Precedes(q, edges, s, t)}
      <4>1. ~(Cardinality(earlier) < m)
        BY <1>6, <3>2 DEF Discarded, Examined
      <4>2. earlier \in SUBSET chosen
        BY <2>2
      <4> HIDE DEF earlier, chosen
      <4>3. Cardinality(earlier) \in Nat
        BY <1>2, <4>2, FS_Subset, FS_CardinalityType
      <4> QED BY <1>4, <4>1, <4>2, <4>3
    <3> QED BY <3>1, <3>2
  <2> QED BY <2>1, <2>2
<1>7. CASE pick \in NearestPicks(q, edges, m)
  <2>1. ListsApart(q, edges, m, DOMAIN edges, {}, pick)
    BY <1>7 DEF NearestPicks, ListsApart
  <2> QED BY <1>5, <2>1
<1>8. CASE KeepPruned /\ pick \in DiversePicks(q, edges, m)
  BY <1>5, <1>6, <1>8, PickLists
<1> QED BY <1>7, <1>8

\* If not, picking the closest takes them all.
LEMMA NearestTakesAll ==
  ASSUME NEW q \in Node, NEW edges, NEW m \in Nat, EdgeList(edges),
         IsFiniteSet(DOMAIN edges), Cardinality(DOMAIN edges) <= m,
         NEW pick \in NearestPicks(q, edges, m), NEW d \in DOMAIN edges
  PROVE  \E i \in DOMAIN pick : pick[i] = d
<1> SUFFICES ASSUME ~\E i \in DOMAIN pick : pick[i] = d PROVE FALSE
  OBVIOUS
<1>1. /\ IsInjective(pick)
      /\ \E k \in 0..m : pick \in [1..k -> DOMAIN edges] /\ Len(pick) = k
  BY PickInjective DEF DistinctPlaces
<1>2. ListsApart(q, edges, m, DOMAIN edges, {}, pick)
  BY DEF NearestPicks, ListsApart
<1>3. Len(pick) = m
  BY <1>2, ListingFacts
<1> DEFINE others == DOMAIN edges \ {d}
<1>4. pick \in [1..m -> others]
  BY <1>1, <1>3
<1>5. IsFiniteSet(others) /\ Cardinality(others) = Cardinality(DOMAIN edges) - 1
  BY FS_RemoveElement
<1>6. IsFiniteSet(1..m) /\ Cardinality(1..m) = m
  BY FS_Interval
<1>7. pick \in Injection(1..m, others)
  BY <1>1, <1>4 DEF Injection
<1> HIDE DEF others
<1>8. Cardinality(1..m) <= Cardinality(others)
  BY <1>5, <1>7, FS_Injection
<1>9. Cardinality(DOMAIN edges) \in Nat
  BY FS_CardinalityType
<1> QED BY <1>5, <1>6, <1>8, <1>9

\* A list over its limit is pruned to the limit exactly, if the heuristic
\* is not used or fills up.
LEMMA PrunedFills ==
  ASSUME NEW q \in Node, NEW list \in Seq(Node), NEW m \in Nat, NEW h,
         h => KeepPruned, Len(list) > m, NEW kept \in Pruned(q, list, m, h)
  PROVE  Len(kept) = m
<1>1. EdgeList(list) /\ DOMAIN list = 1..Len(list) /\ Len(list) \in Nat
  BY LenProperties, ElementOfSeq DEF EdgeList
<1>2. IsFiniteSet(DOMAIN list) /\ Cardinality(DOMAIN list) = Len(list)
  BY <1>1, FS_Interval
<1>3. kept \in Selections(q, list, m, h)
  BY DEF Pruned
<1>4. PICK pick \in DiversePicks(q, list, m) \cup NearestPicks(q, list, m) :
        /\ kept = [i \in DOMAIN pick |-> list[pick[i]]]
        /\ ~h => pick \in NearestPicks(q, list, m)
  BY <1>3, SelectionsPick
<1>5. Len(pick) = m
  BY <1>1, <1>2, <1>4, PickFills
<1>6. pick \in [1..m -> DOMAIN list]
  BY <1>1, <1>4, <1>5, PickInjective DEF DistinctPlaces
<1>7. kept \in [1..m -> Node]
  BY <1>1, <1>4, <1>6 DEF EdgeList
<1> QED BY <1>7

\* Of two different vectors one is closer.
LEMMA CloserTotal ==
  ASSUME NEW q \in Node, NEW a \in Node, NEW b \in Node
  PROVE  /\ a = b \/ Closer(q, a, b) \/ Closer(q, b, a)
         /\ ~(Closer(q, a, b) /\ Closer(q, b, a))
         /\ ~Closer(q, a, a)
<1>1. Dist[q][a] \in Int /\ Dist[q][b] \in Int
  BY DistType
<1>2. Dist[q][a] = Dist[q][b] => a = b
  BY DistAssumption
<1> QED BY <1>1, <1>2 DEF Closer

LEMMA CloserTransitive ==
  ASSUME NEW q \in Node, NEW a \in Node, NEW b \in Node, NEW c \in Node,
         Closer(q, a, b), Closer(q, b, c)
  PROVE  Closer(q, a, c)
BY DistType DEF Closer

\* No member of a set beats the best of the k closest.
LEMMA ClosestBest ==
  ASSUME NEW q \in Node, NEW S \in SUBSET Node, NEW k \in Nat \ {0}, NEW v \in S
  PROVE  \E r \in Closest(q, S, k) : r = v \/ Closer(q, r, v)
<1>1. PICK x \in S : \A y \in S : ~Closer(q, y, x)
  BY NearestExists
<1>2. {y \in S : Closer(q, y, x)} = {}
  BY <1>1
<1>3. x \in Closest(q, S, k)
  BY <1>2, FS_EmptySet DEF Closest
<1>4. x = v \/ Closer(q, x, v)
  BY <1>1, CloserTotal
<1> QED BY <1>3, <1>4

\* Sorting and truncating a set lists members of it, each closer than the next.
LEMMA SortedSelection ==
  ASSUME NEW q \in Node, NEW S \in SUBSET Node, NEW m \in Nat,
         NEW sel \in Selections(q, [x \in S |-> x], m, FALSE)
  PROVE  \E size \in 0..m : /\ sel \in [1..size -> S]
                            /\ \A i, j \in 1..size : i < j => Closer(q, sel[i], sel[j])
<1> DEFINE edges == [x \in S |-> x]
<1>1. DOMAIN edges = S /\ \A x \in S : edges[x] = x
  OBVIOUS
<1>2. sel \in Selections(q, edges, m, FALSE)
  OBVIOUS
<1> HIDE DEF edges
<1>3. PICK pick \in NearestPicks(q, edges, m) : sel = [i \in DOMAIN pick |-> edges[pick[i]]]
  BY <1>2 DEF Selections, ListsOf
<1>4. PICK size \in 0..m : pick \in [1..size -> S]
  BY <1>1, <1>3 DEF NearestPicks, Picks
<1>5. \A i, j \in 1..size : i < j => Precedes(q, edges, pick[i], pick[j])
  <2>1. IsListing(q, edges, m, S, {}, pick)
    BY <1>1, <1>3 DEF NearestPicks
  <2> QED BY <1>4, <2>1 DEF IsListing
<1>6. ASSUME NEW i \in 1..size, NEW j \in 1..size, i < j
      PROVE  Closer(q, pick[i], pick[j])
  <2>1. pick[i] \in S /\ pick[j] \in S
    BY <1>4
  <2>2. edges[pick[i]] = pick[i] /\ edges[pick[j]] = pick[j]
    BY <1>1, <2>1
  <2>3. Precedes(q, edges, pick[i], pick[j])
    BY <1>5, <1>6
  <2>4. Closer(q, pick[i], pick[j]) \/ (pick[i] = pick[j] /\ pick[i] < pick[j])
    BY <2>2, <2>3 DEF Precedes
  <2>5. pick[i] \in Nat /\ pick[j] \in Nat
    BY <2>1, NodeAssumption
  <2>6. pick[i] # pick[j] \/ ~(pick[i] < pick[j])
    BY <2>5
  <2> QED BY <2>4, <2>6
<1>7. sel \in [1..size -> S] /\ \A i \in 1..size : sel[i] = pick[i]
  BY <1>1, <1>3, <1>4
<1> QED BY <1>6, <1>7

\* The first of them is the closest of all.
LEMMA SortedFirst ==
  ASSUME NEW q \in Node, NEW S \in SUBSET Node, NEW m \in Nat,
         NEW sel \in Selections(q, [x \in S |-> x], m, FALSE), sel # <<>>
  PROVE  sel[1] \in S /\ \A x \in S : x = sel[1] \/ Closer(q, sel[1], x)
<1> DEFINE edges == [x \in S |-> x]
<1>1. DOMAIN edges = S /\ \A x \in S : edges[x] = x
  OBVIOUS
<1>2. sel \in Selections(q, edges, m, FALSE)
  OBVIOUS
<1> HIDE DEF edges
<1>3. PICK pick \in NearestPicks(q, edges, m) : sel = [i \in DOMAIN pick |-> edges[pick[i]]]
  BY <1>2 DEF Selections, ListsOf
<1>4. PICK size \in 0..m : pick \in [1..size -> S]
  BY <1>1, <1>3 DEF NearestPicks, Picks
<1>5. 1 \in 1..size
  <2>1. size # 0
    <3>1. size = 0 => DOMAIN sel = {}
      BY <1>3, <1>4
    <3>2. size = 0 => sel = <<>>
      BY <1>3, <1>4, <3>1
    <3> QED BY <3>2
  <2> QED BY <2>1
<1>6. sel[1] = pick[1] /\ pick[1] \in S
  BY <1>1, <1>3, <1>4, <1>5
<1>7. IsListing(q, edges, m, S, {}, pick)
  BY <1>1, <1>3 DEF NearestPicks
<1>8. ASSUME NEW x \in S, x # pick[1] PROVE Precedes(q, edges, pick[1], x)
  <2>1. CASE \E i \in DOMAIN pick : pick[i] = x
    <3>1. PICK i \in 1..size : pick[i] = x
      BY <1>4, <2>1
    <3>2. 1 < i
      BY <1>8, <3>1
    <3> QED BY <1>4, <1>5, <1>7, <3>1, <3>2 DEF IsListing
  <2>2. CASE ~\E i \in DOMAIN pick : pick[i] = x
    <3>1. pick[1] \in {pick[i] : i \in DOMAIN pick}
      BY <1>4, <1>5
    <3> QED BY <1>7, <2>2, <3>1 DEF IsListing
  <2> QED BY <2>1, <2>2
<1>9. \A x \in S : x = pick[1] \/ Closer(q, pick[1], x)
  BY <1>1, <1>6, <1>8 DEF Precedes
<1> QED BY <1>6, <1>9

-----------------------------------------------------------------------------
(* How many the closest are, and adding to them                            *)

Nearer(q, S, x) == {y \in S : Closer(q, y, x)}

LEMMA NodesCounted ==
  ASSUME NEW S \in SUBSET Node
  PROVE  IsFiniteSet(S) /\ Cardinality(S) \in Nat
BY NodeAssumption, FS_Subset, FS_CardinalityType

LEMMA NearerCounted ==
  ASSUME NEW q, NEW S \in SUBSET Node, NEW x
  PROVE  /\ Nearer(q, S, x) \in SUBSET S /\ IsFiniteSet(Nearer(q, S, x))
         /\ Cardinality(Nearer(q, S, x)) \in Nat
<1>1. Nearer(q, S, x) \in SUBSET S
  BY DEF Nearer
<1> QED BY <1>1, NodesCounted

\* One set of nodes inside another has no more of them.
LEMMA NodesWithin ==
  ASSUME NEW S \in SUBSET Node, NEW T \in SUBSET S
  PROVE  Cardinality(T) <= Cardinality(S) /\ (T # S => Cardinality(T) < Cardinality(S))
<1>1. IsFiniteSet(S) /\ T \in SUBSET Node
  BY NodesCounted
<1>2. Cardinality(T) <= Cardinality(S) /\ (Cardinality(S) = Cardinality(T) => S = T)
  BY <1>1, FS_Subset
<1>3. Cardinality(S) \in Nat /\ Cardinality(T) \in Nat
  BY <1>1, NodesCounted
<1> QED BY <1>2, <1>3

\* Some member of a set is such that every other one is closer.
LEMMA FarthestExists ==
  ASSUME NEW q \in Node, NEW S \in SUBSET Node, S # {}
  PROVE  \E x \in S : \A y \in S : y = x \/ Closer(q, y, x)
<1> DEFINE farther(x) == {y \in S : Closer(q, x, y)}
           T == {Cardinality(farther(x)) : x \in S}
<1>1. \A x \in S : farther(x) \in SUBSET Node
  OBVIOUS
<1> HIDE DEF farther
<1>2. T \subseteq Nat /\ T # {}
  BY <1>1, NodesCounted
<1>3. PICK c \in T : \A d \in T : c <= d
  BY <1>2, LeastExists
<1>4. PICK x \in S : c = Cardinality(farther(x))
  OBVIOUS
<1>5. ASSUME NEW y \in S, Closer(q, x, y) PROVE FALSE
  <2>1. farther(y) \in SUBSET farther(x)
    BY <1>5, DistType DEF Closer, farther
  <2>2. y \in farther(x) /\ y \notin farther(y)
    BY <1>5, DistType DEF Closer, farther
  <2>3. Cardinality(farther(x)) <= Cardinality(farther(y))
    BY <1>3, <1>4
  <2>4. Cardinality(farther(y)) < Cardinality(farther(x))
    BY <1>1, <2>1, <2>2, NodesWithin
  <2>5. Cardinality(farther(y)) \in Nat /\ Cardinality(farther(x)) \in Nat
    BY <1>1, NodesCounted
  <2> QED BY <2>3, <2>4, <2>5
<1>6. \A y \in S : y = x \/ Closer(q, y, x)
  BY <1>5, CloserTotal
<1> QED BY <1>6

LEMMA ClosestMeans ==
  ASSUME NEW q, NEW S, NEW k
  PROVE  Closest(q, S, k) = {x \in S : Cardinality(Nearer(q, S, x)) < k}
BY DEF Closest, Nearer

\* A set that fits is kept whole.
LEMMA ClosestWhole ==
  ASSUME NEW q \in Node, NEW S \in SUBSET Node, NEW k \in Nat, Cardinality(S) <= k
  PROVE  Closest(q, S, k) = S
<1>1. ASSUME NEW x \in S PROVE Cardinality(Nearer(q, S, x)) < k
  <2>1. x \notin Nearer(q, S, x)
    BY CloserTotal DEF Nearer
  <2>2. Cardinality(Nearer(q, S, x)) < Cardinality(S)
    BY <2>1, NearerCounted, NodesWithin
  <2> QED BY <2>2, NearerCounted, NodesCounted
<1> QED BY <1>1, ClosestMeans

\* Of a larger set exactly k are kept.
LEMMA ClosestFills ==
  ASSUME NEW q \in Node, NEW k \in Nat
  PROVE  \A S \in SUBSET Node : Cardinality(S) > k => Cardinality(Closest(q, S, k)) = k
<1> DEFINE Bad(S) == Cardinality(S) > k /\ Cardinality(Closest(q, S, k)) # k
           sizes == {n \in Nat : \E S \in SUBSET Node : Bad(S) /\ Cardinality(S) = n}
<1> SUFFICES ASSUME NEW S0 \in SUBSET Node, Bad(S0) PROVE FALSE
  OBVIOUS
<1>1. sizes # {} /\ sizes \subseteq Nat
  BY NodesCounted
<1>2. PICK n \in sizes : \A j \in sizes : n <= j
  BY <1>1, LeastExists
<1>3. PICK S \in SUBSET Node : Bad(S) /\ Cardinality(S) = n
  BY <1>2
<1>4. n \in Nat /\ n > k /\ S # {}
  BY <1>3, FS_EmptySet
<1>5. PICK f \in S : \A y \in S : y = f \/ Closer(q, y, f)
  BY <1>4, FarthestExists
<1> DEFINE rest == S \ {f}
<1>6. rest \in SUBSET Node /\ Cardinality(rest) = n - 1
  BY <1>3, <1>5, NodesCounted, FS_RemoveElement
<1>7. Nearer(q, S, f) = rest
  BY <1>5, CloserTotal DEF Nearer
<1>8. \A x \in rest : Nearer(q, S, x) = Nearer(q, rest, x)
  BY <1>5, CloserTotal DEF Nearer
<1>9. Closest(q, S, k) = Closest(q, rest, k)
  <2>1. f \notin Closest(q, S, k)
    <3>1. Cardinality(Nearer(q, S, f)) = n - 1
      BY <1>6, <1>7
    <3>2. ~(n - 1 < k)
      BY <1>4
    <3> QED BY <3>1, <3>2, ClosestMeans
  <2>2. Closest(q, S, k) = {x \in S : Cardinality(Nearer(q, S, x)) < k}
    BY ClosestMeans
  <2>3. Closest(q, rest, k) = {x \in rest : Cardinality(Nearer(q, rest, x)) < k}
    BY ClosestMeans
  <2>4. Closest(q, S, k) = {x \in rest : Cardinality(Nearer(q, S, x)) < k}
    BY <2>1, <2>2
  <2>5. \A x \in rest : Cardinality(Nearer(q, S, x)) = Cardinality(Nearer(q, rest, x))
    BY <1>8
  <2> HIDE DEF rest
  <2> QED BY <2>3, <2>4, <2>5
<1> HIDE DEF rest
<1>10. Cardinality(Closest(q, rest, k)) = k
  <2>1. CASE n - 1 = k
    <3>1. Closest(q, rest, k) = rest
      BY <1>6, <2>1, ClosestWhole
    <3> QED BY <1>6, <2>1, <3>1
  <2>2. CASE n - 1 # k
    <3>1. n - 1 \in Nat /\ n - 1 > k
      BY <1>4, <2>2
    <3>2. n - 1 \notin sizes
      BY <1>2, <1>4
    <3> QED BY <1>6, <3>1, <3>2
  <2> QED BY <2>1, <2>2
<1> QED BY <1>3, <1>9, <1>10

\* The farther of two vectors is kept only if the closer one is.
LEMMA ClosestDownward ==
  ASSUME NEW q \in Node, NEW S \in SUBSET Node, NEW k \in Nat,
         NEW x \in Closest(q, S, k), NEW y \in S, y \notin Closest(q, S, k)
  PROVE  Closer(q, x, y)
<1>1. x \in S /\ x # y /\ Cardinality(Nearer(q, S, x)) < k /\ ~(Cardinality(Nearer(q, S, y)) < k)
  BY ClosestMeans
<1>2. ASSUME Closer(q, y, x) PROVE FALSE
  <2>1. Nearer(q, S, y) \in SUBSET Nearer(q, S, x)
    <3>1. \A z \in S : Closer(q, z, y) => Closer(q, z, x)
      BY <1>1, <1>2, CloserTransitive
    <3> QED BY <3>1 DEF Nearer
  <2>2. Nearer(q, S, x) \in SUBSET Node
    BY NearerCounted
  <2>3. Cardinality(Nearer(q, S, y)) <= Cardinality(Nearer(q, S, x))
    BY <2>1, <2>2, NodesWithin
  <2> QED BY <1>1, <2>3, NearerCounted
<1> QED BY <1>1, <1>2, CloserTotal

\* Keeping the k closest loses nothing that matters later: adding to what was
\* kept gives what adding to the whole set would have.
LEMMA ClosestAgain ==
  ASSUME NEW q \in Node, NEW S \in SUBSET Node, NEW X \in SUBSET Node, NEW k \in Nat
  PROVE  Closest(q, Closest(q, S, k) \cup X, k) = Closest(q, S \cup X, k)
<1> DEFINE C == Closest(q, S, k)
           U == C \cup X
           W == S \cup X
<1>1. C \in SUBSET S /\ U \in SUBSET W /\ W \in SUBSET Node /\ U \in SUBSET Node
      /\ C \in SUBSET Node
  BY ClosestSubset
<1>2. \A x \in S \ C : ~(Cardinality(Nearer(q, S, x)) < k)
  BY ClosestMeans
<1>3. \A x \in C, y \in S \ C : Closer(q, x, y)
  BY ClosestDownward
<1>4. C # S => Cardinality(C) = k
  BY ClosestFills, ClosestWhole, NodesCounted
<1> HIDE DEF C
<1>5. ASSUME NEW x \in W, Cardinality(Nearer(q, W, x)) < k
      PROVE  x \in U /\ Cardinality(Nearer(q, U, x)) < k
  <2>1. Nearer(q, U, x) \in SUBSET Nearer(q, W, x) /\ Nearer(q, S, x) \in SUBSET Nearer(q, W, x)
    BY <1>1 DEF Nearer
  <2>2. /\ Cardinality(Nearer(q, U, x)) <= Cardinality(Nearer(q, W, x))
        /\ Cardinality(Nearer(q, S, x)) <= Cardinality(Nearer(q, W, x))
    <3>1. Nearer(q, W, x) \in SUBSET Node
      BY <1>1, NearerCounted
    <3> QED BY <2>1, <3>1, NodesWithin
  <2>3. /\ Cardinality(Nearer(q, U, x)) < k /\ Cardinality(Nearer(q, S, x)) < k
    <3>1. /\ Cardinality(Nearer(q, U, x)) \in Nat /\ Cardinality(Nearer(q, S, x)) \in Nat
          /\ Cardinality(Nearer(q, W, x)) \in Nat
      BY <1>1, NearerCounted
    <3> QED BY <1>5, <2>2, <3>1
  <2>4. x \in U
    BY <1>2, <2>3
  <2> QED BY <2>3, <2>4
<1>6. ASSUME NEW x \in U, Cardinality(Nearer(q, U, x)) < k
      PROVE  Cardinality(Nearer(q, W, x)) < k
  <2>1. CASE Nearer(q, W, x) = Nearer(q, U, x)
    BY <1>6, <2>1
  <2>2. CASE Nearer(q, W, x) # Nearer(q, U, x)
    <3>1. PICK y \in S \ C : Closer(q, y, x)
      BY <1>1, <2>2 DEF Nearer
    <3>2. C \in SUBSET Nearer(q, U, x)
      <4>1. \A c \in C : Closer(q, c, x)
        BY <1>1, <1>3, <3>1, CloserTransitive
      <4> QED BY <4>1 DEF Nearer
    <3>3. Cardinality(C) = k
      BY <1>4, <3>1
    <3>4. Cardinality(C) <= Cardinality(Nearer(q, U, x))
      <4>1. Nearer(q, U, x) \in SUBSET Node
        BY <1>1, NearerCounted
      <4> QED BY <3>2, <4>1, NodesWithin
    <3>5. Cardinality(Nearer(q, U, x)) \in Nat
      BY <1>1, NearerCounted
    <3> QED BY <1>6, <3>3, <3>4, <3>5
  <2> QED BY <2>1, <2>2
<1>7. Closest(q, U, k) = {x \in U : Cardinality(Nearer(q, U, x)) < k}
  BY ClosestMeans
<1>8. Closest(q, W, k) = {x \in W : Cardinality(Nearer(q, W, x)) < k}
  BY ClosestMeans
<1>9. Closest(q, U, k) = Closest(q, W, k)
  BY <1>1, <1>5, <1>6, <1>7, <1>8
<1> QED BY <1>9 DEF C

\* Sorting and truncating a set lists its m closest members, each once.
LEMMA SortedIsClosest ==
  ASSUME NEW q \in Node, NEW S \in SUBSET Node, NEW m \in Nat,
         NEW sel \in Selections(q, [x \in S |-> x], m, FALSE)
  PROVE  /\ Len(sel) = IF Cardinality(S) <= m THEN Cardinality(S) ELSE m
         /\ {sel[i] : i \in DOMAIN sel} = Closest(q, S, m)
<1> DEFINE edges == [x \in S |-> x]
<1>1. DOMAIN edges = S /\ \A x \in S : edges[x] = x
  OBVIOUS
<1>2. sel \in Selections(q, edges, m, FALSE)
  OBVIOUS
<1> HIDE DEF edges
<1>3. PICK pick \in NearestPicks(q, edges, m) : sel = [i \in DOMAIN pick |-> edges[pick[i]]]
  BY <1>2 DEF Selections, ListsOf
<1>4. EdgeList(edges)
  <2>1. \A x \in S : x \in Int /\ x \in Node
    BY NodeAssumption
  <2> QED BY <1>1, <2>1 DEF EdgeList
<1>5. PICK size \in 0..m : IsInjective(pick) /\ pick \in [1..size -> S] /\ Len(pick) = size
  BY <1>1, <1>3, <1>4, PickInjective DEF DistinctPlaces
<1> DEFINE chosen == {sel[i] : i \in DOMAIN sel}
<1>6. sel \in [1..size -> S] /\ Len(sel) = size /\ \A i \in 1..size : sel[i] = pick[i]
  BY <1>1, <1>3, <1>5
<1>7. chosen \in SUBSET S /\ Cardinality(chosen) = size
  <2>1. sel \in Bijection(1..size, chosen)
    BY <1>5, <1>6 DEF Bijection, Injection, Surjection, IsInjective
  <2>2. IsFiniteSet(1..size) /\ Cardinality(1..size) = size
    BY FS_Interval
  <2>3. Cardinality(chosen) = Cardinality(1..size)
    <3> HIDE DEF chosen
    <3> QED BY <2>1, <2>2, FS_Bijection DEF ExistsBijection
  <2> QED BY <1>6, <2>2, <2>3
<1>8. IsFiniteSet(S) /\ Cardinality(S) \in Nat
  BY NodesCounted
<1>9. CASE Cardinality(S) <= m
  <2>1. \A d \in S : \E i \in DOMAIN pick : pick[i] = d
    BY <1>1, <1>3, <1>4, <1>8, <1>9, NearestTakesAll
  <2>2. chosen = S
    BY <1>5, <1>6, <2>1
  <2>3. Closest(q, S, m) = S
    BY <1>9, ClosestWhole
  <2> QED BY <1>6, <1>7, <1>9, <2>2, <2>3
<1>10. CASE Cardinality(S) > m
  <2>1. size = m
    BY <1>1, <1>3, <1>4, <1>5, <1>8, <1>10, PickFills
  <2>2. ASSUME NEW x \in S \ chosen, NEW c \in chosen PROVE Closer(q, c, x)
    <3>1. IsListing(q, edges, m, S, {}, pick)
      BY <1>1, <1>3 DEF NearestPicks
    <3>2. chosen = {pick[i] : i \in DOMAIN pick}
      BY <1>5, <1>6
    <3> HIDE DEF chosen
    <3>3. c \in S
      BY <1>7
    <3>4. Precedes(q, edges, c, x)
      BY <2>2, <3>1, <3>2, <3>3 DEF IsListing
    <3> QED BY <1>1, <2>2, <3>3, <3>4 DEF Precedes
  <2> HIDE DEF chosen
  <2>3. chosen \in SUBSET Node
    BY <1>7
  <2>4. ASSUME NEW x \in chosen PROVE Cardinality(Nearer(q, S, x)) < m
    <3>1. Nearer(q, S, x) \in SUBSET chosen /\ x \notin Nearer(q, S, x)
      BY <1>7, <2>2, <2>3, CloserTotal DEF Nearer
    <3>2. Nearer(q, S, x) # chosen
      BY <3>1
    <3> QED BY <1>7, <2>1, <2>3, <3>1, <3>2, NodesWithin
  <2>5. ASSUME NEW x \in S \ chosen PROVE ~(Cardinality(Nearer(q, S, x)) < m)
    <3>1. chosen \in SUBSET Nearer(q, S, x) /\ Nearer(q, S, x) \in SUBSET Node
      BY <1>7, <2>2, NearerCounted DEF Nearer
    <3>2. Cardinality(chosen) <= Cardinality(Nearer(q, S, x))
      BY <3>1, NodesWithin
    <3> QED BY <1>7, <2>1, <3>2, NearerCounted
  <2>6. Closest(q, S, m) = {x \in S : Cardinality(Nearer(q, S, x)) < m}
    BY ClosestMeans
  <2>7. chosen = Closest(q, S, m)
    BY <1>7, <2>4, <2>5, <2>6
  <2> QED BY <1>6, <1>8, <1>10, <2>1, <2>7 DEF chosen
<1> QED BY <1>8, <1>9, <1>10
=============================================================================
