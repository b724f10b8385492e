-------------------------- MODULE VectorCollection --------------------------
(***************************************************************************)
(* What Hnsw promises its caller, with no graph: vectors get ids in order  *)
(* of insertion, an id is live until it is removed and again once it is    *)
(* restored, compaction renumbers the live vectors densely in the same     *)
(* order, and a search answers with live vectors, closest first.  Which    *)
(* ones is up to the index: the search is approximate.                     *)
(***************************************************************************)
EXTENDS Integers, SequencesExt

CONSTANTS Node,   \* the vectors
          Dist,   \* the metric
          MaxK    \* bound: the largest k asked for

VARIABLES vectors,  \* the vector of id i is vectors[i + 1]
          dead,     \* tombstoned positions of that sequence
          answer    \* of the last operation, if it was a search

vars == <<vectors, dead, answer>>

Live == DOMAIN vectors \ dead
LiveVectors == {vectors[i] : i \in Live}

Init == vectors = <<>> /\ dead = {} /\ answer = <<>>

Insert ==
  /\ \E n \in Node \ ToSet(vectors) : vectors' = Append(vectors, n)
  /\ answer' = <<>>
  /\ UNCHANGED dead

RemoveVector ==
  /\ \E i \in Live : dead' = dead \union {i}
  /\ answer' = <<>>
  /\ UNCHANGED vectors

RestoreVector ==
  /\ \E i \in dead : dead' = dead \ {i}
  /\ answer' = <<>>
  /\ UNCHANGED vectors

Compact ==
  /\ dead' = {} /\ answer' = <<>>
  /\ \E keep \in [1..Cardinality(Live) -> Live] :
       /\ \A i, j \in DOMAIN keep : i < j => keep[i] < keep[j]
       /\ vectors' = [i \in DOMAIN keep |-> vectors[keep[i]]]

NearestFirst(q, found) ==
  \A i, j \in DOMAIN found : i < j => Dist[q][found[i]] < Dist[q][found[j]]

\* Live vectors, as many as the caller asked for or fewer, closest to q first.
Search ==
  /\ \E q \in Node, size \in 0..MaxK : \E found \in [1..size -> LiveVectors] :
       NearestFirst(q, found) /\ answer' = found
  /\ UNCHANGED <<vectors, dead>>

\* An operation that changes nothing here: a search under way, a removal
\* of what is gone already.
Forget == answer' = <<>> /\ UNCHANGED <<vectors, dead>>

Next == Insert \/ RemoveVector \/ RestoreVector \/ Compact \/ Search \/ Forget

Spec == Init /\ [][Next]_vars
=============================================================================
