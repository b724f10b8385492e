----------------------------- MODULE EntryPoint -----------------------------
(***************************************************************************)
(* What inserting one vector after another promises about the entry point  *)
(* (the end of Hnsw::insert): it is an inserted node, its recorded level   *)
(* is the node's own, no inserted node reaches higher, and it is replaced  *)
(* only by a node that does.                                               *)
(***************************************************************************)
EXTENDS Integers

CONSTANTS Node, Layer

VARIABLES levels,    \* the layer drawn for each node
          inserted,  \* nodes whose insertion is complete
          entry      \* (id, level)

vars == <<levels, inserted, entry>>

Init ==
  /\ levels \in [Node -> Layer]
  /\ inserted = {0}
  /\ entry = [id |-> 0, level |-> levels[0]]

Insert(n) ==
  /\ n \notin inserted
  /\ inserted' = inserted \union {n}
  /\ entry' = IF levels[n] > entry.level
              THEN [id |-> n, level |-> levels[n]]
              ELSE entry
  /\ UNCHANGED levels

Next == \E n \in Node : Insert(n)

Spec == Init /\ [][Next]_vars

-----------------------------------------------------------------------------
\* The entry point is an inserted node of the highest level present.
EntryIsTop ==
  /\ entry.id \in inserted
  /\ entry.level = levels[entry.id]
  /\ \A n \in inserted : levels[n] <= entry.level
=============================================================================
