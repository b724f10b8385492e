-------------------------- MODULE MCParallelBuild --------------------------
(* Instances of ParallelBuild for TLC: points on a line, all of whose      *)
(* distances from any one point differ.                                    *)
EXTENDS ParallelBuild

CONSTANT Count   \* how many vectors are inserted

Position == <<0, 1, 3, 7, 12>>
MCNode == 0..(Count - 1)
MCDist ==
  [a \in MCNode |-> [b \in MCNode |->
     LET d == Position[a + 1] - Position[b + 1] IN IF d < 0 THEN -d ELSE d]]
=============================================================================
