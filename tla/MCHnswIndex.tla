---------------------------- MODULE MCHnswIndex ----------------------------
(* Instances of HnswIndex for TLC: points on a line, all of whose          *)
(* distances from any one point differ.                                    *)
EXTENDS HnswIndex

CONSTANT Count   \* how many different vectors there are

Position == <<0, 1, 3, 7, 12, 20>>
MCNode == 0..(Count - 1)
MCDist ==
  [a \in MCNode |-> [b \in MCNode |->
     LET d == Position[a + 1] - Position[b + 1] IN IF d < 0 THEN -d ELSE d]]
NoFilters == {}
SomeFilters == {{0, 2}, {3}}
=============================================================================
