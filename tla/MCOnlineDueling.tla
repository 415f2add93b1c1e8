--------------------------- MODULE MCOnlineDueling ---------------------------
(* Instances of the selector: the sets that miss include leaders of three     *)
(* arms, one of them in the second group of 64 sets, and the first follower.  *)
EXTENDS DuelingRefinement

MCSets == {0, 1, 66, 3}
=============================================================================
