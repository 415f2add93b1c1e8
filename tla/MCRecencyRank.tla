---------------------------- MODULE MCRecencyRank ----------------------------
(* RecencyRank on a four-way set, long enough for every order of the ways to  *)
(* be reached from the reset order and from every other order.                *)
EXTENDS RecencyRank
=============================================================================
