--------------------------- MODULE MCReuseBindSlot ---------------------------
(* Up to three different requests of two requestors, no context and two       *)
(* contexts, three sequence numbers and two records: every two cases of the   *)
(* merge meet, in every order, and a third request follows them.              *)
EXTENDS ReuseBindSlot
=============================================================================
