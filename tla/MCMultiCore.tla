----------------------------- MODULE MCMultiCore -----------------------------
(* Threads 0 and 2 run on core 0 and thread 1 on core 1.  Four calls can fill  *)
(* the three ways of the L3 and replace one.                                    *)
EXTENDS MultiCore

MCWays == [L1 |-> 1, L2 |-> 2, L3 |-> 3]
MCRequests == {<<0, TRUE>>, <<1, FALSE>>}
MCTier == [l \in {0, 1} |-> 3]
MCNextRef == [v \in {0} |-> MCTier]
===============================================================================
