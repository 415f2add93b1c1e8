-------------------------- MODULE MCReusePlanEpochs --------------------------
(* A line of two vertices that each may have any of six readers, two pairs of *)
(* which share an epoch, over two sweeps: reads in the current epoch, before  *)
(* and after the reader, in the next sweep, by one vertex or by two.          *)
EXTENDS ReusePlanEpochs, TLC

CONSTANTS v1, v2

MCLine == {v1, v2}
Symmetry == Permutations(MCLine)
=============================================================================
