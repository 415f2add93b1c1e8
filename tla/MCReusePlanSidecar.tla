-------------------------- MODULE MCReusePlanSidecar --------------------------
(* Two generators, for two configurations of one graph, a reader that wants the *)
(* first and one with a graph of the same size but other edges.                 *)
EXTENDS ReusePlanSidecar, TLC

CONSTANTS g1, g2, r1, r2, pid1, pid2, wiki, road

MCSymmetry == Permutations(Pids)
MCSizeOf == [g \in Graphs |-> 9]
MCPlanOf == [p \in Processes |-> <<IF p = r2 THEN road ELSE wiki, IF p = g2 THEN 16 ELSE 8>>]
===============================================================================
