--------------------------- MODULE MCCacheHierarchy ---------------------------
(* Lines 0 to 3 are property data, 4 to 7 edge records and 8 and 9 the columns  *)
(* of two epochs, 12 and 15 other data; the first three groups are a region of  *)
(* the stream detector each, two of them share an entry of its table.  The LLC  *)
(* has three sets: one follows the placement and two lead it; 0, 3, 12 and 15   *)
(* share its first.                                                             *)
EXTENDS CacheHierarchy

MCSets == [L1 |-> 1, L2 |-> 1, L3 |-> 3]
MCWays == [L1 |-> 1, L2 |-> 2, L3 |-> 2]
MCTier == [l \in Lines |-> IF l \in {0, 3} THEN 1 ELSE IF l = 1 THEN 2 ELSE 3]
MCNextRef == [v \in {0, 1} |-> [l \in Lines |-> IF l = v THEN 0 ELSE 1 + l \div 3]]
MCColumnLines == [e \in {0, 1} |-> <<8 + e>>]

Workload(policy, demands, records, prefetches) ==
    [policy |-> policy, degree |-> 0, adaptive |-> FALSE, refresh |-> "off",
     maskArray |-> TRUE, edgeMasks |-> FALSE, demands |-> demands, edges |-> {},
     unresolved |-> {}, lookaheads |-> {}, records |-> records, prefetches |-> prefetches,
     vertices |-> {}]
WithMasks(workload, edges) == [workload EXCEPT !.edgeMasks = TRUE, !.edges = edges]

Both(S) == S \X BOOLEAN
ReadsOf(S) == S \X {FALSE}

Basic == Workload("LRU", ReadsOf({0, 3}) \cup Both({12}), {}, {1, 15})
Pinned == Workload("PIN", Both({0, 3}) \cup ReadsOf({12}), {}, {15})
Delivered ==
    [WithMasks(Workload("ECG", Both({0}), {6}, {}), {0, 3})
        EXCEPT !.refresh = "broadcast", !.lookaheads = {3}]
\* Masks with prefetch targets, and edges of a direction that has no masks.
Borrowed ==
    [WithMasks(Workload("ECG", Both({0}), {}, {3}), {0})
        EXCEPT !.refresh = "llc", !.unresolved = Both({3})]
Undeliverable ==
    [Workload("ECG", Both({0}), {6}, {3}) EXCEPT !.unresolved = ReadsOf({3})]
Unmasked ==
    [WithMasks(Workload("ECG", ReadsOf({0, 12}), {}, {}), {3})
        EXCEPT !.refresh = "broadcast", !.maskArray = FALSE]
Ahead == [WithMasks(Workload("ECG", ReadsOf({12}), {}, {}), {0, 1, 2}) EXCEPT !.degree = 1]
Matrix == [Workload("POPT", ReadsOf({0, 3, 12}), {}, {}) EXCEPT !.vertices = {0, 1}]
Limited == [Workload("GRASP", ReadsOf({0}), {4, 5, 6}, {12, 15}) EXCEPT !.degree = 2]
Adaptive ==
    [Workload("SRRIP", ReadsOf({1}), {4, 5, 6, 7}, {}) EXCEPT !.degree = 2, !.adaptive = TRUE]

MCWorkloads ==
    {Basic, Pinned, Delivered, Borrowed, Undeliverable, Unmasked, Ahead, Matrix,
     Limited, Adaptive}
===============================================================================
