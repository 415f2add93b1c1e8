--------------------------- MODULE MCMshrReuseBind ---------------------------
(* Three requests at a time, of two requestors and two contexts: without a    *)
(* record, with one that a cache above refused, with the record of a load,    *)
(* with another record of the same load, with that of a later load, and with  *)
(* those of another requestor and of another context.                         *)
EXTENDS MshrReuseBind, TLC

CONSTANTS r1, r2, r3

MCRequests == {r1, r2, r3}
Symmetry == Permutations(MCRequests)

Record(who, ctx, seq, d) == [plan |-> TRUE, conflicted |-> FALSE, requestor |-> who,
                             context |-> ctx, sequence |-> seq, data |-> d]

MCArrivals ==
    {NoExtension(0), [Record(0, 1, 1, 1) EXCEPT !.conflicted = TRUE],
     Record(0, 1, 1, 1), Record(0, 1, 1, 0), Record(0, 1, 2, 1),
     Record(1, 1, 1, 1), Record(0, 2, 2, 1)}
=============================================================================
