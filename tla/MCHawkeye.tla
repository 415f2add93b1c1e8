------------------------------ MODULE MCHawkeye ------------------------------
(* lineA, lineB, lineC and lineE share a set of three ways and a bucket; lineD  *)
(* is in the next sampled set with the tag of lineA, in the same bucket; lineU  *)
(* is in a set that is not sampled.  With two friendly RRPVs the third friendly *)
(* fill of a set finds a saturated line and the fourth evicts a friendly one.   *)
EXTENDS Hawkeye

CONSTANTS lineA, lineB, lineC, lineD, lineE, lineU

MCSetOf == [l \in Lines |-> CASE l = lineD -> 2 [] l = lineU -> 1 [] OTHER -> 0]
MCBucket == [l \in Lines |-> 0]
MCTag == [l \in Lines |-> CASE l = lineB -> 1 [] l = lineC -> 2 [] l = lineE -> 3 [] OTHER -> 0]
MCAccesses ==
    {<<lineA, 0, FALSE>>, <<lineA, 1, TRUE>>, <<lineB, 0, FALSE>>, <<lineC, 1, FALSE>>,
     <<lineD, 0, FALSE>>, <<lineE, 1, FALSE>>, <<lineU, 1, FALSE>>}
===============================================================================
