---------------------------- MODULE MCVictimPolicy ----------------------------
(* Ways that are records, unstamped property lines with a distance left over  *)
(* from before, and stamped property lines of two distances and two degree    *)
(* tiers; three RRPVs, so that up to two rounds of ageing are needed; every   *)
(* order of the last accesses.  EPOCH_ONLY shares the code of EPOCH_FIRST.    *)
EXTENDS VictimPolicy

Kind(p, s, t, d) == [prop |-> p, stamped |-> s, dbg |-> t, dist |-> d]

MCKinds == {Kind(FALSE, FALSE, 0, 0), Kind(TRUE, FALSE, 0, 2)}
           \cup {Kind(TRUE, TRUE, t, d) : t \in {0, 1}, d \in {0, 1}}

MCWayStates ==
    {[prop |-> k.prop, stamped |-> k.stamped, rrpv |-> r, recency |-> a,
      dbg |-> k.dbg, dist |-> k.dist] : k \in MCKinds, r \in 0 .. rrpvMax, a \in Ways}

MCVariants == DOMAIN Passes \ {"EPOCH_ONLY"}
===============================================================================
