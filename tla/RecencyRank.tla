----------------------------- MODULE RecencyRank -----------------------------
(* The recency order of one cache set, in the two forms the project keeps it. *)
(* The replacement hardware (bench/src_rtl/reuse_plan_recency_rank.sv) gives  *)
(* each way a rank, 0 the oldest and WAYS - 1 the newest, in $clog2(WAYS)     *)
(* bits; cache_sim stamps each line with a counter that never stops           *)
(* (CacheLine::last_access) and scans for the smallest stamp.  Both are kept  *)
(* here, driven by the same hits, fills and invalidations of one set, so that *)
(* the hardware's order can be compared with the one the simulators evaluate. *)
EXTENDS Integers

CONSTANTS
    WAYS,        \* the associativity of the set
    MaxAccesses  \* bound on the time stamps (the code's counter has none)

ASSUME RankWaysAssumption == WAYS \in Nat \ {0}
ASSUME MaxAccessesAssumption == MaxAccesses \in Nat

RankWays == 0 .. WAYS - 1
NewestRank == WAYS - 1

VARIABLES
    valid,       \* the ways that hold a line
    rank,        \* rank_o: the hardware's order of the ways
    last_access, \* the simulator's time stamp of each way
    global_time  \* the stamp the next access gets

rankVars == <<valid, rank, last_access, global_time>>

(* reset_i numbers the ways by their index, all of them empty.                *)
RankInit ==
    /\ valid = {}
    /\ rank = [w \in RankWays |-> w]
    /\ last_access = [w \in RankWays |-> 0]
    /\ global_time = 0

Reset ==
    /\ valid' = {}
    /\ rank' = [w \in RankWays |-> w]
    /\ last_access' = [w \in RankWays |-> 0]
    /\ global_time' = 0

(* Slips of the update, each refuted by one of the properties: the gap is not *)
(* closed; every other way ages; the accessed way moves up one place only;    *)
(* the others are turned round; the newest rank is one too high.              *)
Touched_KeepGap(r, a) ==
    [w \in RankWays |-> IF w = a THEN NewestRank ELSE r[w]]

Touched_AgeAll(r, a) ==
    [w \in RankWays |-> IF w = a THEN NewestRank
                    ELSE IF r[w] > 0 THEN r[w] - 1
                    ELSE r[w]]

Touched_Promote(r, a) ==
    [w \in RankWays |-> IF w = a THEN (IF r[a] < NewestRank THEN r[a] + 1 ELSE r[a])
                    ELSE IF r[w] = r[a] + 1 THEN r[a]
                    ELSE r[w]]

Touched_Reversed(r, a) ==
    [w \in RankWays |-> IF w = a THEN NewestRank
                    ELSE IF r[w] > r[a] THEN NewestRank - r[w]
                    ELSE NewestRank - 1 - r[w]]

(* reuse_plan_recency_rank_update: the accessed way becomes the newest and    *)
(* the ways that were newer than it close the gap it leaves.                  *)
Touched(r, a) ==
    [w \in RankWays |-> IF w = a THEN NewestRank
                    ELSE IF r[w] > r[a] THEN r[w] - 1
                    ELSE r[w]]

(* access_i for way a: the hardware reorders, the simulator stamps.           *)
Touch(a) ==
    /\ global_time < MaxAccesses
    /\ rank' = Touched(rank, a)
    /\ last_access' = [last_access EXCEPT ![a] = global_time]
    /\ global_time' = global_time + 1

Hit(a) ==
    /\ a \in valid
    /\ Touch(a)
    /\ UNCHANGED valid

(* A fill takes the first empty way, else the least recently used one; the    *)
(* hardware (LRU_ONLY) compares ranks and the simulator compares stamps.      *)
VictimBy(order) ==
    IF valid # RankWays
    THEN CHOOSE v \in RankWays \ valid : \A w \in RankWays \ valid : v <= w
    ELSE CHOOSE v \in RankWays :
            \A w \in RankWays : order[v] < order[w] \/ (order[v] = order[w] /\ v <= w)

Fill ==
    \E a \in RankWays :
        /\ a = VictimBy(rank)
        /\ Touch(a)
        /\ valid' = valid \cup {a}

(* The line of way a is invalidated: no order is touched.                     *)
Invalidate(a) ==
    /\ a \in valid
    /\ valid' = valid \ {a}
    /\ UNCHANGED <<rank, last_access, global_time>>

RankNext ==
    \/ Reset
    \/ Fill
    \/ \E a \in RankWays : Hit(a) \/ Invalidate(a)

RankSpec == RankInit /\ [][RankNext]_rankVars
-----------------------------------------------------------------------------
RankTypeOK ==
    /\ valid \subseteq RankWays
    /\ rank \in [RankWays -> 0 .. WAYS - 1]
    /\ global_time \in 0 .. MaxAccesses
    /\ last_access \in [RankWays -> 0 .. MaxAccesses]

(* No rank is lost or doubled: each of the WAYS ranks is held by exactly one  *)
(* way, so the oldest way is always defined and the update never borrows      *)
(* below 0 (reuse_plan_recency_rank_update).                                  *)
RanksArePermutation ==
    /\ \A v, w \in RankWays : rank[v] = rank[w] => v = w
    /\ \A r \in 0 .. WAYS - 1 : \E w \in RankWays : rank[w] = r

(* The few bits of rank order the lines of the set exactly as the simulator's *)
(* unbounded time stamps do (reuse_plan_recency_rank.sv, cache_sim            *)
(* last_access), however hits, fills and invalidations interleave.            *)
RankIsAccessOrder ==
    \A v, w \in valid : rank[v] < rank[w] <=> last_access[v] < last_access[w]

(* Hence a fill replaces the same way in hardware and in simulation           *)
(* (LRU_ONLY of reuse_plan_victim_select.sv and of selectVictim).             *)
SameVictim == VictimBy(rank) = VictimBy(last_access)

(* A line never gets newer unless it is accessed itself: a step that leaves   *)
(* its stamp alone leaves its rank or lowers it by one, and a line that had   *)
(* become the oldest stays so until it is touched, or the set is reset.       *)
OnlyAccessMakesNewer ==
    [][\A w \in valid \cap valid' :
          last_access'[w] = last_access[w] => rank'[w] \in {rank[w] - 1, rank[w]}]_rankVars
=============================================================================
