---------------------------- MODULE VictimPolicy ----------------------------
(* The choice of a victim in a full set: selectVictim of                      *)
(* bench/include/ecg_victim_policy.h, which cache_sim, gem5 and Sniper share, *)
(* against reuse_plan_victim_select of bench/src_rtl.  The code scans the     *)
(* ways once or several times and, for the RRIP variants, ages every line     *)
(* and starts over until a line has the highest RRPV; the hardware does it in *)
(* one combinational step, ageing by the difference to the highest RRPV.      *)
EXTENDS Integers, Sequences

CONSTANTS
    n,          \* the ways of the set
    rrpvMax,    \* the highest RRPV
    WayStates,  \* the states a way can be in when the set misses
    Variants    \* the variants of the policy

Ways == 0 .. n - 1
None == n       \* "no candidate yet", the index past the last way

WayState == [prop : BOOLEAN, stamped : BOOLEAN, rrpv : 0 .. rrpvMax,
             recency : Nat, dbg : Nat, dist : Nat]

ASSUME WaysAssumption == n \in Nat \ {0}
ASSUME RrpvAssumption == rrpvMax \in Nat
(* Only a property line carries a live epoch.                                 *)
ASSUME WayStatesAssumption ==
    WayStates \subseteq {w \in WayState : w.stamped => w.prop}

(* The loops of each variant over the ways, in order.  Where one loop of the  *)
(* code keeps a record and a property candidate and prefers the record, it is *)
(* two passes here.                                                           *)
Passes == [GRASP_ONLY   |-> <<"first_at_max">>,
           EPOCH_FIRST  |-> <<"record", "stamped", "any">>,
           RRIP_FIRST   |-> <<"record_at_max", "property_at_max">>,
           EPOCH_ONLY   |-> <<"record", "stamped", "any">>,
           SHORTCIRCUIT |-> <<"first_record", "farthest">>,
           DEGREE_FIRST |-> <<"record_at_max", "degree_at_max">>,
           LRU_ONLY     |-> <<"any">>]

ASSUME VariantsAssumption == Variants \subseteq DOMAIN Passes

VARIABLES
    ways,      \* the ways as the caller passed them
    variant,   \* the variant in force
    rrpv,      \* the RRPVs, aged in place
    pass,      \* the loop under way
    i,         \* the way it looks at next
    best,      \* its candidate
    victim     \* the way returned, None until then

vars == <<ways, variant, rrpv, pass, i, best, victim>>
inputs == <<ways, variant>>

(* No two lines of a set were last accessed at the same time.                 *)
Init ==
    /\ ways \in [Ways -> WayStates]
    /\ \A v, w \in Ways : ways[v].recency = ways[w].recency => v = w
    /\ variant \in Variants
    /\ rrpv = [w \in Ways |-> ways[w].rrpv]
    /\ pass = 1 /\ i = 0 /\ best = None
    /\ victim = None
-----------------------------------------------------------------------------
AtMax(w) == rrpv[w] >= rrpvMax

(* effDist: an unstamped line counts as needed at once.                       *)
effDist(w) == IF w.stamped THEN w.dist ELSE 0

(* The ways a loop considers.                                                 *)
MaxOnly == {"first_at_max", "record_at_max", "property_at_max", "degree_at_max"}
RecordsOnly == {"first_record", "record", "record_at_max"}
PropertyOnly == {"property_at_max", "degree_at_max"}

Considers(p, w) ==
    /\ p \in MaxOnly => AtMax(w)
    /\ p \in RecordsOnly => ~ ways[w].prop
    /\ p \in PropertyOnly => ways[w].prop
    /\ p = "stamped" => ways[w].stamped

ReturnsFirst(p) == p \in {"first_at_max", "first_record"}

Older(w, v) == ways[w].recency < ways[v].recency
Farther(w, v) == effDist(ways[w]) > effDist(ways[v])
SameDist(w, v) == effDist(ways[w]) = effDist(ways[v])
Colder(w, v) == ways[w].dbg > ways[v].dbg
SameTier(w, v) == ways[w].dbg = ways[v].dbg

(* When way w replaces the candidate v: never in a loop that returns the      *)
(* first way it finds.  The slip lets an equally cold line of an equal        *)
(* distance replace it whatever its recency.                                  *)
ByAge == {"record", "record_at_max", "any"}
ByDist == {"stamped", "property_at_max"}

Beats_LastOfTies(p, w, v) ==
    \/ p \in ByAge /\ Older(w, v)
    \/ p \in ByDist /\ Farther(w, v)
    \/ p = "farthest" /\ (Farther(w, v) \/ (SameDist(w, v) /\ Colder(w, v)))
    \/ p = "degree_at_max" /\ (Colder(w, v) \/ (SameTier(w, v) /\ ~ Farther(v, w)))

Beats(p, w, v) ==
    \/ p \in ByAge /\ Older(w, v)
    \/ p \in ByDist /\ Farther(w, v)
    \/ p = "farthest" /\ (Farther(w, v) \/ (SameDist(w, v) /\ Colder(w, v)))
    \/ p = "degree_at_max" /\ \/ Colder(w, v)
                              \/ SameTier(w, v) /\ Farther(w, v)
                              \/ SameTier(w, v) /\ SameDist(w, v) /\ Older(w, v)

This == Passes[variant][pass]
LastPass == pass = Len(Passes[variant])
Found == best # None /\ (i = n \/ ReturnsFirst(This))

ScanWay ==
    /\ victim = None /\ i < n /\ ~ Found
    /\ best' = IF Considers(This, i) /\ (best = None \/ Beats(This, i, best))
               THEN i ELSE best
    /\ i' = i + 1
    /\ UNCHANGED <<inputs, rrpv, pass, victim>>

NextPass ==
    /\ victim = None /\ i = n /\ best = None /\ ~ LastPass
    /\ pass' = pass + 1 /\ i' = 0
    /\ UNCHANGED <<inputs, rrpv, best, victim>>

(* ways[i].rrpv++ for every way below the maximum.                            *)
Aged_StopsShort(w) == IF rrpv[w] + 1 < rrpvMax THEN rrpv[w] + 1 ELSE rrpv[w]
Aged_PropertyOnly(w) == IF ~ AtMax(w) /\ ways[w].prop THEN rrpv[w] + 1 ELSE rrpv[w]
Aged(w) == IF AtMax(w) THEN rrpv[w] ELSE rrpv[w] + 1

AgeAndRetry ==
    /\ victim = None /\ i = n /\ best = None /\ LastPass
    /\ rrpv' = [w \in Ways |-> Aged(w)]
    /\ pass' = 1 /\ i' = 0
    /\ UNCHANGED <<inputs, best, victim>>

Return ==
    /\ victim = None /\ Found
    /\ victim' = best
    /\ UNCHANGED <<inputs, rrpv, pass, i, best>>

Next == ScanWay \/ NextPass \/ AgeAndRetry \/ Return

(* The caller waits for the loop, which nothing else can stop.                *)
Spec == Init /\ [][Next]_vars /\ WF_vars(Next)
-----------------------------------------------------------------------------
(* reuse_plan_victim_select.                                                  *)
Highest == CHOOSE r \in 0 .. rrpvMax :
              (\E w \in Ways : ways[w].rrpv = r) /\ \A w \in Ways : ways[w].rrpv <= r

rrip_variant == variant \in {"GRASP_ONLY", "RRIP_FIRST", "DEGREE_FIRST"}

(* aged_rrpv_o                                                                *)
HwAged == [w \in Ways |-> ways[w].rrpv + (IF rrip_variant THEN rrpvMax - Highest ELSE 0)]

Records == {w \in Ways : ~ ways[w].prop}
Stamped == {w \in Ways : ways[w].stamped}
MaxWays == {w \in Ways : ways[w].rrpv = Highest}
HwDist(w) == IF ways[w].stamped THEN ways[w].dist ELSE 0

(* The first way of S that has no larger key in any other, by the first key   *)
(* in which they differ.                                                      *)
Precedes(x, y) ==
    \E k \in 1 .. 3 : x[k] < y[k] /\ \A j \in 1 .. k - 1 : x[j] = y[j]

Select(S, Key(_)) ==
    CHOOSE w \in S : \A v \in S \ {w} :
        Precedes(Key(w), Key(v)) \/ (Key(w) = Key(v) /\ w < v)

SetOrder(w) == <<0, 0, 0>>
ByRecency(w) == <<ways[w].recency, 0, 0>>
ByDistance(w) == <<- HwDist(w), 0, 0>>
ByDistanceThenTier(w) == <<- HwDist(w), - ways[w].dbg, 0>>
ByTier(w) == <<- ways[w].dbg, - HwDist(w), ways[w].recency>>

(* victim_o of a set without an invalid way                                   *)
HwVictim ==
    CASE variant = "GRASP_ONLY" -> Select(MaxWays, SetOrder)
      [] variant = "LRU_ONLY" -> Select(Ways, ByRecency)
      [] variant = "SHORTCIRCUIT" ->
            IF Records # {} THEN Select(Records, SetOrder)
            ELSE Select(Ways, ByDistanceThenTier)
      [] variant \in {"EPOCH_FIRST", "EPOCH_ONLY"} ->
            IF Records # {} THEN Select(Records, ByRecency)
            ELSE IF Stamped # {} THEN Select(Stamped, ByDistance)
            ELSE Select(Ways, ByRecency)
      [] variant = "DEGREE_FIRST" ->
            IF Records \cap MaxWays # {} THEN Select(Records \cap MaxWays, ByRecency)
            ELSE Select(MaxWays, ByTier)
      [] variant = "RRIP_FIRST" ->
            IF Records \cap MaxWays # {} THEN Select(Records \cap MaxWays, ByRecency)
            ELSE Select(MaxWays, ByDistance)
-----------------------------------------------------------------------------
TypeOK ==
    /\ ways \in [Ways -> WayStates]
    /\ variant \in Variants
    /\ rrpv \in [Ways -> 0 .. rrpvMax]
    /\ pass \in 1 .. Len(Passes[variant])
    /\ i \in 0 .. n
    /\ best \in (0 .. i - 1) \cup {None}
    /\ victim \in 0 .. n

(* The scans and retries of the code return the way the hardware computes at  *)
(* once, ties included (selectVictim and reuse_plan_victim_select).           *)
VictimIsHardwares == victim # None => victim = HwVictim

(* And they leave the RRPVs that the hardware writes back: the rounds of      *)
(* ageing add up to the difference to the maximum, in the variants that age   *)
(* and in no other.                                                           *)
AgingIsHardwares == victim # None => rrpv = HwAged

(* A call returns: every round of ageing brings a line closer to the maximum. *)
Returns == <>(victim # None)
=============================================================================
