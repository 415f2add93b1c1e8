------------------------------- MODULE Dueling -------------------------------
(* What the software selector (bench/include/ecg_victim_policy.h) and the     *)
(* hardware one (bench/src_rtl/reuse_plan_online_selector.sv) have in common: *)
(* which sets sample which arm, the policy an arm stands for, and how a       *)
(* window of sampled misses picks the next winner.                            *)
EXTENDS Integers

CONSTANT DUEL_ARM_COUNT     \* the number of replacement policies that duel

ASSUME ArmCountAssumption == DUEL_ARM_COUNT \in 1 .. 64

Arms == 0 .. DUEL_ARM_COUNT - 1
DUEL_RRIP == 0              \* the arm that leads at the start

(* The first sets of every 64 are leaders, one per arm; the rest follow.      *)
NoLeader == -1

LeaderArm(set) ==
    LET slot == set % 64 IN IF slot < DUEL_ARM_COUNT THEN slot ELSE NoLeader

(* The arm with the fewest misses of the window: the incumbent when it is one *)
(* of those, else the lowest (the scan starts from the incumbent and replaces *)
(* its candidate on a strictly smaller count only).                           *)
BestArm(window, incumbent) ==
    LET Least(a) == \A b \in Arms : window[a] <= window[b]
    IN  IF Least(incumbent) THEN incumbent
        ELSE CHOOSE a \in Arms : Least(a) /\ \A b \in Arms : Least(b) => a <= b
=============================================================================
