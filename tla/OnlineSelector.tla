---------------------------- MODULE OnlineSelector ----------------------------
(* The selector of the hardware (bench/src_rtl/reuse_plan_online_selector.sv): *)
(* one clock edge per recorded miss, counters of the fewest bits that hold a  *)
(* window.  It is also what the software selector promises its callers as     *)
(* long as its calls do not overlap (OnlineDueling).                          *)
EXTENDS Dueling

CONSTANTS
    WINDOW_MISSES,   \* the misses of one window
    COUNTER_VALUES,  \* 2^COUNTER_BITS, the values a miss counter can take
    SAMPLE_VALUES    \* 2^SAMPLE_BITS, the values the sample counter can take

(* COUNTER_BITS = $clog2(WINDOW_MISSES + 1), SAMPLE_BITS = $clog2(WINDOW_MISSES): *)
(* DuelingRefinement, which instantiates this module, assumes no more of them. *)

VARIABLES
    misses_q,          \* sampled misses of each arm in the current window
    sampled_misses_q,  \* misses of the current window so far
    winner_q           \* the arm the follower sets use

vars == <<misses_q, sampled_misses_q, winner_q>>

Init ==
    /\ misses_q = [a \in Arms |-> 0]
    /\ sampled_misses_q = 0
    /\ winner_q = DUEL_RRIP

(* The window as the comparison sees it: the current miss is counted in it.   *)
WindowCount(arm) ==
    [misses_q EXCEPT ![arm] = (@ + 1) % COUNTER_VALUES]

RecordMiss(arm) ==
    IF sampled_misses_q = WINDOW_MISSES - 1
    THEN /\ misses_q' = [a \in Arms |-> 0]
         /\ sampled_misses_q' = 0
         /\ winner_q' = BestArm(WindowCount(arm), winner_q)
    ELSE /\ misses_q' = WindowCount(arm)
         /\ sampled_misses_q' = (sampled_misses_q + 1) % SAMPLE_VALUES
         /\ UNCHANGED winner_q

(* A miss in a follower set changes nothing.                                  *)
Next == \E arm \in Arms : RecordMiss(arm)

Spec == Init /\ [][Next]_vars
=============================================================================
