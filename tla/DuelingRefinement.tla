-------------------------- MODULE DuelingRefinement --------------------------
(* One core reporting to the software selector, step by step, implements the  *)
(* hardware selector, which records a miss in one clock edge.                 *)
EXTENDS OnlineDueling

CONSTANTS COUNTER_VALUES, SAMPLE_VALUES   \* the counter widths of the hardware

ASSUME WidthAssumption ==
    /\ COUNTER_VALUES \in Nat /\ COUNTER_VALUES >= kWindowMisses + 1
    /\ SAMPLE_VALUES \in Nat /\ SAMPLE_VALUES >= kWindowMisses

core == CHOOSE t \in Threads : TRUE

(* A call takes effect when it samples, or, when it closes a window, when it  *)
(* installs the winner.  Until then the hardware has seen none of it: the     *)
(* counters it has drained are still there, and its own miss is not.          *)
misses_q ==
    [a \in Arms |->
        misses_[a]
        + (IF Closing(core) /\ a < call[core].arm THEN call[core].window[a] ELSE 0)
        - (IF pc[core] \notin {"idle", "count"} /\ a = call[core].leader THEN 1 ELSE 0)]

sampled_misses_q ==
    IF Closing(core) THEN kWindowMisses - 1 ELSE sampled_misses_ % kWindowMisses

Selector ==
    INSTANCE OnlineSelector WITH
        misses_q <- misses_q, sampled_misses_q <- sampled_misses_q,
        winner_q <- winner_, WINDOW_MISSES <- kWindowMisses

(* Called by one core at a time, the atomics of recordMiss add up to the      *)
(* single step of reuse_plan_online_selector.sv: same winner, same window     *)
(* counts, same window boundary.                                              *)
ImplementsSelector == Selector!Spec
=============================================================================
