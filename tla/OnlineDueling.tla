---------------------------- MODULE OnlineDueling ----------------------------
(* OnlineDuelingSelector of bench/include/ecg_victim_policy.h, the one object *)
(* that every core of a simulation reports its LLC misses to.  Sniper runs a  *)
(* core as a thread of the host, so recordMiss is modelled at the grain of    *)
(* its atomic operations: each action below is one load, fetch_add or         *)
(* exchange of one shared atomic, and the threads interleave between them.    *)
EXTENDS Dueling, FiniteSets, Functions

CONSTANTS
    Threads,        \* the host threads that simulate the cores
    Sets,           \* indices of the cache sets that miss
    kWindowMisses,  \* sampled misses per window (1024 in the code)
    MaxMisses       \* bound on the sampled misses of a behaviour

ASSUME WindowAssumption == kWindowMisses \in Nat \ {0}
ASSUME SetsAssumption == Sets \subseteq Nat
ASSUME MaxMissesAssumption == MaxMisses \in Nat

VARIABLES
    misses_,          \* per arm, sampled misses not yet taken by a window
    sampled_misses_,  \* all sampled misses since the start
    winner_,          \* the arm the follower sets use
    pc,               \* where each thread is in recordMiss
    call,             \* the locals of each thread's recordMiss
    issued,           \* history: calls made for a leader set
    counted,          \* history: per arm, increments of misses_
    drained,          \* history: per arm, misses taken by windows
    reported,         \* history: the events of the completed windows
    seen              \* history: the windows reported when a call chose its best arm

shared == <<misses_, sampled_misses_, winner_>>
history == <<issued, counted, drained, reported, seen>>
vars == <<shared, pc, call, history>>

Zero == [a \in Arms |-> 0]
IdleCall == [leader |-> NoLeader, before |-> DUEL_RRIP, arm |-> 0,
             window |-> Zero, best |-> DUEL_RRIP]

Init ==
    /\ misses_ = Zero
    /\ sampled_misses_ = 0
    /\ winner_ = DUEL_RRIP
    /\ pc = [t \in Threads |-> "idle"]
    /\ call = [t \in Threads |-> IdleCall]
    /\ issued = 0
    /\ counted = Zero
    /\ drained = Zero
    /\ reported = [windows |-> 0, before |-> Zero, after |-> Zero]
    /\ seen = [t \in Threads |-> 0]
-----------------------------------------------------------------------------
(* recordMiss(set) of a leader set: event.winner_before = winner_.load(), and *)
(* on to count the miss for the arm of the set.                               *)
Start(t, set) ==
    /\ pc[t] = "idle"
    /\ LeaderArm(set) # NoLeader
    /\ issued < MaxMisses
    /\ pc' = [pc EXCEPT ![t] = "count"]
    /\ call' = [call EXCEPT ![t] = [IdleCall EXCEPT !.leader = LeaderArm(set),
                                                   !.before = winner_]]
    /\ issued' = issued + 1
    /\ UNCHANGED <<shared, counted, drained, reported, seen>>

(* recordMiss(set) of a follower set: if (leader < 0) return event.           *)
Follow(t, set) ==
    /\ pc[t] = "idle"
    /\ LeaderArm(set) = NoLeader
    /\ UNCHANGED vars

(* misses_[leader].fetch_add(1)                                               *)
CountMiss(t) ==
    LET arm == call[t].leader IN
    /\ pc[t] = "count"
    /\ misses_' = [misses_ EXCEPT ![arm] = @ + 1]
    /\ counted' = [counted EXCEPT ![arm] = @ + 1]
    /\ pc' = [pc EXCEPT ![t] = "sample"]
    /\ UNCHANGED <<sampled_misses_, winner_, call, issued, drained, reported, seen>>

(* sampled_misses_.fetch_add(1): the call whose sample is the last of a       *)
(* window goes on to close it, every other call returns.  (The slip tests the *)
(* value the fetch_add returns, before its increment.)                        *)
ClosesWindow_BeforeAdd(total) == (total - 1) % kWindowMisses = 0
ClosesWindow(total) == total % kWindowMisses = 0

SampleAndReturn(t) ==
    /\ pc[t] = "sample"
    /\ ~ ClosesWindow(sampled_misses_ + 1)
    /\ sampled_misses_' = sampled_misses_ + 1
    /\ pc' = [pc EXCEPT ![t] = "idle"]
    /\ call' = [call EXCEPT ![t] = IdleCall]
    /\ UNCHANGED <<misses_, winner_, history>>

SampleAndClose(t) ==
    /\ pc[t] = "sample"
    /\ ClosesWindow(sampled_misses_ + 1)
    /\ sampled_misses_' = sampled_misses_ + 1
    /\ pc' = [pc EXCEPT ![t] = "drain"]
    /\ UNCHANGED <<misses_, winner_, call, history>>

(* The drain loop stops one arm short.                                        *)
Drain_LastArmKept(t) ==
    LET arm == call[t].arm IN
    /\ pc[t] = "drain"
    /\ call' = [call EXCEPT ![t].window[arm] = misses_[arm], ![t].arm = arm + 1]
    /\ misses_' = [misses_ EXCEPT ![arm] = 0]
    /\ drained' = [drained EXCEPT ![arm] = @ + misses_[arm]]
    /\ pc' = [pc EXCEPT ![t] = IF arm + 2 >= DUEL_ARM_COUNT THEN "decide" ELSE "drain"]
    /\ UNCHANGED <<sampled_misses_, winner_, issued, counted, reported, seen>>

(* The counters are loaded instead of exchanged, and cleared with the last.   *)
Drain_LoadThenClear(t) ==
    LET arm == call[t].arm IN
    /\ pc[t] = "drain"
    /\ call' = [call EXCEPT ![t].window[arm] = misses_[arm], ![t].arm = arm + 1]
    /\ misses_' = IF arm + 1 = DUEL_ARM_COUNT THEN Zero ELSE misses_
    /\ drained' = [drained EXCEPT ![arm] = @ + misses_[arm]]
    /\ pc' = [pc EXCEPT ![t] = IF arm + 1 = DUEL_ARM_COUNT THEN "decide" ELSE "drain"]
    /\ UNCHANGED <<sampled_misses_, winner_, issued, counted, reported, seen>>

(* window[arm] = misses_[arm].exchange(0), one arm after the other.           *)
Drain(t) ==
    LET arm == call[t].arm IN
    /\ pc[t] = "drain"
    /\ call' = [call EXCEPT ![t].window[arm] = misses_[arm], ![t].arm = arm + 1]
    /\ misses_' = [misses_ EXCEPT ![arm] = 0]
    /\ drained' = [drained EXCEPT ![arm] = @ + misses_[arm]]
    /\ pc' = [pc EXCEPT ![t] = IF arm + 1 = DUEL_ARM_COUNT THEN "decide" ELSE "drain"]
    /\ UNCHANGED <<sampled_misses_, winner_, issued, counted, reported, seen>>

(* The incumbent is the winner loaded when the call began.                    *)
Decide_EarlyIncumbent(t) ==
    /\ pc[t] = "decide"
    /\ call' = [call EXCEPT ![t].best = BestArm(call[t].window, call[t].before)]
    /\ seen' = [seen EXCEPT ![t] = reported.windows]
    /\ pc' = [pc EXCEPT ![t] = "install"]
    /\ UNCHANGED <<shared, issued, counted, drained, reported>>

(* best = winner_.load(), then the comparison, which reads no shared state.   *)
Decide(t) ==
    /\ pc[t] = "decide"
    /\ call' = [call EXCEPT ![t].best = BestArm(call[t].window, winner_)]
    /\ seen' = [seen EXCEPT ![t] = reported.windows]
    /\ pc' = [pc EXCEPT ![t] = "install"]
    /\ UNCHANGED <<shared, issued, counted, drained, reported>>

(* The event reports the winner loaded when the call began, as the selector   *)
(* did before recordMiss returned the exchanged value.                        *)
Install_StaleBefore(t) ==
    LET best == call[t].best IN
    /\ pc[t] = "install"
    /\ winner_' = best
    /\ reported' = [windows |-> reported.windows + 1,
                    before  |-> [reported.before EXCEPT ![call[t].before] = @ + 1],
                    after   |-> [reported.after EXCEPT ![best] = @ + 1]]
    /\ pc' = [pc EXCEPT ![t] = "idle"]
    /\ call' = [call EXCEPT ![t] = IdleCall]
    /\ UNCHANGED <<misses_, sampled_misses_, issued, counted, drained, seen>>

(* previous_winner = winner_.exchange(best); the event returned reports the   *)
(* transition from the value this very exchange replaced.                     *)
Install(t) ==
    LET best == call[t].best IN
    /\ pc[t] = "install"
    /\ winner_' = best
    /\ reported' = [windows |-> reported.windows + 1,
                    before  |-> [reported.before EXCEPT ![winner_] = @ + 1],
                    after   |-> [reported.after EXCEPT ![best] = @ + 1]]
    /\ pc' = [pc EXCEPT ![t] = "idle"]
    /\ call' = [call EXCEPT ![t] = IdleCall]
    /\ UNCHANGED <<misses_, sampled_misses_, issued, counted, drained, seen>>

Step(t) ==
    \/ CountMiss(t) \/ SampleAndReturn(t) \/ SampleAndClose(t)
    \/ Drain(t) \/ Decide(t) \/ Install(t)

Next == \E t \in Threads : Step(t) \/ \E set \in Sets : Start(t, set) \/ Follow(t, set)

Spec == Init /\ [][Next]_vars
-----------------------------------------------------------------------------
Calls == [leader : Arms \cup {NoLeader}, before : Arms, arm : 0 .. DUEL_ARM_COUNT,
          window : [Arms -> Nat], best : Arms]

TypeOK ==
    /\ misses_ \in [Arms -> Nat]
    /\ sampled_misses_ \in Nat
    /\ winner_ \in Arms
    /\ pc \in [Threads -> {"idle", "count", "sample", "drain", "decide", "install"}]
    /\ call \in [Threads -> Calls]
    /\ \A t \in Threads : pc[t] # "idle" => call[t].leader \in Arms
    /\ issued \in 0 .. MaxMisses
    /\ counted \in [Arms -> Nat]
    /\ drained \in [Arms -> Nat]
    /\ reported \in [windows : Nat, before : [Arms -> Nat], after : [Arms -> Nat]]
    /\ seen \in [Threads -> Nat]

Closing(t) == pc[t] \in {"drain", "decide", "install"}
AllReturned == \A t \in Threads : pc[t] = "idle"

(* Every window is reported by exactly one call: the windows reported and     *)
(* those being closed are as many as completedWindows() counts, whatever the  *)
(* order of the threads (invariant 1 of test_ecg_online_dueling_concurrency). *)
EachWindowReportedOnce ==
    reported.windows + Cardinality({t \in Threads : Closing(t)})
        = sampled_misses_ \div kWindowMisses

(* The transitions reported by all threads form one unbroken chain from the   *)
(* initial winner to the present one: each arm is left as often as it is      *)
(* entered, but for the two ends (checkTransitionChainConservation).          *)
TransitionChain ==
    \A a \in Arms :
        reported.before[a] - reported.after[a]
            = (IF a = DUEL_RRIP THEN 1 ELSE 0) - (IF a = winner_ THEN 1 ELSE 0)

(* No sampled miss is lost and none enters two windows: what was counted for  *)
(* an arm is what windows took and what waits, though windows may overlap     *)
(* (the fetch_add and exchange on misses_).                                   *)
NoMissLost == \A a \in Arms : counted[a] = drained[a] + misses_[a]

(* When no call is under way, the misses left in the counters are at most     *)
(* those sampled since the last full window: overlapping windows may take     *)
(* misses early but never leave one behind for a later window.                *)
NothingLeftBehind ==
    AllReturned => SumFunction(misses_) <= sampled_misses_ % kWindowMisses

(* An arm that did not miss strictly less than the winner it replaces is       *)
(* installed only when another window was installed between this call's load   *)
(* of the winner and its exchange: "ties keeping the incumbent winner" (the    *)
(* comment of recordMiss) fails by that overlap and in no other way, however   *)
(* many windows came and went earlier in the call.                             *)
UpsetOnlyByOverlap ==
    [][\A t \in Threads :
          /\ pc[t] = "install" /\ pc'[t] = "idle" /\ winner_' # winner_
          /\ call[t].window[winner_'] >= call[t].window[winner_]
          => reported.windows > seen[t]]_vars
=============================================================================
