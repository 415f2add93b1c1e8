----------------------------- MODULE CacheLevel -----------------------------
(***************************************************************************)
(* One set of a level of cache_sim: class CacheLevel of                    *)
(* src/bench/include/cache_sim/cache_sim.h, as operators on the set.       *)
(*                                                                         *)
(* Addresses are lines.  global_time_ only orders the ways: a set keeps    *)
(* the rank of each by last_access, 1 for the oldest.  The ageing loops of *)
(* the RRIP victims are the sum of their rounds.  A stamp is the line      *)
(* whose epoch the kernel had delivered, or NoLine (ecg_epoch_valid =      *)
(* false).  FIFO, LFU and RANDOM are not modelled; the victim of ECG is    *)
(* VictimPolicy's and here any way (pick); HAWKEYE is the module Hawkeye.  *)
(***************************************************************************)
EXTENDS Integers, FiniteSets

CONSTANTS
    NoLine,
    PropertyLines,  \* GraphCacheContext::isPropertyData and isEcgEpochData
    Tier,           \* GraphCacheContext::classifyGRASP: 1 (hot) to 3 of a line
    NextRef         \* GraphCacheContext::findNextRef: of a line at a vertex

Policies == {"LRU", "SRRIP", "GRASP", "PIN", "POPT", "ECG"}

EmptyWay == [line |-> NoLine, dirty |-> FALSE, rrpv |-> 0, pin |-> FALSE, stamp |-> NoLine]
EmptySet(n) == [ways |-> [w \in 1 .. n |-> EmptyWay], order |-> [w \in 1 .. n |-> w]]

First(S) == CHOOSE x \in S : \A y \in S : x <= y
Smaller(a, b) == IF a < b THEN a ELSE b
Greater(a, b) == IF a < b THEN b ELSE a
WaysOf(set, l) == {w \in DOMAIN set.ways : set.ways[w].line = l}
Holds(set, l) == WaysOf(set, l) # {}
Newest(order, w) ==
    [v \in DOMAIN order |-> IF v = w THEN Cardinality(DOMAIN order)
                            ELSE IF order[v] > order[w] THEN order[v] - 1 ELSE order[v]]
OldestOf(set, S) == CHOOSE w \in S : \A v \in S : set.order[w] <= set.order[v]

\* The stamp a delivered hint leaves on a resident line.
Restamped(way, hint) ==
    IF hint # NoLine /\ way.line \in PropertyLines THEN [way EXCEPT !.stamp = hint] ELSE way

HitRrpv(policy, way) ==
    CASE policy \in {"SRRIP", "POPT"} -> 0
      [] policy \in {"GRASP", "ECG"} /\ Tier[way.line] = 1 -> 0
      [] policy \in {"GRASP", "ECG"} /\ Tier[way.line] # 1 -> Greater(way.rrpv - 1, 0)
      [] OTHER -> way.rrpv

\* access, when it hits, with updateOnHit.
AfterHit(policy, set, l, write, hint) ==
    LET w == First(WaysOf(set, l))
        way == set.ways[w]
        hit == [way EXCEPT !.rrpv = HitRrpv(policy, way), !.dirty = @ \/ write]
    IN  [ways |-> [set.ways EXCEPT ![w] = IF policy = "ECG" THEN Restamped(hit, hint) ELSE hit],
         order |-> Newest(set.order, w)]

\* refreshExactStamp.
Refreshed(set, l, hint) ==
    [set EXCEPT !.ways = [w \in DOMAIN set.ways |->
        IF set.ways[w].line = l THEN Restamped(set.ways[w], hint) ELSE set.ways[w]]]

\* The loop of the RRIP victims: the ways of S age until the first reaches max.
AgedTo(set, S, max) ==
    LET top == CHOOSE r \in {set.ways[w].rrpv : w \in S} :
                   \A w \in S : set.ways[w].rrpv <= r
        rounds == IF top < max THEN max - top ELSE 0
    IN  [set EXCEPT !.ways = [w \in DOMAIN set.ways |->
            IF w \in S THEN [set.ways[w] EXCEPT !.rrpv = Smaller(@ + rounds, max)]
            ELSE set.ways[w]]]

\* findVictimPOPT: the ways whose line is needed last, as far as 7 bits tell.
Farthest(set, vertex) ==
    LET distance(w) == Smaller(NextRef[vertex][set.ways[w].line], 127)
    IN  {w \in DOMAIN set.ways : \A v \in DOMAIN set.ways : distance(v) <= distance(w)}

AtMost(set, S, max) ==
    LET aged == AgedTo(set, S, max)
    IN  [set |-> aged, way |-> First({w \in S : aged.ways[w].rrpv = max})]

\* findVictim: the set as the search leaves it and the way found, 0 for none.
Victim(policy, set, vertex, pick) ==
    LET all == DOMAIN set.ways
        other == {w \in all : set.ways[w].line \notin PropertyLines}
        unpinned == {w \in all : ~set.ways[w].pin}
        found(w) == [set |-> set, way |-> w]
    IN  IF Holds(set, NoLine) THEN found(First(WaysOf(set, NoLine)))
        ELSE CASE policy = "LRU" -> found(OldestOf(set, all))
               [] policy = "PIN" -> found(IF unpinned = {} THEN 0 ELSE OldestOf(set, unpinned))
               [] policy = "SRRIP" -> AtMost(set, all, 3)
               [] policy = "GRASP" -> AtMost(set, all, 7)
               [] policy = "POPT" /\ other # {} -> found(First(other))
               [] policy = "POPT" /\ other = {} -> AtMost(set, Farthest(set, vertex), 7)
               [] policy = "ECG" -> found(pick)

InsertRrpv(policy, l) ==
    CASE policy \in {"GRASP", "ECG"} -> (CASE Tier[l] = 1 -> 1 [] Tier[l] = 2 -> 6 [] OTHER -> 7)
      [] policy = "POPT" -> 6
      [] OTHER -> 2

\* What the fill of the way of an old line leaves as its stamp: only with the mask
\* array enabled (masked) does it reset the old one.
FilledStamp(policy, l, hint, masked, old) ==
    CASE policy = "ECG" /\ masked /\ l \in PropertyLines -> hint
      [] policy = "ECG" /\ ~masked -> old.stamp
      [] OTHER -> NoLine

Filled_KeepsDirty(policy, l, write, hint, masked, old) ==
    [line |-> l, dirty |-> write \/ old.dirty, rrpv |-> InsertRrpv(policy, l),
     pin |-> policy = "PIN" /\ Tier[l] = 1,
     stamp |-> FilledStamp(policy, l, hint, masked, old)]
\* The new line of the way of an old one.
Filled(policy, l, write, hint, masked, old) ==
    [line |-> l, dirty |-> write, rrpv |-> InsertRrpv(policy, l),
     pin |-> policy = "PIN" /\ Tier[l] = 1,
     stamp |-> FilledStamp(policy, l, hint, masked, old)]

\* insert: the set after it, and the way that was replaced (EmptyWay for none).
Inserted(policy, set, l, write, hint, masked, vertex, pick) ==
    LET v == Victim(policy, set, vertex, pick)
    IN  IF v.way = 0
        THEN [set |-> set, evicted |-> EmptyWay]
        ELSE [evicted |-> set.ways[v.way],
              set |-> [ways |-> [v.set.ways EXCEPT ![v.way] =
                                    Filled(policy, l, write, hint, masked, @)],
                       order |-> Newest(set.order, v.way)]]
=============================================================================
