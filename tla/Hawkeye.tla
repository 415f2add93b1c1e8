------------------------------- MODULE Hawkeye -------------------------------
(***************************************************************************)
(* The Hawkeye replacement policy of the last-level cache: the OPTgen      *)
(* occupancy ring, the sampler and the two predictors of                   *)
(* src/bench/include/hawkeye_policy.h, with the calls CacheLevel makes of  *)
(* them on a hit, on a prefetch hit and on a fill.                         *)
(*                                                                         *)
(* A call is atomic: CacheLevel holds its mutex.  The hashes (crc32 of a   *)
(* line, the bucket of the sampler, the entry of the predictor) are the    *)
(* constant functions Tag and Bucket, and a signature stands for its entry *)
(* of the predictor.                                                       *)
(***************************************************************************)
EXTENDS Integers, FiniteSets

CONSTANTS
    Lines, SetOf, Bucket, Tag,  \* the lines, and where each is looked up
    Buckets,                    \* kSamplerSets
    Signatures,                 \* the access sites
    Accesses,                   \* what is accessed: <<line, site, is_prefetch>>
    NumSets, SampledCacheSets, Ways,
    SamplerWays, Quanta, TimerSize,
    PredictorMax, PredictorThreshold, MaxRrpv,
    NoLine,
    MaxCalls                    \* bounds the calls of a behaviour

Sets == 0 .. NumSets - 1
WayIds == 1 .. Ways
Entries == 1 .. SamplerWays

ASSUME HawkeyeAssumption ==
    /\ NumSets \in Nat \ {0} /\ SampledCacheSets \in Nat \ {0}
    /\ Ways \in Nat \ {0} /\ SamplerWays \in Nat \ {0}
    /\ Quanta \in Nat \ {0} /\ TimerSize \in Nat \ {0} /\ TimerSize % Quanta = 0
    /\ PredictorMax \in Nat /\ PredictorThreshold \in 0 .. PredictorMax
    /\ MaxRrpv \in Nat \ {0}
    /\ SetOf \in [Lines -> Sets] /\ Bucket \in [Lines -> Buckets]
    /\ 0 \in Signatures /\ Tag \in [Lines -> Nat]
    /\ NoLine \notin Lines
    /\ Accesses \subseteq Lines \X Signatures \X BOOLEAN

VARIABLES
    timer,      \* State::timers
    occupancy,  \* Optgen::occupancy of each set
    sampler,    \* State::sampler: buckets of entries
    predictor,  \* counters of the prefetch (TRUE) and demand (FALSE) predictors
    cache,      \* the lines of the level
    calls,      \* auxiliary: the calls so far
    elapsed,    \* auxiliary: calls of each sampled set, never wrapped
    lastUse,    \* auxiliary: when each line last used its sampled set, or -1
    judged      \* auxiliary: the intervals addInterval was asked about

vars == <<timer, occupancy, sampler, predictor, cache, calls, elapsed, lastUse, judged>>

\* optgenCapacity.
Capacity == IF Ways > 2 THEN Ways - 2 ELSE Ways

Init ==
    /\ timer = [s \in Sets |-> 0]
    /\ occupancy = [s \in Sets |-> [q \in 0 .. Quanta - 1 |-> 0]]
    /\ sampler = [b \in Buckets |-> [e \in Entries |->
          [valid |-> FALSE, prefetch |-> FALSE, tag |-> 0, lru |-> 0,
           last |-> 0, sig |-> 0, at |-> 0, owner |-> NoLine]]]
    /\ predictor = [p \in BOOLEAN |-> [g \in Signatures |-> PredictorThreshold]]
    /\ cache = [s \in Sets |-> [w \in WayIds |->
          [line |-> NoLine, rrpv |-> 0, sig |-> 0, prefetch |-> FALSE, at |-> 0, friendly |-> FALSE]]]
    /\ calls = 0
    /\ elapsed = [s \in Sets |-> 0]
    /\ lastUse = [l \in Lines |-> -1]
    /\ judged = {}

Stride == IF NumSets \div SampledCacheSets > 1 THEN NumSets \div SampledCacheSets ELSE 1
Sampled(s) ==
    \/ NumSets <= SampledCacheSets
    \/ s % Stride = 0 /\ s \div Stride < SampledCacheSets

Smaller(a, b) == IF a < b THEN a ELSE b
Greater(a, b) == IF a < b THEN b ELSE a
FirstOf(S) == CHOOSE x \in S : \A y \in S : x <= y

Friendly(p, sig, pf) == p[pf][sig] >= PredictorThreshold
Increased_NoLimit(p, sig, pf) == [p EXCEPT ![pf][sig] = @ + 1]
Increased(p, sig, pf) == [p EXCEPT ![pf][sig] = Smaller(@ + 1, PredictorMax)]
Decreased(p, sig, pf) == [p EXCEPT ![pf][sig] = Greater(@ - 1, 0)]

Span_Late(last, distance) == {(last + i) % Quanta : i \in 1 .. distance}
\* Optgen::addInterval: the quanta from the previous use up to the present one.
Span(last, distance) == {(last + i) % Quanta : i \in 0 .. distance - 1}
OptHit_OneMore(s, last, distance) ==
    /\ distance # 0 /\ distance < Quanta
    /\ \A q \in Span(last, distance) : occupancy[s][q] <= Capacity
OptHit(s, last, distance) ==
    /\ distance # 0 /\ distance < Quanta
    /\ \A q \in Span(last, distance) : occupancy[s][q] < Capacity

Matching(l) ==
    {e \in Entries : sampler[Bucket[l]][e].valid /\ sampler[Bucket[l]][e].tag = Tag[l]}

\* selectSamplerVictim: an invalid entry, else the first with the highest LRU.
SamplerVictim(b) ==
    LET invalid == {e \in Entries : ~sampler[b][e].valid}
    IN  FirstOf(IF invalid # {} THEN invalid
                ELSE {e \in Entries : \A f \in Entries : sampler[b][f].lru <= sampler[b][e].lru})

Aged_AfterReset(b, touched, threshold) ==
    [e \in Entries |->
        IF sampler[b][e].valid /\ e # touched /\ threshold = SamplerWays
           /\ sampler[b][e].lru < SamplerWays - 1
        THEN [sampler[b][e] EXCEPT !.lru = @ + 1]
        ELSE sampler[b][e]]
\* ageHistory, with the threshold a hit or a replacement passes.
Aged(b, touched, threshold) ==
    [e \in Entries |->
        IF sampler[b][e].valid /\ e # touched
           /\ sampler[b][e].lru < threshold /\ sampler[b][e].lru < SamplerWays - 1
        THEN [sampler[b][e] EXCEPT !.lru = @ + 1]
        ELSE sampler[b][e]]

Distance_NoWrap(now, last) == Greater(now - last, 0)
\* The calls since a use, by a timer that wraps.
Distance(now, last) == (now + TimerSize - last) % TimerSize

\* State::access, given the predictors p its caller has already trained.
StateAccess(p, s, l, sig, pf) ==
    IF ~Sampled(s)
    THEN /\ predictor' = p
         /\ UNCHANGED <<timer, occupancy, sampler, elapsed, lastUse, judged>>
    ELSE LET b == Bucket[l]
             now == timer[s]
             found == Matching(l) # {}
             e == IF found THEN FirstOf(Matching(l)) ELSE SamplerVictim(b)
             old == sampler[b][e]
             distance == Distance(now, old.last)
             hit == found /\ OptHit(s, old.last, distance)
         IN  /\ predictor' = IF ~found THEN p
                             ELSE IF hit THEN Increased(p, old.sig, old.prefetch)
                             ELSE Decreased(p, old.sig, old.prefetch)
             /\ occupancy' = [occupancy EXCEPT ![s] = [q \in 0 .. Quanta - 1 |->
                   IF q = now % Quanta THEN 0
                   ELSE IF hit /\ q \in Span(old.last, distance) THEN @[q] + 1 ELSE @[q]]]
             /\ sampler' = [sampler EXCEPT ![b] =
                   [Aged(b, e, IF found THEN old.lru ELSE SamplerWays) EXCEPT ![e] =
                       [valid |-> TRUE, prefetch |-> pf, tag |-> Tag[l], lru |-> 0,
                        last |-> now, sig |-> sig, at |-> calls + 1, owner |-> l]]]
             /\ timer' = [timer EXCEPT ![s] = (now + 1) % TimerSize]
             /\ elapsed' = [elapsed EXCEPT ![s] = @ + 1]
             /\ lastUse' = [lastUse EXCEPT ![l] = elapsed[s]]
             /\ judged' = IF ~found THEN judged
                          ELSE judged \cup {[set |-> s, to |-> elapsed[s], opt |-> hit,
                                             from |-> elapsed[s] - distance,
                                             used |-> lastUse[l], own |-> old.owner = l]}

Resident(s, l) == {w \in WayIds : cache[s][w].line = l}

\* updateOnHit (pf = FALSE) and updatePrefetchHit (pf = TRUE).
Hit(l, sig, pf) ==
    LET s == SetOf[l]
    IN  /\ calls < MaxCalls
        /\ Resident(s, l) # {}
        /\ StateAccess(predictor, s, l, sig, pf)
        /\ LET friendly == Friendly(predictor', sig, pf)
           IN  cache' = [cache EXCEPT ![s][FirstOf(Resident(s, l))] =
                 [line |-> l, sig |-> sig, prefetch |-> pf, at |-> calls + 1,
                  friendly |-> friendly, rrpv |-> IF friendly THEN 0 ELSE MaxRrpv]]
        /\ calls' = calls + 1

\* findVictim with findVictimHAWKEYE: an empty way, else the first of the highest RRPV.
Victim(s) ==
    LET empty == {w \in WayIds : cache[s][w].line = NoLine}
    IN  FirstOf(IF empty # {} THEN empty
                ELSE {w \in WayIds : \A v \in WayIds : cache[s][v].rrpv <= cache[s][w].rrpv})

\* A friendly line that must go trains its signature down.
EvictionTrained(s) ==
    LET v == cache[s][Victim(s)]
    IN  IF v.line # NoLine /\ v.rrpv # MaxRrpv /\ Sampled(s)
        THEN Decreased(predictor, v.sig, v.prefetch)
        ELSE predictor

AgedOthers_Unbounded(set, victim) ==
    [w \in WayIds |->
        IF w # victim /\ set[w].line # NoLine /\ set[w].rrpv < MaxRrpv
        THEN [set[w] EXCEPT !.rrpv = @ + 1]
        ELSE set[w]]
\* The other friendly lines age by one, unless one of them cannot.
AgedOthers(set, victim) ==
    LET others == {w \in WayIds \ {victim} : set[w].line # NoLine}
        saturated == \E w \in others : set[w].rrpv = MaxRrpv - 1
    IN  [w \in WayIds |->
            IF w \in others /\ ~saturated /\ set[w].rrpv < MaxRrpv - 1
            THEN [set[w] EXCEPT !.rrpv = @ + 1]
            ELSE set[w]]

\* CacheLevel::insert of a line that missed.
Insert(l, sig, pf) ==
    LET s == SetOf[l]
        victim == Victim(s)
    IN  /\ calls < MaxCalls
        /\ Resident(s, l) = {}
        /\ StateAccess(EvictionTrained(s), s, l, sig, pf)
        /\ LET friendly == Friendly(predictor', sig, pf)
               others == IF friendly THEN AgedOthers(cache[s], victim) ELSE cache[s]
           IN  cache' = [cache EXCEPT ![s] = [others EXCEPT ![victim] =
                 [line |-> l, sig |-> sig, prefetch |-> pf, at |-> calls + 1,
                  friendly |-> friendly, rrpv |-> IF friendly THEN 0 ELSE MaxRrpv]]]
        /\ calls' = calls + 1

Next == \E a \in Accesses : Hit(a[1], a[2], a[3]) \/ Insert(a[1], a[2], a[3])

Spec == Init /\ [][Next]_vars
-------------------------------------------------------------------------------
\* Every variable has the shape and the range of the fields it models; no quantum
\* of OPTgen holds more intervals than the capacity (Optgen::addInterval).
TypeOK ==
    /\ timer \in [Sets -> 0 .. TimerSize - 1]
    /\ occupancy \in [Sets -> [0 .. Quanta - 1 -> 0 .. Capacity]]
    /\ sampler \in [Buckets -> [Entries ->
          [valid : BOOLEAN, prefetch : BOOLEAN, tag : Nat, lru : 0 .. SamplerWays - 1,
           last : 0 .. TimerSize - 1, sig : Signatures, at : Nat, owner : Lines \cup {NoLine}]]]
    /\ predictor \in [BOOLEAN -> [Signatures -> 0 .. PredictorMax]]
    /\ cache \in [Sets -> [WayIds ->
          [line : Lines \cup {NoLine}, rrpv : 0 .. MaxRrpv, sig : Signatures,
           prefetch : BOOLEAN, at : Nat, friendly : BOOLEAN]]]

Covers(j, t) == j.from <= t /\ t < j.to

\* The ring of a sampled set counts, in the quantum of each of the last Quanta
\* calls, the accepted intervals over that call: clearing one quantum a call
\* forgets exactly what has left the window (Optgen::advance).
OccupancyIsIntervals ==
    \A s \in Sets : \A t \in elapsed[s] - Quanta .. elapsed[s] - 1 :
        occupancy[s][t % Quanta] =
            Cardinality({j \in judged : j.set = s /\ j.opt /\ Covers(j, t)})

Fitting(K, s) ==
    \A t \in -Quanta .. elapsed[s] : Cardinality({j \in K : Covers(j, t)}) <= Capacity

\* Among the reuse intervals shorter than the window, OPTgen accepts as many as
\* any choice within the capacity could: the hits of the optimal policy.
OptimalHits ==
    \A s \in Sets :
        LET short == {j \in judged : j.set = s /\ 0 < j.to - j.from /\ j.to - j.from < Quanta}
            accepted == {j \in short : j.opt}
        IN  /\ Fitting(accepted, s)
            /\ \A K \in SUBSET short : Cardinality(K) > Cardinality(accepted) => ~Fitting(K, s)

\* A line reused within a turn of its set's timer is measured at its true distance,
\* across the wrap of the timer, unless a line of the same tag used the entry since.
MeasuredExactly ==
    \A j \in judged : j.own /\ j.to - j.used < TimerSize => j.from = j.used

\* The LRU values of a bucket are the ranks of its valid entries by their last
\* use, so that the entry replaced is the oldest (ageHistory, selectSamplerVictim).
LruIsRecency ==
    \A b \in Buckets : \A e \in Entries :
        sampler[b][e].valid =>
            sampler[b][e].lru =
                Cardinality({f \in Entries : sampler[b][f].valid /\ sampler[b][f].at > sampler[b][e].at})

\* The highest RRPV is held by the lines last predicted averse, whatever ageing does,
\* and among the friendly lines of a set the one used longer ago has the RRPV of the
\* newer one or a higher one: averse lines go first, then the oldest (insertionRrpv,
\* findVictimHAWKEYE).
AverseEvictedFirst ==
    \A s \in Sets : \A w \in WayIds :
        cache[s][w].line # NoLine => (cache[s][w].rrpv = MaxRrpv <=> ~cache[s][w].friendly)

FriendlyByAge ==
    \A s \in Sets : \A v, w \in WayIds :
        /\ cache[s][v].line # NoLine /\ cache[s][w].line # NoLine
        /\ cache[s][v].friendly /\ cache[s][w].friendly
        /\ cache[s][v].at < cache[s][w].at
        => cache[s][v].rrpv >= cache[s][w].rrpv

EvictionOrder == AverseEvictedFirst /\ FriendlyByAge
===============================================================================
