----------------------------- MODULE Hawkeye_proof -----------------------------
(***************************************************************************)
(* The ranges of Hawkeye's counters and the order in which it evicts, then *)
(* what its rings, its sampler and its timers tell of the history of the   *)
(* sets, and that what OPTgen accepts is optimal: for any lines, hashes,   *)
(* sizes of the ring, the sampler and the timers, and any width of the     *)
(* predictors and of the RRPVs.                                            *)
(***************************************************************************)
EXTENDS Hawkeye, Sums

Predictors == [BOOLEAN -> [Signatures -> 0 .. PredictorMax]]
Rings == [Sets -> [0 .. Quanta - 1 -> 0 .. Capacity]]
Entry == [valid : BOOLEAN, prefetch : BOOLEAN, tag : Nat, lru : 0 .. SamplerWays - 1,
          last : 0 .. TimerSize - 1, sig : Signatures, at : Nat, owner : Lines \cup {NoLine}]
Way == [line : Lines \cup {NoLine}, rrpv : 0 .. MaxRrpv, sig : Signatures,
        prefetch : BOOLEAN, at : Nat, friendly : BOOLEAN]

\* EvictionOrder for the ways W of a set, after k calls.
OrderedIn(set, W, k) ==
    /\ set \in [WayIds -> Way]
    /\ \A w \in W : set[w].at <= k
    /\ \A w \in W : set[w].line # NoLine => (set[w].rrpv = MaxRrpv <=> ~set[w].friendly)
    /\ \A v, w \in W :
          /\ set[v].line # NoLine /\ set[w].line # NoLine
          /\ set[v].friendly /\ set[w].friendly
          /\ set[v].at < set[w].at
          => set[v].rrpv >= set[w].rrpv

Ordered(set, k) == OrderedIn(set, WayIds, k)

PolicyInv ==
    /\ TypeOK
    /\ calls \in Nat
    /\ \A s \in Sets : Ordered(cache[s], calls)

LEMMA Sizes ==
    /\ MaxRrpv \in Nat /\ MaxRrpv >= 1
    /\ PredictorMax \in Nat /\ PredictorThreshold \in Nat
    /\ SamplerWays \in Nat /\ SamplerWays >= 1
    /\ TimerSize \in Nat /\ TimerSize >= 1
    /\ Quanta \in Nat /\ Quanta >= 1
    /\ Capacity \in Nat
BY HawkeyeAssumption DEF Capacity

LEMMA ModBounds ==
    ASSUME NEW a \in Nat, NEW n \in Nat, n >= 1
    PROVE  a % n \in 0 .. n - 1
BY SMT

-------------------------------------------------------------------------------
\* The predictors saturate, whichever entry a signature selects.

LEMMA Saturates ==
    ASSUME NEW p \in Predictors, NEW sig, NEW pf
    PROVE  Increased(p, sig, pf) \in Predictors /\ Decreased(p, sig, pf) \in Predictors
<1>1. \A c \in 0 .. PredictorMax : /\ Smaller(c + 1, PredictorMax) \in 0 .. PredictorMax
                                   /\ Greater(c - 1, 0) \in 0 .. PredictorMax
  BY Sizes DEF Smaller, Greater
<1> QED
  BY <1>1 DEF Increased, Decreased, Predictors

\* A ring counts an interval only where there is room for it.
LEMMA RingBounded ==
    ASSUME TypeOK, NEW s \in Sets, NEW cleared, NEW S,
           \A q \in S : occupancy[s][q] < Capacity
    PROVE  [occupancy EXCEPT ![s] = [q \in 0 .. Quanta - 1 |->
               IF q = cleared THEN 0 ELSE IF q \in S THEN @[q] + 1 ELSE @[q]]] \in Rings
<1> DEFINE ring == [q \in 0 .. Quanta - 1 |->
               IF q = cleared THEN 0
               ELSE IF q \in S THEN occupancy[s][q] + 1 ELSE occupancy[s][q]]
<1>1. occupancy \in Rings
  BY DEF TypeOK, Rings
<1>2. \A q \in 0 .. Quanta - 1 : occupancy[s][q] \in 0 .. Capacity
  BY <1>1 DEF Rings
<1>3. ring \in [0 .. Quanta - 1 -> 0 .. Capacity]
  BY <1>2, Sizes
<1> QED
  BY <1>1, <1>3 DEF Rings

\* Ageing keeps the ranks of a bucket below the number of its entries.
LEMMA AgedType ==
    ASSUME TypeOK, NEW b \in Buckets, NEW touched, NEW threshold
    PROVE  Aged(b, touched, threshold) \in [Entries -> Entry]
<1> SUFFICES ASSUME NEW e \in Entries
             PROVE  Aged(b, touched, threshold)[e] \in Entry
  BY DEF Aged
<1>1. sampler[b][e] \in Entry
  BY DEF TypeOK, Entry
<1>2. CASE sampler[b][e].lru < SamplerWays - 1
  <2>1. sampler[b][e].lru + 1 \in 0 .. SamplerWays - 1
    BY <1>1, <1>2, Sizes DEF Entry
  <2>2. [sampler[b][e] EXCEPT !.lru = @ + 1] \in Entry
    BY <1>1, <2>1 DEF Entry
  <2> QED
    BY <1>1, <2>2 DEF Aged
<1>3. CASE ~(sampler[b][e].lru < SamplerWays - 1)
  BY <1>1, <1>3 DEF Aged
<1> QED
  BY <1>2, <1>3

\* Everything State::access changes keeps its range.
LEMMA StateAccessType ==
    ASSUME PolicyInv, NEW p \in Predictors, NEW l \in Lines, NEW sig \in Signatures,
           NEW pf \in BOOLEAN, StateAccess(p, SetOf[l], l, sig, pf)
    PROVE  /\ predictor' \in Predictors
           /\ timer' \in [Sets -> 0 .. TimerSize - 1]
           /\ occupancy' \in Rings
           /\ sampler' \in [Buckets -> [Entries -> Entry]]
<1> DEFINE s == SetOf[l]
           b == Bucket[l]
           now == timer[s]
           found == Matching(l) # {}
           e == IF found THEN FirstOf(Matching(l)) ELSE SamplerVictim(b)
           old == sampler[b][e]
           distance == Distance(now, old.last)
           hit == found /\ OptHit(s, old.last, distance)
           threshold == IF found THEN old.lru ELSE SamplerWays
           entry == [valid |-> TRUE, prefetch |-> pf, tag |-> Tag[l], lru |-> 0,
                     last |-> now, sig |-> sig, at |-> calls + 1, owner |-> l]
<1>1. s \in Sets /\ b \in Buckets /\ Tag[l] \in Nat
  BY HawkeyeAssumption
<1>2. now \in 0 .. TimerSize - 1 /\ calls \in Nat
  BY <1>1 DEF PolicyInv, TypeOK
<1>3. CASE ~Sampled(s)
  BY <1>3 DEF StateAccess, PolicyInv, TypeOK, Rings, Entry
<1>4. CASE Sampled(s)
  <2>1. /\ predictor' = IF ~found THEN p
                        ELSE IF hit THEN Increased(p, old.sig, old.prefetch)
                        ELSE Decreased(p, old.sig, old.prefetch)
        /\ occupancy' = [occupancy EXCEPT ![s] = [q \in 0 .. Quanta - 1 |->
              IF q = now % Quanta THEN 0
              ELSE IF hit /\ q \in Span(old.last, distance) THEN @[q] + 1 ELSE @[q]]]
        /\ sampler' = [sampler EXCEPT ![b] = [Aged(b, e, threshold) EXCEPT ![e] = entry]]
        /\ timer' = [timer EXCEPT ![s] = (now + 1) % TimerSize]
    BY <1>4 DEF StateAccess
  <2>2. hit => \A q \in Span(old.last, distance) : occupancy[s][q] < Capacity
    BY DEF OptHit
  <2>3. entry \in Entry
    BY <1>1, <1>2, Sizes DEF Entry
  <2> HIDE DEF hit, distance, old, e, entry, threshold, found, now, b, s
  <2>4. predictor' \in Predictors
    BY <2>1, Saturates
  <2>5. occupancy' \in Rings
    <3> DEFINE S == {q \in Span(old.last, distance) : hit}
               next == [occupancy EXCEPT ![s] = [q \in 0 .. Quanta - 1 |->
                   IF q = now % Quanta THEN 0 ELSE IF q \in S THEN @[q] + 1 ELSE @[q]]]
    <3>1. \A q \in S : occupancy[s][q] < Capacity
      BY <2>2
    <3>2. occupancy' = next
      BY <2>1
    <3>3. TypeOK
      BY DEF PolicyInv
    <3> HIDE DEF S
    <3>4. next \in Rings
      BY <1>1, <3>1, <3>3, RingBounded
    <3> QED
      BY <3>2, <3>4
  <2>6. sampler' \in [Buckets -> [Entries -> Entry]]
    <3>1. sampler \in [Buckets -> [Entries -> Entry]]
      BY DEF PolicyInv, TypeOK, Entry
    <3>2. Aged(b, e, threshold) \in [Entries -> Entry]
      BY <1>1, AgedType DEF PolicyInv
    <3>3. [Aged(b, e, threshold) EXCEPT ![e] = entry] \in [Entries -> Entry]
      BY <2>3, <3>2
    <3> QED
      BY <1>1, <2>1, <3>1, <3>3
  <2>7. timer' \in [Sets -> 0 .. TimerSize - 1]
    <3>1. (now + 1) % TimerSize \in 0 .. TimerSize - 1
      BY <1>2, Sizes, ModBounds
    <3> QED
      BY <1>1, <2>1, <3>1 DEF PolicyInv, TypeOK
  <2> QED
    BY <2>4, <2>5, <2>6, <2>7
<1> QED
  BY <1>3, <1>4
-------------------------------------------------------------------------------
\* The order of the lines of a set.

\* The line a call leaves on top: newest, and first or last in its set.
New(l, sig, pf, k, friendly) ==
    [line |-> l, sig |-> sig, prefetch |-> pf, at |-> k + 1,
     friendly |-> friendly, rrpv |-> IF friendly THEN 0 ELSE MaxRrpv]

LEMMA NewType ==
    ASSUME NEW l \in Lines, NEW sig \in Signatures, NEW pf \in BOOLEAN, NEW k \in Nat,
           NEW friendly \in BOOLEAN
    PROVE  /\ New(l, sig, pf, k, friendly) \in Way
           /\ New(l, sig, pf, k, friendly).at = k + 1
           /\ New(l, sig, pf, k, friendly).friendly = friendly
           /\ friendly => New(l, sig, pf, k, friendly).rrpv = 0
           /\ ~friendly => New(l, sig, pf, k, friendly).rrpv = MaxRrpv
BY Sizes DEF New, Way

\* A line on top of ordered ones keeps them ordered.
LEMMA OnTop ==
    ASSUME NEW set, NEW k \in Nat, NEW w, OrderedIn(set, WayIds \ {w}, k),
           NEW l \in Lines, NEW sig \in Signatures, NEW pf \in BOOLEAN, NEW friendly \in BOOLEAN
    PROVE  Ordered([set EXCEPT ![w] = New(l, sig, pf, k, friendly)], k + 1)
<1> DEFINE new == New(l, sig, pf, k, friendly)
           after == [set EXCEPT ![w] = new]
<1>1. /\ new \in Way /\ new.at = k + 1 /\ new.friendly = friendly
      /\ friendly => new.rrpv = 0
      /\ ~friendly => new.rrpv = MaxRrpv
  BY NewType
<1>2. set \in [WayIds -> Way]
  BY DEF OrderedIn
<1> HIDE DEF new
<1>3. /\ after \in [WayIds -> Way]
      /\ \A v \in WayIds : after[v] = IF v = w THEN new ELSE set[v]
  BY <1>1, <1>2
<1> HIDE DEF after
<1>4. \A v \in WayIds \ {w} : set[v].at \in Nat /\ set[v].rrpv \in 0 .. MaxRrpv /\ set[v].at <= k
  BY <1>2 DEF OrderedIn, Way
<1>5. \A v \in WayIds : after[v].at <= k + 1
  BY <1>1, <1>3, <1>4
<1>6. ASSUME NEW v \in WayIds, after[v].line # NoLine
      PROVE  after[v].rrpv = MaxRrpv <=> ~after[v].friendly
  BY <1>1, <1>3, <1>6, Sizes DEF OrderedIn
<1>7. ASSUME NEW u \in WayIds, NEW v \in WayIds,
             after[u].line # NoLine, after[v].line # NoLine,
             after[u].friendly, after[v].friendly, after[u].at < after[v].at
      PROVE  after[u].rrpv >= after[v].rrpv
  <2>1. u # w
    BY <1>1, <1>3, <1>4, <1>7
  <2>2. CASE v = w
    BY <1>1, <1>3, <1>4, <1>7, <2>1, <2>2, Sizes
  <2>3. CASE v # w
    BY <1>3, <1>7, <2>1, <2>3 DEF OrderedIn
  <2> QED
    BY <2>2, <2>3
<1>8. Ordered(after, k + 1)
  BY <1>3, <1>5, <1>6, <1>7 DEF Ordered, OrderedIn
<1> QED
  BY <1>8 DEF after, new

\* Ageing moves all friendly lines but the victim alike, or none.
LEMMA AgedAlike ==
    ASSUME NEW set, NEW k \in Nat, Ordered(set, k), NEW victim
    PROVE  \/ AgedOthers(set, victim) = set
           \/ /\ AgedOthers(set, victim) \in [WayIds -> Way]
              /\ \A w \in WayIds :
                    LET new == AgedOthers(set, victim)[w]
                    IN  /\ new.line = set[w].line /\ new.at = set[w].at
                        /\ new.friendly = set[w].friendly
                        /\ w # victim /\ set[w].line # NoLine =>
                              \/ set[w].friendly /\ new.rrpv = set[w].rrpv + 1 /\ new.rrpv < MaxRrpv
                              \/ ~set[w].friendly /\ new.rrpv = set[w].rrpv
                        /\ w = victim => new = set[w]
<1> DEFINE aged == AgedOthers(set, victim)
           others == {w \in WayIds \ {victim} : set[w].line # NoLine}
           saturated == \E w \in others : set[w].rrpv = MaxRrpv - 1
<1>1. aged = [w \in WayIds |-> IF w \in others /\ ~saturated /\ set[w].rrpv < MaxRrpv - 1
                               THEN [set[w] EXCEPT !.rrpv = @ + 1] ELSE set[w]]
  BY DEF AgedOthers
<1> HIDE DEF aged
<1>2. set \in [WayIds -> Way]
  BY DEF Ordered, OrderedIn
<1>3. CASE saturated
  <2>1. aged = [w \in WayIds |-> set[w]]
    BY <1>1, <1>3
  <2> QED
    BY <1>2, <2>1 DEF aged
<1>4. CASE ~saturated
  <2>1. ASSUME NEW w \in WayIds
        PROVE  /\ aged[w] \in Way
               /\ aged[w].line = set[w].line /\ aged[w].at = set[w].at
               /\ aged[w].friendly = set[w].friendly
               /\ w \in others =>
                     \/ set[w].friendly /\ aged[w].rrpv = set[w].rrpv + 1 /\ aged[w].rrpv < MaxRrpv
                     \/ ~set[w].friendly /\ aged[w].rrpv = set[w].rrpv
               /\ w = victim => aged[w] = set[w]
    <3>1. set[w] \in Way /\ set[w].rrpv \in 0 .. MaxRrpv
      BY <1>2 DEF Way
    <3>2. w \in others => (set[w].rrpv = MaxRrpv <=> ~set[w].friendly)
      BY DEF Ordered, OrderedIn
    <3>3. w \in others => set[w].rrpv # MaxRrpv - 1
      BY <1>4
    <3>4. CASE w \in others /\ set[w].rrpv < MaxRrpv - 1
      <4>1. aged[w] = [set[w] EXCEPT !.rrpv = @ + 1]
        BY <1>1, <1>4, <3>4
      <4>2. set[w].rrpv + 1 \in 0 .. MaxRrpv /\ set[w].rrpv + 1 < MaxRrpv
        BY <3>1, <3>4, Sizes
      <4> QED
        BY <3>1, <3>2, <3>4, <4>1, <4>2, Sizes DEF Way
    <3>5. CASE ~(w \in others /\ set[w].rrpv < MaxRrpv - 1)
      <4>1. aged[w] = set[w]
        BY <1>1, <3>5
      <4>2. w \in others => set[w].rrpv = MaxRrpv
        BY <3>1, <3>3, <3>5, Sizes
      <4> QED
        BY <3>1, <3>2, <4>1, <4>2
    <3> QED
      BY <3>4, <3>5
  <2>2. aged \in [WayIds -> Way]
    BY <1>1, <2>1
  <2> QED
    BY <2>1, <2>2 DEF aged
<1> QED
  BY <1>3, <1>4

\* What is left of a set when a friendly line comes is still in order, but for the
\* line that goes.
LEMMA AgedOrdered ==
    ASSUME NEW set, NEW k \in Nat, Ordered(set, k), NEW victim
    PROVE  OrderedIn(AgedOthers(set, victim), WayIds \ {victim}, k)
<1> DEFINE aged == AgedOthers(set, victim)
           W == WayIds \ {victim}
<1>1. CASE aged = set
  BY <1>1 DEF Ordered, OrderedIn
<1>2. CASE aged # set
  <2>1. aged \in [WayIds -> Way]
    BY <1>2, AgedAlike
  <2>2. \A w \in W :
           /\ aged[w].line = set[w].line /\ aged[w].at = set[w].at
           /\ aged[w].friendly = set[w].friendly
           /\ set[w].line # NoLine =>
                 \/ set[w].friendly /\ aged[w].rrpv = set[w].rrpv + 1 /\ aged[w].rrpv < MaxRrpv
                 \/ ~set[w].friendly /\ aged[w].rrpv = set[w].rrpv
    BY <1>2, AgedAlike
  <2> HIDE DEF aged
  <2>3. \A w \in W : set[w].rrpv \in 0 .. MaxRrpv /\ set[w].at <= k
    BY DEF Ordered, OrderedIn, Way
  <2>4. \A w \in W : aged[w].at <= k
    BY <2>2, <2>3
  <2>5. ASSUME NEW w \in W, aged[w].line # NoLine
        PROVE  aged[w].rrpv = MaxRrpv <=> ~aged[w].friendly
    <3>1. set[w].rrpv = MaxRrpv <=> ~set[w].friendly
      BY <2>2, <2>5 DEF Ordered, OrderedIn
    <3> QED
      BY <2>2, <2>3, <2>5, <3>1, Sizes
  <2>6. ASSUME NEW v \in W, NEW w \in W, aged[v].line # NoLine, aged[w].line # NoLine,
               aged[v].friendly, aged[w].friendly, aged[v].at < aged[w].at
        PROVE  aged[v].rrpv >= aged[w].rrpv
    <3>1. set[v].rrpv >= set[w].rrpv
      BY <2>2, <2>6 DEF Ordered, OrderedIn
    <3> QED
      BY <2>2, <2>3, <2>6, <3>1
  <2> QED
    BY <2>1, <2>4, <2>5, <2>6 DEF OrderedIn, aged
<1> QED
  BY <1>1, <1>2

\* An ordered set stays ordered as calls pass.
LEMMA OrderedLater ==
    ASSUME NEW set, NEW k \in Nat, Ordered(set, k)
    PROVE  Ordered(set, k + 1) /\ \A w : OrderedIn(set, WayIds \ {w}, k)
<1>1. \A w \in WayIds : set[w].at \in Nat /\ set[w].at <= k + 1
  BY DEF Ordered, OrderedIn, Way
<1> QED
  BY <1>1 DEF Ordered, OrderedIn

-------------------------------------------------------------------------------
LEMMA PolicyInit == Init => PolicyInv
<1> SUFFICES ASSUME Init
             PROVE  PolicyInv
  OBVIOUS
<1>1. 0 \in Signatures /\ PredictorThreshold \in 0 .. PredictorMax
  BY HawkeyeAssumption
<1>2. \A s \in Sets : cache[s] \in [WayIds -> Way]
  BY <1>1, Sizes DEF Init, Way
<1>3. TypeOK
  <2>1. timer \in [Sets -> 0 .. TimerSize - 1]
    BY Sizes DEF Init
  <2>2. occupancy \in [Sets -> [0 .. Quanta - 1 -> 0 .. Capacity]]
    BY Sizes DEF Init
  <2>3. sampler \in [Buckets -> [Entries -> Entry]]
    BY <1>1, Sizes DEF Init, Entry
  <2>4. predictor \in [BOOLEAN -> [Signatures -> 0 .. PredictorMax]]
    BY <1>1 DEF Init
  <2>5. cache \in [Sets -> [WayIds -> Way]]
    BY <1>2 DEF Init
  <2> QED
    BY <2>1, <2>2, <2>3, <2>4, <2>5 DEF TypeOK, Entry, Way
<1>4. \A s \in Sets : Ordered(cache[s], calls)
  <2> SUFFICES ASSUME NEW s \in Sets
               PROVE  Ordered(cache[s], calls)
    OBVIOUS
  <2>1. \A w \in WayIds : cache[s][w].line = NoLine /\ cache[s][w].at <= calls
    BY DEF Init
  <2> QED
    BY <1>2, <2>1 DEF Ordered, OrderedIn
<1> QED
  BY <1>3, <1>4 DEF Init, PolicyInv

\* A call that trains the predictors and leaves a new line on top of one set.
LEMMA CallKeeps ==
    ASSUME PolicyInv, NEW p \in Predictors, NEW l \in Lines, NEW sig \in Signatures,
           NEW pf \in BOOLEAN, NEW friendly \in BOOLEAN, NEW w, NEW others,
           StateAccess(p, SetOf[l], l, sig, pf),
           OrderedIn(others, WayIds \ {w}, calls),
           cache' = [cache EXCEPT ![SetOf[l]] =
                        [others EXCEPT ![w] = New(l, sig, pf, calls, friendly)]],
           calls' = calls + 1
    PROVE  PolicyInv'
<1> DEFINE s == SetOf[l]
           after == [others EXCEPT ![w] = New(l, sig, pf, calls, friendly)]
<1>1. s \in Sets /\ calls \in Nat /\ calls' \in Nat
  BY HawkeyeAssumption DEF PolicyInv
<1>2. cache \in [Sets -> [WayIds -> Way]]
  BY DEF PolicyInv, TypeOK, Way
<1>3. Ordered(after, calls + 1)
  BY <1>1, OnTop
<1>4. cache' = [cache EXCEPT ![s] = after]
  OBVIOUS
<1> HIDE DEF s, after
<1>5. \A r \in Sets : Ordered(cache'[r], calls')
  <2> SUFFICES ASSUME NEW r \in Sets
               PROVE  Ordered(cache'[r], calls + 1)
    OBVIOUS
  <2>1. CASE r = s
    BY <1>2, <1>3, <1>4, <2>1
  <2>2. CASE r # s
    <3>1. cache'[r] = cache[r] /\ Ordered(cache[r], calls)
      BY <1>2, <1>4, <2>2 DEF PolicyInv
    <3> QED
      BY <1>1, <3>1, OrderedLater
  <2> QED
    BY <2>1, <2>2
<1>6. cache' \in [Sets -> [WayIds -> Way]]
  BY <1>2, <1>3, <1>4 DEF Ordered, OrderedIn
<1>7. TypeOK'
  <2>1. /\ predictor' \in Predictors
        /\ timer' \in [Sets -> 0 .. TimerSize - 1]
        /\ occupancy' \in Rings
        /\ sampler' \in [Buckets -> [Entries -> Entry]]
    BY StateAccessType
  <2> QED
    BY <1>6, <2>1 DEF TypeOK, Predictors, Rings, Entry, Way
<1> QED
  BY <1>1, <1>5, <1>7 DEF PolicyInv

LEMMA PolicyStep ==
    ASSUME PolicyInv, [Next]_vars
    PROVE  PolicyInv'
<1>1. CASE UNCHANGED vars
  BY <1>1 DEF PolicyInv, TypeOK, vars
<1>2. ASSUME NEW a \in Accesses, Hit(a[1], a[2], a[3]) \/ Insert(a[1], a[2], a[3])
      PROVE  PolicyInv'
  <2> DEFINE l == a[1]
             sig == a[2]
             pf == a[3]
             s == SetOf[l]
             friendly == Friendly(predictor', sig, pf)
  <2>1. l \in Lines /\ sig \in Signatures /\ pf \in BOOLEAN
    BY HawkeyeAssumption
  <2>2. /\ s \in Sets /\ calls \in Nat /\ predictor \in Predictors
        /\ Ordered(cache[s], calls)
    BY <2>1, HawkeyeAssumption DEF PolicyInv, TypeOK, Predictors
  <2>3. friendly \in BOOLEAN
    BY DEF Friendly
  <2>4. CASE Hit(l, sig, pf)
    <3> DEFINE w == FirstOf(Resident(s, l))
    <3>1. /\ StateAccess(predictor, s, l, sig, pf)
          /\ cache' = [cache EXCEPT ![s] = [cache[s] EXCEPT ![w] = New(l, sig, pf, calls, friendly)]]
          /\ calls' = calls + 1
      BY <2>2, <2>4 DEF Hit, New, PolicyInv, TypeOK
    <3>2. OrderedIn(cache[s], WayIds \ {w}, calls)
      BY <2>2, OrderedLater
    <3> HIDE DEF l, sig, pf, w, friendly
    <3> QED
      BY <2>1, <2>2, <2>3, <3>1, <3>2, CallKeeps
  <2>5. CASE Insert(l, sig, pf)
    <3> DEFINE w == Victim(s)
               others == IF friendly THEN AgedOthers(cache[s], w) ELSE cache[s]
    <3>1. /\ StateAccess(EvictionTrained(s), s, l, sig, pf)
          /\ cache' = [cache EXCEPT ![s] = [others EXCEPT ![w] = New(l, sig, pf, calls, friendly)]]
          /\ calls' = calls + 1
      BY <2>5 DEF Insert, New
    <3>2. EvictionTrained(s) \in Predictors
      BY <2>2, Saturates DEF EvictionTrained
    <3>3. OrderedIn(others, WayIds \ {w}, calls)
      BY <2>2, OrderedLater, AgedOrdered
    <3> HIDE DEF l, sig, pf, w, friendly, others
    <3> QED
      BY <2>1, <2>3, <3>1, <3>2, <3>3, CallKeeps
  <2> QED
    BY <1>2, <2>4, <2>5
<1> QED
  BY <1>1, <1>2 DEF Next

\* Ranges and order hold together in every reachable state.
THEOREM Invariance == Spec => []PolicyInv
<1>1. PolicyInv /\ [Next]_vars => PolicyInv'
  BY PolicyStep
<1> QED
  BY PolicyInit, <1>1, PTL DEF Spec

\* The counters stay in their ranges: no quantum of OPTgen holds more intervals than
\* the capacity, no predictor leaves its bits, no sampler rank its bucket.
THEOREM TypeHolds == Spec => []TypeOK
<1>1. PolicyInv => TypeOK
  BY DEF PolicyInv
<1> QED
  BY <1>1, Invariance, PTL

\* Averse lines go first, then friendly ones by age, however often the set has aged.
THEOREM OrderHolds == Spec => []EvictionOrder
<1>1. PolicyInv => EvictionOrder
  BY DEF PolicyInv, Ordered, OrderedIn, EvictionOrder, AverseEvictedFirst, FriendlyByAge
<1> QED
  BY <1>1, Invariance, PTL
-------------------------------------------------------------------------------
\* Remainders: the timers wrap, the rings turn.

LEMMA Multiple ==
    ASSUME NEW n \in Nat \ {0}, NEW d \in Int, d # 0
    PROVE  n * d >= n \/ n * d <= -n
BY SMT

LEMMA Division ==
    ASSUME NEW n \in Nat \ {0}, NEW a \in Int
    PROVE  /\ a \div n \in Int /\ a % n \in 0 .. n - 1
           /\ a = n * (a \div n) + (a % n)
BY SMT

LEMMA RemainderIs ==
    ASSUME NEW n \in Nat \ {0}, NEW a \in Int, NEW k \in Int, NEW r \in 0 .. n - 1,
           a = n * k + r
    PROVE  a % n = r
<1>1. /\ a \div n \in Int /\ a % n \in 0 .. n - 1
      /\ a = n * (a \div n) + (a % n)
  BY Division
<1> DEFINE q == a \div n
           m == a % n
           d == q - k
<1>2. d \in Int /\ q \in Int /\ m \in 0 .. n - 1 /\ q = k + d /\ a = n * q + m
  BY <1>1, SMT
<1> HIDE DEF d, q, m
<1>3. n * d = r - m
  BY <1>2, SMT
<1>4. d = 0
  <2>1. n * d < n /\ n * d > -n
    BY <1>2, <1>3, SMT
  <2>2. n * d \in Int
    BY <1>2, SMT
  <2> QED
    BY <1>2, <2>1, <2>2, Multiple, SMT
<1>5. m = r
  BY <1>2, <1>3, <1>4, SMT
<1> QED
  BY <1>5 DEF m

\* a is k turns of n ahead of b.
Turns(a, b, n, k) == a = b + n * k

LEMMA SameRemainder ==
    ASSUME NEW n \in Nat \ {0}, NEW a \in Int, NEW b \in Int, NEW k \in Int, Turns(a, b, n, k)
    PROVE  a % n = b % n
<1> DEFINE q == b \div n
           r == b % n
<1>1. q \in Int /\ r \in 0 .. n - 1 /\ b = n * q + r
  BY Division
<1> HIDE DEF q, r
<1>2. q + k \in Int /\ a = n * (q + k) + r
  <2>1. a = b + n * k
    BY DEF Turns
  <2> QED
    BY <1>1, <2>1, SMT
<1>3. a % n = r
  BY <1>1, <1>2, RemainderIs
<1> QED
  BY <1>3 DEF r

LEMMA OtherRemainder ==
    ASSUME NEW n \in Nat \ {0}, NEW a \in Int, NEW b \in Int, 0 < a - b, a - b < n
    PROVE  a % n # b % n
<1> SUFFICES ASSUME a % n = b % n PROVE FALSE
  OBVIOUS
<1> DEFINE q == a \div n
           p == b \div n
           r == a % n
<1>1. q \in Int /\ p \in Int /\ r \in 0 .. n - 1 /\ a = n * q + r /\ b = n * p + r
  BY Division
<1> HIDE DEF q, p, r
<1> DEFINE d == q - p
<1>2. d \in Int /\ q = p + d
  BY <1>1, SMT
<1> HIDE DEF d
<1>3. a - b = n * d
  BY <1>1, <1>2, SMT
<1>4. d # 0
  BY <1>3, SMT
<1> QED
  BY <1>2, <1>3, <1>4, Multiple, SMT

Fits(q, n) == n % q = 0

\* A timer that wraps at a multiple of q is at the same place of a ring of q.
LEMMA WrappedAlike ==
    ASSUME NEW n \in Nat \ {0}, NEW q \in Nat \ {0}, Fits(q, n), NEW a \in Int, NEW b \in Int,
           NEW k \in Int, Turns(a, b, n, k)
    PROVE  a % q = b % q
<1> DEFINE m == n \div q
<1>1. m \in Int /\ n = q * m
  <2>1. n \in Int /\ m \in Int /\ n = q * m + (n % q)
    BY Division
  <2>2. n % q = 0
    BY DEF Fits
  <2> QED
    BY <2>1, <2>2, SMT
<1> HIDE DEF m
<1> DEFINE d == m * k
<1>2. d \in Int /\ a = b + q * d
  <2>1. a = b + n * k
    BY DEF Turns
  <2> QED
    BY <1>1, <2>1, SMT
<1> HIDE DEF d
<1>3. Turns(a, b, q, d)
  BY <1>2 DEF Turns
<1> QED
  BY <1>2, <1>3, SameRemainder

LEMMA TickOf ==
    ASSUME NEW n \in Nat \ {0}, NEW a \in Nat
    PROVE  ((a % n) + 1) % n = (a + 1) % n
<1> DEFINE q == a \div n
           r == a % n
<1>1. q \in Int /\ r \in 0 .. n - 1 /\ a = n * q + r
  BY Division
<1> HIDE DEF q, r
<1>2. r \in Int /\ a \in Int /\ n * q \in Int
  BY <1>1, SMT
<1> DEFINE z == n * q
<1>4. a = z + r /\ z \in Int
  BY <1>1, <1>2
<1> HIDE DEF z
<1>5. a + 1 \in Int /\ r + 1 \in Int /\ a + 1 = (r + 1) + z
  BY <1>2, <1>4, SMT
<1>6. Turns(a + 1, r + 1, n, q)
  BY <1>5 DEF Turns, z
<1>3. (a + 1) % n = (r + 1) % n
  BY <1>1, <1>5, <1>6, SameRemainder
<1> QED
  BY <1>3 DEF r

Measured(m, last, n) == (m + n - last) % n

\* What a wrapping timer measures between two moments less than a turn apart.
LEMMA TurnMeasured ==
    ASSUME NEW n \in Nat \ {0}, NEW a \in Int, NEW b \in Int, a - b \in 0 .. n - 1
    PROVE  Measured(a % n, b % n, n) = a - b
<1> DEFINE q == a \div n
           r == a % n
           p == b \div n
           t == b % n
<1>1. q \in Int /\ r \in 0 .. n - 1 /\ a = n * q + r
  BY Division
<1>2. p \in Int /\ t \in 0 .. n - 1 /\ b = n * p + t
  BY Division
<1> HIDE DEF q, r, p, t
<1>3. /\ p - q + 1 \in Int /\ r + n - t \in Int
      /\ r + n - t = n * (p - q + 1) + (a - b)
  BY <1>1, <1>2, SMT
<1>4. (r + n - t) % n = a - b
  BY <1>3, RemainderIs
<1> QED
  BY <1>4 DEF r, t, Measured

LEMMA TurnsBack ==
    ASSUME NEW n \in Nat \ {0}, NEW now \in Nat, NEW last \in 0 .. n - 1, NEW distance,
           distance = Measured(now % n, last, n)
    PROVE  /\ distance \in 0 .. n - 1
           /\ \E y \in Int : Turns(last, now - distance, n, y)
<1> DEFINE w == now \div n
           r == now % n
           x == r + n - last
           k == x \div n
<1>1. w \in Int /\ r \in 0 .. n - 1 /\ now = n * w + r
  <2>1. now \in Int
    OBVIOUS
  <2> QED
    BY <2>1, Division
<1> HIDE DEF w, r
<1>2. x \in Int
  BY <1>1, SMT
<1>3. k \in Int /\ x % n \in 0 .. n - 1 /\ x = n * k + (x % n)
  BY <1>2, Division
<1>4. distance = x % n
  BY DEF r, Measured
<1> HIDE DEF k
<1>5. k \in Int /\ distance \in 0 .. n - 1 /\ r + n - last = n * k + distance
  BY <1>3, <1>4
<1> DEFINE y == 1 - k - w
           nk == n * k
           nw == n * w
           ny == n * y
<1>6. /\ y \in Int /\ nk \in Int /\ nw \in Int /\ ny \in Int /\ ny = n - nk - nw
  BY <1>1, <1>5, SMT
<1>7. now = nw + r /\ r + n - last = nk + distance
  BY <1>1, <1>5
<1> HIDE DEF nk, nw, ny, y, x
<1>8. last = (now - distance) + ny
  BY <1>1, <1>5, <1>6, <1>7, SMT
<1>9. Turns(last, now - distance, n, y)
  BY <1>8 DEF Turns, ny
<1> QED
  BY <1>5, <1>6, <1>9

LEMMA TurnsLater ==
    ASSUME NEW n \in Nat, NEW a \in Int, NEW b \in Int, NEW k \in Int, NEW i \in Int, Turns(a, b, n, k)
    PROVE  Turns(a + i, b + i, n, k)
BY DEF Turns

\* Counting back from now by what the timer measured meets the ring where it was then.
LEMMA MeasuredBack ==
    ASSUME NEW n \in Nat \ {0}, NEW q \in Nat \ {0}, Fits(q, n),
           NEW now \in Nat, NEW last \in 0 .. n - 1, NEW distance,
           distance = Measured(now % n, last, n), NEW i \in Int
    PROVE  /\ distance \in 0 .. n - 1
           /\ (last + i) % q = ((now - distance) + i) % q
<1>1. /\ distance \in 0 .. n - 1
      /\ \E y \in Int : Turns(last, now - distance, n, y)
  BY TurnsBack
<1>2. PICK y \in Int : Turns(last, now - distance, n, y)
  BY <1>1
<1>3. last \in Int /\ now - distance \in Int
  BY <1>1, SMT
<1>4. Turns(last + i, (now - distance) + i, n, y)
  BY <1>2, <1>3, TurnsLater
<1>5. last + i \in Int /\ (now - distance) + i \in Int
  BY <1>3, SMT
<1>6. \A a, b, k \in Int : Turns(a, b, n, k) => a % q = b % q
  BY WrappedAlike
<1>7. (last + i) % q = ((now - distance) + i) % q
  BY <1>4, <1>5, <1>6
<1> QED
  BY <1>1, <1>7
-------------------------------------------------------------------------------
\* The sampler: its ranks, who used its entries, and the clocks they tell.

Newer(ent, e) == {f \in Entries : ent[f].valid /\ ent[f].at > ent[e].at}

\* The ranks of a bucket after k calls.
Ranked(ent, k) ==
    /\ \A e \in Entries : ent[e].valid => ent[e].at <= k /\ ent[e].lru = Cardinality(Newer(ent, e))
    /\ \A e, f \in Entries : ent[e].valid /\ ent[f].valid /\ e # f => ent[e].at # ent[f].at

LEMMA NewerCounted ==
    ASSUME NEW ent, NEW e
    PROVE  IsFiniteSet(Newer(ent, e)) /\ Cardinality(Newer(ent, e)) \in Nat
<1>1. IsFiniteSet(Entries)
  BY Sizes, FS_Interval DEF Entries
<1>2. Newer(ent, e) \subseteq Entries
  BY DEF Newer
<1> QED
  BY <1>1, <1>2, FS_Subset, FS_CardinalityType

\* The rank of an entry used earlier is the higher one.
LEMMA OlderRanks ==
    ASSUME NEW ent \in [Entries -> Entry], NEW k, Ranked(ent, k),
           NEW e \in Entries, NEW f \in Entries, ent[e].valid, ent[f].valid,
           ent[e].at < ent[f].at
    PROVE  ent[f].lru < ent[e].lru
<1>1. \A g \in Entries : ent[g].at \in Nat
  BY DEF Entry
<1>2. Newer(ent, f) \subseteq Newer(ent, e) /\ f \in Newer(ent, e) /\ f \notin Newer(ent, f)
  BY <1>1 DEF Newer
<1>3. /\ Cardinality(Newer(ent, f)) <= Cardinality(Newer(ent, e))
      /\ Cardinality(Newer(ent, f)) # Cardinality(Newer(ent, e))
  BY <1>2, NewerCounted, FS_Subset
<1>4. Cardinality(Newer(ent, f)) \in Nat /\ Cardinality(Newer(ent, e)) \in Nat
  BY NewerCounted
<1> QED
  BY <1>3, <1>4 DEF Ranked

\* An entry is used: it is the newest, and each entry newer than it was ages.
LEMMA RankedUse ==
    ASSUME NEW ent \in [Entries -> Entry], NEW k \in Nat, Ranked(ent, k),
           NEW e \in Entries, NEW new,
           new[e].valid, new[e].at = k + 1, new[e].lru = 0,
           \A f \in Entries \ {e} :
               /\ new[f].valid = ent[f].valid /\ new[f].at = ent[f].at
               /\ ent[f].valid => new[f].lru = IF ent[e].valid /\ ent[e].at > ent[f].at
                                               THEN ent[f].lru ELSE ent[f].lru + 1
    PROVE  Ranked(new, k + 1)
<1>1. \A f \in Entries : ent[f].at \in Nat /\ (ent[f].valid => ent[f].at <= k)
  BY DEF Entry, Ranked
<1>2. ASSUME NEW f \in Entries, new[f].valid
      PROVE  new[f].at <= k + 1 /\ new[f].lru = Cardinality(Newer(new, f))
  <2>1. CASE f = e
    <3>1. Newer(new, e) = {}
      <4> SUFFICES ASSUME NEW g \in Entries, new[g].valid, new[g].at > new[e].at PROVE FALSE
        BY DEF Newer
      <4>1. g # e /\ ent[g].valid /\ new[g].at = ent[g].at
        BY <1>1
      <4> QED
        BY <1>1, <4>1
    <3>2. Cardinality(Newer(new, e)) = 0
      BY <3>1, FS_EmptySet
    <3> QED
      BY <2>1, <3>2
  <2>2. CASE f # e
    <3>1. /\ ent[f].valid /\ new[f].at = ent[f].at
          /\ new[f].lru = IF ent[e].valid /\ ent[e].at > ent[f].at
                          THEN ent[f].lru ELSE ent[f].lru + 1
      BY <1>2, <2>2
    <3>2. ent[f].lru = Cardinality(Newer(ent, f))
      BY <3>1 DEF Ranked
    <3>3. \A g \in Entries : g \in Newer(new, f) <=> g = e \/ g \in Newer(ent, f)
      <4> SUFFICES ASSUME NEW g \in Entries
                   PROVE  new[g].valid /\ new[g].at > new[f].at
                              <=> g = e \/ (ent[g].valid /\ ent[g].at > ent[f].at)
        BY DEF Newer
      <4>1. CASE g = e
        BY <1>1, <3>1, <4>1
      <4>2. CASE g # e
        BY <3>1, <4>2
      <4> QED
        BY <4>1, <4>2
    <3>4. Newer(new, f) = Newer(ent, f) \cup {e}
      BY <3>3 DEF Newer
    <3>5. IsFiniteSet(Newer(ent, f))
      BY NewerCounted
    <3>6. Cardinality(Newer(new, f)) =
              IF e \in Newer(ent, f) THEN Cardinality(Newer(ent, f)) ELSE Cardinality(Newer(ent, f)) + 1
      BY <3>4, <3>5, FS_AddElement
    <3>7. e \in Newer(ent, f) <=> ent[e].valid /\ ent[e].at > ent[f].at
      BY DEF Newer
    <3>8. new[f].lru = Cardinality(Newer(new, f))
      BY <3>1, <3>2, <3>6, <3>7
    <3> QED
      BY <1>1, <3>1, <3>8
  <2> QED
    BY <2>1, <2>2
<1>3. ASSUME NEW f \in Entries, NEW g \in Entries, new[f].valid, new[g].valid, f # g
      PROVE  new[f].at # new[g].at
  <2>1. CASE f = e
    <3>1. new[g].at = ent[g].at /\ ent[g].valid
      BY <1>3, <2>1
    <3> QED
      BY <1>1, <2>1, <3>1
  <2>2. CASE g = e
    <3>1. new[f].at = ent[f].at /\ ent[f].valid
      BY <1>3, <2>2
    <3> QED
      BY <1>1, <2>2, <3>1
  <2>3. CASE f # e /\ g # e
    BY <1>3, <2>3 DEF Ranked
  <2> QED
    BY <2>1, <2>2, <2>3
<1> QED
  BY <1>2, <1>3 DEF Ranked

\* The entry an access uses.
Found(l) == Matching(l) # {}
Chosen(l) == IF Found(l) THEN FirstOf(Matching(l)) ELSE SamplerVictim(Bucket[l])
OldOf(l) == sampler[Bucket[l]][Chosen(l)]
Threshold(l) == IF Found(l) THEN OldOf(l).lru ELSE SamplerWays

LEMMA FirstIn == ASSUME NEW T \in SUBSET Nat, T # {} PROVE FirstOf(T) \in T
BY LeastNatural DEF FirstOf

\* It has the tag, or none has and it is free, or none is free and it is the oldest.
LEMMA ChosenEntry ==
    ASSUME PolicyInv, NEW l \in Lines
    PROVE  /\ Chosen(l) \in Entries
           /\ Found(l) => OldOf(l).valid /\ OldOf(l).tag = Tag[l]
           /\ ~Found(l) => \A f \in Entries :
                  sampler[Bucket[l]][f].valid => sampler[Bucket[l]][f].tag # Tag[l]
           /\ ~Found(l) /\ OldOf(l).valid => \A f \in Entries :
                  sampler[Bucket[l]][f].valid /\ sampler[Bucket[l]][f].lru <= OldOf(l).lru
<1> DEFINE b == Bucket[l]
           ent == sampler[b]
           invalid == {e \in Entries : ~ent[e].valid}
           last == {e \in Entries : \A f \in Entries : ent[f].lru <= ent[e].lru}
<1>1. Matching(l) = {e \in Entries : ent[e].valid /\ ent[e].tag = Tag[l]}
  BY DEF Matching
<1>2. SamplerVictim(b) = FirstOf(IF invalid # {} THEN invalid ELSE last)
  BY DEF SamplerVictim
<1>3. Entries \in SUBSET Nat /\ 1 \in Entries
  BY Sizes DEF Entries
<1>4. \A e \in Entries : ent[e].lru \in 0 .. SamplerWays - 1
  BY HawkeyeAssumption DEF PolicyInv, TypeOK
<1> HIDE DEF ent
<1>5. last # {}
  <2> DEFINE room == {SamplerWays - ent[e].lru : e \in Entries}
  <2>1. room \in SUBSET Nat /\ room # {}
    BY <1>3, <1>4, Sizes
  <2>2. PICK x \in room : \A y \in room : x <= y
    BY <2>1, LeastNatural
  <2>3. PICK e \in Entries : x = SamplerWays - ent[e].lru
    BY <2>2
  <2>4. \A f \in Entries : ent[f].lru <= ent[e].lru
    <3> SUFFICES ASSUME NEW f \in Entries PROVE ent[f].lru <= ent[e].lru
      OBVIOUS
    <3>1. x <= SamplerWays - ent[f].lru
      BY <2>2
    <3> QED
      BY <1>4, <2>3, <3>1, Sizes
  <2> QED
    BY <2>4
<1>6. CASE Found(l)
  <2>1. Chosen(l) \in Matching(l)
    BY <1>1, <1>3, <1>6, FirstIn DEF Chosen, Found
  <2> QED
    BY <1>1, <1>6, <2>1 DEF ent, OldOf
<1>7. CASE ~Found(l)
  <2>1. \A f \in Entries : ent[f].valid => ent[f].tag # Tag[l]
    BY <1>1, <1>7 DEF Found
  <2>2. Chosen(l) = FirstOf(IF invalid # {} THEN invalid ELSE last)
    BY <1>2, <1>7 DEF Chosen
  <2>3. CASE invalid # {}
    <3>1. Chosen(l) \in invalid
      BY <1>3, <2>2, <2>3, FirstIn
    <3> QED
      BY <1>7, <2>1, <3>1 DEF ent, OldOf
  <2>4. CASE invalid = {}
    <3>1. Chosen(l) \in last
      <4>1. Chosen(l) = FirstOf(last) /\ last \in SUBSET Nat
        BY <1>3, <2>2, <2>4
      <4> QED
        BY <1>5, <4>1, FirstIn
    <3> QED
      BY <1>7, <2>1, <2>4, <3>1 DEF ent, OldOf
  <2> QED
    BY <2>3, <2>4
<1> QED
  BY <1>6, <1>7

LEMMA AgedFields ==
    ASSUME PolicyInv, NEW b \in Buckets, NEW touched, NEW threshold, NEW f \in Entries
    PROVE  LET new == Aged(b, touched, threshold)[f]
               old == sampler[b][f]
           IN  /\ new.valid = old.valid /\ new.tag = old.tag /\ new.last = old.last
               /\ new.at = old.at /\ new.owner = old.owner
               /\ new.lru = IF old.valid /\ f # touched
                               /\ old.lru < threshold /\ old.lru < SamplerWays - 1
                            THEN old.lru + 1 ELSE old.lru
<1> DEFINE old == sampler[b][f]
           ages == /\ old.valid /\ f # touched
                   /\ old.lru < threshold /\ old.lru < SamplerWays - 1
<1>1. old \in Entry
  BY DEF PolicyInv, TypeOK, Entry
<1>2. Aged(b, touched, threshold)[f] = IF ages THEN [old EXCEPT !.lru = @ + 1] ELSE old
  BY DEF Aged
<1> HIDE DEF old
<1>3. CASE ages
  <2>1. Aged(b, touched, threshold)[f] = [old EXCEPT !.lru = old.lru + 1]
    BY <1>2, <1>3
  <2> QED
    BY <1>1, <1>3, <2>1 DEF Entry, old
<1>4. CASE ~ages
  BY <1>2, <1>4 DEF old
<1> QED
  BY <1>3, <1>4

\* What an access leaves in the entry it used.
Used(l, sig, pf) ==
    [valid |-> TRUE, prefetch |-> pf, tag |-> Tag[l], lru |-> 0,
     last |-> timer[SetOf[l]], sig |-> sig, at |-> calls + 1, owner |-> l]

\* The bucket after an access: the entry used, and the others aged.
LEMMA SamplerUsed ==
    ASSUME PolicyInv, NEW p, NEW l \in Lines, NEW sig, NEW pf,
           StateAccess(p, SetOf[l], l, sig, pf), Sampled(SetOf[l])
    PROVE  /\ \A c \in Buckets \ {Bucket[l]} : sampler'[c] = sampler[c]
           /\ sampler'[Bucket[l]][Chosen(l)] = Used(l, sig, pf)
           /\ \A f \in Entries \ {Chosen(l)} :
                  sampler'[Bucket[l]][f] = Aged(Bucket[l], Chosen(l), Threshold(l))[f]
<1> DEFINE b == Bucket[l]
           e == Chosen(l)
           aged == Aged(b, e, Threshold(l))
           used == Used(l, sig, pf)
<1>1. sampler' = [sampler EXCEPT ![b] = [aged EXCEPT ![e] = used]]
  BY DEF StateAccess, Found, Chosen, OldOf, Threshold, Used
<1>2. b \in Buckets /\ e \in Entries
  BY HawkeyeAssumption, ChosenEntry
<1>3. aged = [f \in Entries |-> aged[f]]
  BY DEF Aged
<1>4. DOMAIN sampler = Buckets
  BY DEF PolicyInv, TypeOK
<1> HIDE DEF b, e, aged, used
<1>5. sampler'[b] = [aged EXCEPT ![e] = used] /\ \A c \in Buckets \ {b} : sampler'[c] = sampler[c]
  BY <1>1, <1>2, <1>4
<1>6. sampler'[b][e] = used /\ \A f \in Entries \ {e} : sampler'[b][f] = aged[f]
  BY <1>2, <1>3, <1>5
<1> QED
  BY <1>5, <1>6 DEF b, e, aged, used

\* The ranks stay the order of use.
LEMMA RanksKept ==
    ASSUME PolicyInv, NEW p, NEW l \in Lines, NEW sig, NEW pf,
           StateAccess(p, SetOf[l], l, sig, pf), Sampled(SetOf[l]),
           \A c \in Buckets : Ranked(sampler[c], calls)
    PROVE  \A c \in Buckets : Ranked(sampler'[c], calls + 1)
<1>0. sampler'[Bucket[l]][Chosen(l)] = Used(l, sig, pf)
  BY SamplerUsed
<1> DEFINE b == Bucket[l]
           ent == sampler[b]
           e == Chosen(l)
           new == sampler'[b]
<1>1. b \in Buckets /\ e \in Entries /\ calls \in Nat
  BY HawkeyeAssumption, ChosenEntry DEF PolicyInv
<1>2. ent \in [Entries -> Entry] /\ Ranked(ent, calls)
  BY <1>1 DEF PolicyInv, TypeOK, Entry
<1>3. \A f \in Entries : ent[f].lru \in 0 .. SamplerWays - 1 /\ ent[f].at \in Nat
  BY <1>2 DEF Entry
<1>4. Found(l) => ent[e].valid
  BY ChosenEntry DEF OldOf
<1>11. ~Found(l) /\ ent[e].valid => \A f \in Entries : ent[f].valid /\ ent[f].lru <= ent[e].lru
  BY ChosenEntry DEF OldOf
<1>5. new[e].valid /\ new[e].at = calls + 1 /\ new[e].lru = 0
  <2>1. new[e] = Used(l, sig, pf)
    BY <1>0
  <2> HIDE DEF new, e
  <2> QED
    BY <2>1 DEF Used
<1>6. ASSUME NEW f \in Entries \ {e}
      PROVE  /\ new[f].valid = ent[f].valid /\ new[f].at = ent[f].at
             /\ new[f].lru = IF ent[f].valid /\ ent[f].lru < Threshold(l) /\ ent[f].lru < SamplerWays - 1
                             THEN ent[f].lru + 1 ELSE ent[f].lru
  <2>1. new[f] = Aged(b, e, Threshold(l))[f]
    BY SamplerUsed
  <2> QED
    BY <1>1, <2>1, AgedFields
<1>7. Threshold(l) = IF Found(l) THEN ent[e].lru ELSE SamplerWays
  BY DEF Threshold, OldOf
<1> HIDE DEF b, ent, e, new
<1>8. ASSUME NEW f \in Entries \ {e}, ent[f].valid
      PROVE  new[f].lru = IF ent[e].valid /\ ent[e].at > ent[f].at
                          THEN ent[f].lru ELSE ent[f].lru + 1
  <2>1. CASE ent[e].valid
    <3>1. ent[e].at # ent[f].at
      BY <1>1, <1>2, <1>8, <2>1 DEF Ranked
    <3>2. ent[e].at > ent[f].at => ent[e].lru < ent[f].lru
      BY <1>1, <1>2, <1>3, <1>8, <2>1, OlderRanks
    <3>3. ent[e].at < ent[f].at => ent[f].lru < ent[e].lru
      BY <1>1, <1>2, <1>3, <1>8, <2>1, OlderRanks
    <3>4. CASE ent[e].at > ent[f].at
      <4>1. Found(l)
        BY <1>1, <1>3, <1>8, <1>11, <2>1, <3>2, <3>4
      <4> QED
        BY <1>1, <1>3, <1>6, <1>7, <1>8, <2>1, <3>2, <3>4, <4>1
    <3>5. CASE ent[e].at < ent[f].at
      BY <1>1, <1>3, <1>6, <1>7, <1>8, <2>1, <3>3, <3>5, Sizes
    <3> QED
      BY <1>1, <1>3, <3>1, <3>4, <3>5
  <2>2. CASE ~ent[e].valid
    <3>1. Threshold(l) = SamplerWays
      BY <1>4, <1>7, <2>2
    <3>2. ent[f].lru < SamplerWays - 1
      <4>1. ent[f].lru = Cardinality(Newer(ent, f))
        BY <1>2, <1>8 DEF Ranked
      <4>2. Newer(ent, f) \subseteq Entries \ {e, f}
        BY <1>3, <2>2 DEF Newer
      <4>3. /\ IsFiniteSet(Entries) /\ Cardinality(Entries) = SamplerWays
        BY Sizes, FS_Interval DEF Entries
      <4>4. IsFiniteSet(Entries \ {e}) /\ Cardinality(Entries \ {e}) = SamplerWays - 1
        BY <1>1, <4>3, SmallerSet
      <4>5. (Entries \ {e}) \ {f} = Entries \ {e, f}
        OBVIOUS
      <4>6. IsFiniteSet(Entries \ {e, f}) /\ Cardinality(Entries \ {e, f}) = Cardinality(Entries \ {e}) - 1
        BY <4>4, <4>5, SmallerSet
      <4>7. Cardinality(Newer(ent, f)) <= Cardinality(Entries \ {e, f})
        BY <4>2, <4>6, FS_Subset
      <4>8. Cardinality(Newer(ent, f)) \in Nat
        BY NewerCounted
      <4> QED
        BY <4>1, <4>4, <4>6, <4>7, <4>8, Sizes
    <3> QED
      BY <1>3, <1>6, <1>8, <2>2, <3>1, <3>2, Sizes
  <2> QED
    BY <2>1, <2>2
<1>9. Ranked(new, calls + 1)
  BY <1>1, <1>2, <1>5, <1>6, <1>8, RankedUse
<1>10. ASSUME NEW c \in Buckets \ {b} PROVE Ranked(sampler'[c], calls + 1)
  <2>1. sampler'[c] = sampler[c] /\ Ranked(sampler[c], calls)
    BY SamplerUsed DEF b
  <2>2. \A f \in Entries : sampler[c][f].at \in Nat
    BY DEF PolicyInv, TypeOK
  <2> QED
    BY <1>1, <2>1, <2>2 DEF Ranked, Newer
<1> QED
  BY <1>9, <1>10 DEF new

-------------------------------------------------------------------------------
\* The history behind the rings: when each line was used, and what was judged.

Clocks ==
    /\ elapsed \in [Sets -> Nat] /\ lastUse \in [Lines -> Int]
    /\ \A s \in Sets : timer[s] = elapsed[s] % TimerSize

\* An entry of a bucket tells the last use of the line that owns it.
Tells(b, x) ==
    x.valid =>
        /\ x.owner \in Lines /\ x.tag = Tag[x.owner] /\ b = Bucket[x.owner]
        /\ lastUse[x.owner] \in Nat /\ lastUse[x.owner] < elapsed[SetOf[x.owner]]
        /\ x.last = lastUse[x.owner] % TimerSize

OneTag(ent) ==
    \A e, f \in Entries : ent[e].valid /\ ent[f].valid /\ ent[e].tag = ent[f].tag => e = f

Past(J) ==
    /\ IsFiniteSet(J)
    /\ \A j \in J : j.set \in Sets /\ j.to \in Nat /\ j.from \in Int /\ j.to < elapsed[j.set]

HistoryInv ==
    /\ Clocks
    /\ \A b \in Buckets : Ranked(sampler[b], calls) /\ OneTag(sampler[b])
    /\ \A b \in Buckets : \A e \in Entries : Tells(b, sampler[b][e])
    /\ Past(judged)
    /\ MeasuredExactly
    /\ OccupancyIsIntervals

\* What an access measures, whether OPTgen accepts it, and what it leaves.
Gap(l) == Distance(timer[SetOf[l]], OldOf(l).last)
Accepted(l) == Found(l) /\ OptHit(SetOf[l], OldOf(l).last, Gap(l))
Interval(l) ==
    [set |-> SetOf[l], to |-> elapsed[SetOf[l]], opt |-> Accepted(l),
     from |-> elapsed[SetOf[l]] - Gap(l), used |-> lastUse[l], own |-> OldOf(l).owner = l]
RingAfter(l) ==
    [q \in 0 .. Quanta - 1 |->
        IF q = timer[SetOf[l]] % Quanta THEN 0
        ELSE IF Accepted(l) /\ q \in Span(OldOf(l).last, Gap(l))
             THEN occupancy[SetOf[l]][q] + 1 ELSE occupancy[SetOf[l]][q]]

LEMMA Lasting ==
    ASSUME PolicyInv, Clocks, NEW p, NEW l \in Lines, NEW sig, NEW pf,
           StateAccess(p, SetOf[l], l, sig, pf), Sampled(SetOf[l])
    PROVE  /\ SetOf[l] \in Sets
           /\ timer'[SetOf[l]] = (timer[SetOf[l]] + 1) % TimerSize
           /\ elapsed'[SetOf[l]] = elapsed[SetOf[l]] + 1
           /\ occupancy'[SetOf[l]] = RingAfter(l)
           /\ lastUse'[l] = elapsed[SetOf[l]]
           /\ \A r \in Sets \ {SetOf[l]} : /\ timer'[r] = timer[r] /\ elapsed'[r] = elapsed[r]
                                           /\ occupancy'[r] = occupancy[r]
           /\ \A k \in Lines \ {l} : lastUse'[k] = lastUse[k]
           /\ elapsed' \in [Sets -> Nat] /\ lastUse' \in [Lines -> Int]
           /\ judged' = IF Found(l) THEN judged \cup {Interval(l)} ELSE judged
<1> DEFINE s == SetOf[l]
<1>1. s \in Sets
  BY HawkeyeAssumption
<1>2. /\ timer \in [Sets -> 0 .. TimerSize - 1]
      /\ occupancy \in [Sets -> [0 .. Quanta - 1 -> 0 .. Capacity]]
      /\ elapsed \in [Sets -> Nat] /\ lastUse \in [Lines -> Int]
  BY DEF PolicyInv, TypeOK, Clocks
<1>3. /\ timer' = [timer EXCEPT ![s] = (timer[s] + 1) % TimerSize]
      /\ elapsed' = [elapsed EXCEPT ![s] = @ + 1]
      /\ lastUse' = [lastUse EXCEPT ![l] = elapsed[s]]
  BY DEF StateAccess
<1>4. occupancy' = [occupancy EXCEPT ![s] = RingAfter(l)]
  BY DEF StateAccess, RingAfter, Accepted, Gap, OldOf, Chosen, Found
<1>5. judged' = IF Found(l) THEN judged \cup {Interval(l)} ELSE judged
  BY DEF StateAccess, Interval, Accepted, Gap, OldOf, Chosen, Found
<1> HIDE DEF s
<1>6. /\ timer'[s] = (timer[s] + 1) % TimerSize /\ elapsed'[s] = elapsed[s] + 1
      /\ occupancy'[s] = RingAfter(l) /\ lastUse'[l] = elapsed[s]
      /\ \A r \in Sets \ {s} : /\ timer'[r] = timer[r] /\ elapsed'[r] = elapsed[r]
                               /\ occupancy'[r] = occupancy[r]
      /\ \A k \in Lines \ {l} : lastUse'[k] = lastUse[k]
  BY <1>1, <1>2, <1>3, <1>4
<1>7. elapsed' \in [Sets -> Nat] /\ lastUse' \in [Lines -> Int]
  <2>1. elapsed[s] \in Nat /\ elapsed[s] \in Int /\ elapsed[s] + 1 \in Nat
    BY <1>1, <1>2
  <2>2. elapsed' = [elapsed EXCEPT ![s] = elapsed[s] + 1]
    BY <1>3
  <2>3. elapsed' \in [Sets -> Nat]
    BY <1>2, <2>1, <2>2
  <2>4. lastUse' \in [Lines -> Int]
    BY <1>2, <1>3, <2>1
  <2> QED
    BY <2>3, <2>4
<1> QED
  BY <1>1, <1>5, <1>6, <1>7 DEF s

LEMMA ClocksKept ==
    ASSUME PolicyInv, Clocks, NEW p, NEW l \in Lines, NEW sig, NEW pf,
           StateAccess(p, SetOf[l], l, sig, pf), Sampled(SetOf[l])
    PROVE  Clocks'
<1> DEFINE s == SetOf[l]
<1>1. /\ s \in Sets /\ timer'[s] = (timer[s] + 1) % TimerSize /\ elapsed'[s] = elapsed[s] + 1
      /\ \A r \in Sets \ {s} : timer'[r] = timer[r] /\ elapsed'[r] = elapsed[r]
      /\ elapsed' \in [Sets -> Nat] /\ lastUse' \in [Lines -> Int]
  BY Lasting
<1>2. timer'[s] = elapsed'[s] % TimerSize
  <2>1. timer[s] = elapsed[s] % TimerSize /\ elapsed[s] \in Nat /\ TimerSize \in Nat \ {0}
    BY <1>1, HawkeyeAssumption DEF Clocks
  <2> QED
    BY <1>1, <2>1, TickOf
<1>3. \A r \in Sets \ {s} : timer'[r] = elapsed'[r] % TimerSize
  BY <1>1 DEF Clocks
<1>4. \A r \in Sets : timer'[r] = elapsed'[r] % TimerSize
  BY <1>2, <1>3
<1> QED
  BY <1>1, <1>4 DEF Clocks

\* Two entries never have one tag, and each tells the last use of its owner: the
\* owner had the tag when it used the entry, and would have used the same one since.
LEMMA EntriesTell ==
    ASSUME PolicyInv, HistoryInv, NEW p, NEW l \in Lines, NEW sig, NEW pf,
           StateAccess(p, SetOf[l], l, sig, pf), Sampled(SetOf[l])
    PROVE  /\ \A b \in Buckets : OneTag(sampler'[b])
           /\ \A b \in Buckets : \A e \in Entries : Tells(b, sampler[b][e])'
<1> DEFINE b == Bucket[l]
           e == Chosen(l)
<1>1. b \in Buckets /\ e \in Entries /\ Tag[l] \in Nat
  BY HawkeyeAssumption, ChosenEntry
<1>2. /\ Found(l) => sampler[b][e].valid /\ sampler[b][e].tag = Tag[l]
      /\ ~Found(l) => \A f \in Entries : sampler[b][f].valid => sampler[b][f].tag # Tag[l]
  BY ChosenEntry DEF OldOf
<1>3. \A c \in Buckets \ {b} : sampler'[c] = sampler[c]
  BY SamplerUsed
<1>4. sampler'[b][e] = Used(l, sig, pf)
  BY SamplerUsed
<1>5. ASSUME NEW f \in Entries \ {e}
      PROVE  /\ sampler'[b][f].valid = sampler[b][f].valid /\ sampler'[b][f].tag = sampler[b][f].tag
             /\ sampler'[b][f].last = sampler[b][f].last /\ sampler'[b][f].owner = sampler[b][f].owner
  <2>1. sampler'[b][f] = Aged(b, e, Threshold(l))[f]
    BY SamplerUsed
  <2> QED
    BY <1>1, <2>1, AgedFields
<1>6. Clocks
  BY DEF HistoryInv
<1>7. /\ SetOf[l] \in Sets /\ lastUse'[l] = elapsed[SetOf[l]]
      /\ elapsed'[SetOf[l]] = elapsed[SetOf[l]] + 1
      /\ \A k \in Lines \ {l} : lastUse'[k] = lastUse[k]
      /\ \A r \in Sets \ {SetOf[l]} : elapsed'[r] = elapsed[r]
  BY <1>6, Lasting
<1>8. \A r \in Sets : elapsed[r] \in Nat /\ elapsed'[r] \in Nat /\ elapsed[r] <= elapsed'[r]
  BY <1>6, <1>7 DEF Clocks
<1> HIDE DEF b, e
<1>9. OneTag(sampler[b])
  BY <1>1 DEF HistoryInv
<1>10. /\ sampler'[b][e].valid /\ sampler'[b][e].tag = Tag[l] /\ sampler'[b][e].owner = l
       /\ sampler'[b][e].last = timer[SetOf[l]]
  BY <1>4 DEF Used
<1>11. \A f \in Entries \ {e} : sampler[b][f].valid => sampler[b][f].tag # Tag[l]
  BY <1>1, <1>2, <1>9 DEF OneTag
<1>12. OneTag(sampler'[b])
  <2> SUFFICES ASSUME NEW f \in Entries, NEW g \in Entries,
                      sampler'[b][f].valid, sampler'[b][g].valid,
                      sampler'[b][f].tag = sampler'[b][g].tag
               PROVE  f = g
    BY DEF OneTag
  <2>1. CASE f = e
    BY <1>5, <1>10, <1>11, <2>1
  <2>2. CASE g = e
    BY <1>5, <1>10, <1>11, <2>2
  <2>3. CASE f # e /\ g # e
    BY <1>5, <1>9, <2>3 DEF OneTag
  <2> QED
    BY <2>1, <2>2, <2>3
<1>13. \A c \in Buckets : OneTag(sampler'[c])
  BY <1>3, <1>12 DEF HistoryInv
<1>14. ASSUME NEW x \in Lines \ {l}, lastUse[x] \in Nat, lastUse[x] < elapsed[SetOf[x]]
       PROVE  lastUse'[x] = lastUse[x] /\ lastUse'[x] < elapsed'[SetOf[x]]
  <2>1. SetOf[x] \in Sets
    BY HawkeyeAssumption
  <2> QED
    BY <1>7, <1>8, <1>14, <2>1
<1>15. ASSUME NEW c \in Buckets, NEW f \in Entries
       PROVE  Tells(c, sampler[c][f])'
  <2>1. CASE c = b /\ f = e
    <3>1. b = Bucket[l] /\ timer[SetOf[l]] = elapsed[SetOf[l]] % TimerSize
      BY <1>6, <1>7 DEF b, Clocks
    <3>2. lastUse'[l] \in Nat /\ lastUse'[l] < elapsed'[SetOf[l]]
      BY <1>7, <1>8
    <3> QED
      BY <1>7, <1>10, <2>1, <3>1, <3>2 DEF Tells
  <2>2. CASE ~(c = b /\ f = e)
    <3>1. /\ sampler'[c][f].valid = sampler[c][f].valid /\ sampler'[c][f].tag = sampler[c][f].tag
          /\ sampler'[c][f].last = sampler[c][f].last /\ sampler'[c][f].owner = sampler[c][f].owner
      <4>1. CASE c = b
        BY <1>5, <2>2, <4>1
      <4>2. CASE c # b
        BY <1>3, <4>2
      <4> QED
        BY <4>1, <4>2
    <3>2. Tells(c, sampler[c][f])
      BY DEF HistoryInv
    <3>3. SUFFICES ASSUME sampler[c][f].valid PROVE Tells(c, sampler[c][f])'
      BY <3>1 DEF Tells
    <3> DEFINE x == sampler[c][f].owner
    <3>4. /\ x \in Lines /\ sampler[c][f].tag = Tag[x] /\ c = Bucket[x]
          /\ lastUse[x] \in Nat /\ lastUse[x] < elapsed[SetOf[x]]
          /\ sampler[c][f].last = lastUse[x] % TimerSize
      BY <3>2, <3>3 DEF Tells
    <3>5. x # l
      BY <1>11, <2>2, <3>3, <3>4 DEF b
    <3>6. PICK y : y = x
      OBVIOUS
    <3>7. lastUse'[y] = lastUse[y] /\ lastUse'[y] < elapsed'[SetOf[y]]
      BY <1>14, <3>4, <3>5, <3>6
    <3>8. sampler'[c][f].owner = y
      BY <3>1, <3>6
    <3> QED
      BY <3>1, <3>4, <3>6, <3>7, <3>8 DEF Tells
  <2> QED
    BY <2>1, <2>2
<1> QED
  BY <1>13, <1>15

\* What an access measures lies within a turn of the timer, behind the present.
LEMMA GapRange ==
    ASSUME PolicyInv, Clocks, NEW l \in Lines
    PROVE  /\ SetOf[l] \in Sets /\ elapsed[SetOf[l]] \in Nat
           /\ OldOf(l).last \in 0 .. TimerSize - 1 /\ Gap(l) \in 0 .. TimerSize - 1
           /\ Gap(l) = Measured(elapsed[SetOf[l]] % TimerSize, OldOf(l).last, TimerSize)
<1> DEFINE s == SetOf[l]
           n == elapsed[s]
           last == OldOf(l).last
<1>1. s \in Sets /\ n \in Nat /\ timer[s] = n % TimerSize /\ Bucket[l] \in Buckets
  BY HawkeyeAssumption DEF Clocks
<1>2. sampler \in [Buckets -> [Entries -> Entry]] /\ Chosen(l) \in Entries
  BY ChosenEntry DEF PolicyInv, TypeOK, Entry
<1>3. last \in 0 .. TimerSize - 1
  <2>1. OldOf(l) \in Entry
    BY <1>1, <1>2 DEF OldOf
  <2> QED
    BY <2>1 DEF Entry
<1>4. Gap(l) = Measured(n % TimerSize, last, TimerSize)
  BY <1>1 DEF Gap, Distance, Measured
<1> DEFINE gap == Gap(l)
<1>5. gap = Measured(n % TimerSize, last, TimerSize) /\ TimerSize \in Nat \ {0}
  BY <1>4, HawkeyeAssumption
<1> HIDE DEF n, last, gap
<1>6. gap \in 0 .. TimerSize - 1
  BY <1>1, <1>3, <1>5, TurnsBack
<1> QED
  BY <1>1, <1>3, <1>4, <1>6 DEF s, n, last, gap

LEMMA PastKept ==
    ASSUME PolicyInv, HistoryInv, NEW p, NEW l \in Lines, NEW sig, NEW pf,
           StateAccess(p, SetOf[l], l, sig, pf), Sampled(SetOf[l])
    PROVE  Past(judged)' /\ MeasuredExactly'
<1> DEFINE s == SetOf[l]
           n == elapsed[s]
           new == Interval(l)
<1>1. Clocks /\ Past(judged) /\ MeasuredExactly
  BY DEF HistoryInv
<1>2. /\ s \in Sets /\ elapsed'[s] = n + 1
      /\ \A r \in Sets \ {s} : elapsed'[r] = elapsed[r]
      /\ judged' = IF Found(l) THEN judged \cup {new} ELSE judged
  BY <1>1, Lasting
<1>3. n \in Nat /\ Gap(l) \in Int /\ n - Gap(l) \in Int
  BY <1>1, GapRange, Sizes
<1>4. /\ new.set = s /\ new.to = n /\ new.from = n - Gap(l) /\ new.used = lastUse[l]
      /\ new.own <=> OldOf(l).owner = l
  BY DEF Interval
<1>5. \A j \in judged : j.set \in Sets /\ j.to \in Nat /\ j.from \in Int /\ j.to < elapsed'[j.set]
  <2> SUFFICES ASSUME NEW j \in judged
               PROVE  j.set \in Sets /\ j.to \in Nat /\ j.from \in Int /\ j.to < elapsed'[j.set]
    OBVIOUS
  <2>1. j.set \in Sets /\ j.to \in Nat /\ j.from \in Int /\ j.to < elapsed[j.set]
    BY <1>1 DEF Past
  <2>2. elapsed[j.set] \in Nat /\ (elapsed'[j.set] = elapsed[j.set] \/ elapsed'[j.set] = elapsed[j.set] + 1)
    BY <1>1, <1>2, <2>1 DEF Clocks
  <2> QED
    BY <2>1, <2>2
<1>6. new.set \in Sets /\ new.to \in Nat /\ new.from \in Int /\ new.to < elapsed'[new.set]
  BY <1>2, <1>3, <1>4
<1>7. IsFiniteSet(judged')
  <2>1. IsFiniteSet(judged)
    BY <1>1 DEF Past
  <2>2. IsFiniteSet(judged \cup {new})
    BY <2>1, FS_AddElement
  <2> QED
    BY <1>2, <2>1, <2>2
<1>8. Past(judged)'
  <2>1. \A j \in judged' : j.set \in Sets /\ j.to \in Nat /\ j.from \in Int /\ j.to < elapsed'[j.set]
    BY <1>2, <1>5, <1>6
  <2> QED
    BY <1>7, <2>1 DEF Past
<1>9. Found(l) => (new.own /\ new.to - new.used < TimerSize => new.from = new.used)
  <2> SUFFICES ASSUME Found(l), OldOf(l).owner = l, n - lastUse[l] < TimerSize
               PROVE  n - Gap(l) = lastUse[l]
    BY <1>4
  <2>1. Bucket[l] \in Buckets /\ Chosen(l) \in Entries /\ OldOf(l).valid
    BY HawkeyeAssumption, ChosenEntry
  <2>2. Tells(Bucket[l], OldOf(l))
    BY <2>1 DEF HistoryInv, OldOf
  <2>3. lastUse[l] \in Nat /\ lastUse[l] < n /\ OldOf(l).last = lastUse[l] % TimerSize
    BY <2>1, <2>2 DEF Tells
  <2>4. Gap(l) = Measured(n % TimerSize, lastUse[l] % TimerSize, TimerSize)
    BY <1>1, <2>3, GapRange
  <2>5. PICK a : a = n
    OBVIOUS
  <2>6. PICK u : u = lastUse[l]
    OBVIOUS
  <2>7. a \in Int /\ u \in Int /\ a - u \in 0 .. TimerSize - 1 /\ TimerSize \in Nat \ {0}
    BY <1>3, <2>3, <2>5, <2>6, HawkeyeAssumption
  <2>8. Measured(a % TimerSize, u % TimerSize, TimerSize) = a - u
    BY <2>7, TurnMeasured
  <2>9. Gap(l) = a - u
    BY <2>4, <2>5, <2>6, <2>8
  <2> QED
    BY <2>5, <2>6, <2>7, <2>9
<1>10. MeasuredExactly'
  <2>1. \A j \in judged : j.own /\ j.to - j.used < TimerSize => j.from = j.used
    BY <1>1 DEF MeasuredExactly
  <2>2. \A j \in judged' : j.own /\ j.to - j.used < TimerSize => j.from = j.used
    BY <1>2, <1>9, <2>1
  <2> QED
    BY <2>2 DEF MeasuredExactly
<1> QED
  BY <1>8, <1>10

\* In the window of the ring, the quanta of the interval are those of the calls it covers.
LEMMA SpanCovers ==
    ASSUME NEW n \in Nat, NEW last \in 0 .. TimerSize - 1, NEW gap, gap \in Nat,
           gap = Measured(n % TimerSize, last, TimerSize), gap < Quanta,
           NEW t \in Int, n - Quanta < t, t < n
    PROVE  t % Quanta \in Span(last, gap) <=> n - gap <= t
<1>1. TimerSize \in Nat \ {0} /\ Quanta \in Nat \ {0} /\ Fits(Quanta, TimerSize)
  BY HawkeyeAssumption DEF Fits
<1>2. \A i \in Int : (last + i) % Quanta = ((n - gap) + i) % Quanta
  BY <1>1, MeasuredBack
<1>3. Span(last, gap) = {(last + i) % Quanta : i \in 0 .. gap - 1}
  BY DEF Span
<1>4. ASSUME n - gap <= t PROVE t % Quanta \in Span(last, gap)
  <2> DEFINE i == t - (n - gap)
  <2>1. i \in 0 .. gap - 1 /\ i \in Int /\ (n - gap) + i = t
    BY <1>4
  <2> HIDE DEF i
  <2>2. (last + i) % Quanta = t % Quanta
    BY <1>2, <2>1
  <2> QED
    BY <1>3, <2>1, <2>2
<1>5. ASSUME t % Quanta \in Span(last, gap) PROVE n - gap <= t
  <2>1. PICK i \in 0 .. gap - 1 : t % Quanta = (last + i) % Quanta
    BY <1>3, <1>5
  <2> DEFINE u == (n - gap) + i
  <2>2. i \in Int /\ t % Quanta = u % Quanta
    BY <1>2, <2>1
  <2>3. u \in Int /\ n - gap <= u /\ u < n
    BY <2>1
  <2> HIDE DEF u
  <2>4. ~ (t < u)
    <3> SUFFICES ASSUME t < u PROVE FALSE
      OBVIOUS
    <3>1. 0 < u - t /\ u - t < Quanta
      BY <1>1, <2>3
    <3>2. u % Quanta # t % Quanta
      BY <1>1, <2>3, <3>1, OtherRemainder
    <3> QED
      BY <2>2, <3>2
  <2> QED
    BY <2>3, <2>4
<1> QED
  BY <1>4, <1>5

LEMMA WrappedPlace ==
    ASSUME NEW n \in Nat \ {0}, NEW q \in Nat \ {0}, Fits(q, n), NEW a \in Int
    PROVE  (a % n) % q = a % q
<1>1. PICK w : w = a \div n
  OBVIOUS
<1>2. PICK m : m = a % n
  OBVIOUS
<1>3. w \in Int /\ m \in 0 .. n - 1 /\ a = n * w + m
  BY <1>1, <1>2, Division
<1>4. w \in Int /\ m \in Int
  BY <1>3
<1>5. Turns(a, m, n, w)
  BY <1>3, <1>4 DEF Turns
<1>6. \A b, c, k \in Int : Turns(b, c, n, k) => b % q = c % q
  BY WrappedAlike
<1>7. a % q = m % q
  BY <1>4, <1>5, <1>6
<1> QED
  BY <1>2, <1>7

\* The accepted intervals of a set over a call.
Over(J, s, t) == {j \in J : j.set = s /\ j.opt /\ Covers(j, t)}

LEMMA RingKept ==
    ASSUME PolicyInv, HistoryInv, NEW p, NEW l \in Lines, NEW sig, NEW pf,
           StateAccess(p, SetOf[l], l, sig, pf), Sampled(SetOf[l])
    PROVE  OccupancyIsIntervals'
<1> DEFINE s == SetOf[l]
           n == elapsed[s]
           new == Interval(l)
           last == OldOf(l).last
           gap == Gap(l)
<1>1. Clocks /\ Past(judged) /\ OccupancyIsIntervals
  BY DEF HistoryInv
<1>2. /\ s \in Sets /\ elapsed'[s] = n + 1 /\ occupancy'[s] = RingAfter(l)
      /\ \A r \in Sets \ {s} : elapsed'[r] = elapsed[r] /\ occupancy'[r] = occupancy[r]
      /\ judged' = IF Found(l) THEN judged \cup {new} ELSE judged
  BY <1>1, Lasting
<1>3. /\ n \in Nat /\ last \in 0 .. TimerSize - 1 /\ gap \in 0 .. TimerSize - 1
      /\ gap = Measured(n % TimerSize, last, TimerSize)
  BY <1>1, GapRange
<1>4. /\ new.set = s /\ new.to = n /\ new.from = n - gap
      /\ new.opt <=> Accepted(l)
  BY DEF Interval
<1>5. \A r \in Sets : \A t \in elapsed[r] - Quanta .. elapsed[r] - 1 :
          occupancy[r][t % Quanta] = Cardinality(Over(judged, r, t))
  BY <1>1 DEF OccupancyIsIntervals, Over
<1>6. timer[s] % Quanta = n % Quanta
  <2>1. TimerSize \in Nat \ {0} /\ Quanta \in Nat \ {0} /\ Fits(Quanta, TimerSize)
    BY HawkeyeAssumption DEF Fits
  <2>2. timer[s] = n % TimerSize
    BY <1>1, <1>2 DEF Clocks
  <2>3. \A a \in Int : (a % TimerSize) % Quanta = a % Quanta
    BY <2>1, WrappedPlace
  <2>4. n \in Int
    BY <1>3
  <2> QED
    BY <2>2, <2>3, <2>4
<1>7. Accepted(l) => Found(l) /\ gap < Quanta
  BY DEF Accepted, OptHit
<1>8. Quanta \in Nat \ {0}
  BY HawkeyeAssumption
<1>9. ASSUME NEW t \in n + 1 - Quanta .. n PROVE RingAfter(l)[t % Quanta] = Cardinality(Over(judged', s, t))
  <2>1. t \in Int /\ t % Quanta \in 0 .. Quanta - 1
    <3>1. t \in Int
      BY <1>3, <1>8
    <3> HIDE DEF n, s, new, last, gap
    <3> QED
      BY <1>8, <3>1, Division
  <2>2. RingAfter(l)[t % Quanta] =
            IF t % Quanta = n % Quanta THEN 0
            ELSE IF Accepted(l) /\ t % Quanta \in Span(last, gap)
                 THEN occupancy[s][t % Quanta] + 1 ELSE occupancy[s][t % Quanta]
    BY <1>6, <2>1 DEF RingAfter
  <2> HIDE DEF n, s, new, last, gap
  <2>3. CASE t = n
    <3>1. \A j \in judged' : j.set = s => ~ (n < j.to)
      <4>1. \A j \in judged : j.set = s => ~ (n < j.to)
        BY <1>1, <1>3 DEF Past, n
      <4> QED
        BY <1>2, <1>3, <1>4, <4>1
    <3>2. Over(judged', s, t) = {}
      BY <2>3, <3>1 DEF Over, Covers
    <3> QED
      BY <2>2, <2>3, <3>2, FS_EmptySet
  <2>4. CASE t # n
    <3>1. t < n /\ n - Quanta < t /\ t \in n - Quanta .. n - 1
      BY <1>3, <1>8, <2>1, <2>4
    <3>2. t % Quanta # n % Quanta
      <4>1. n \in Int /\ 0 < n - t /\ n - t < Quanta
        BY <1>3, <1>8, <2>1, <3>1
      <4> QED
        BY <1>8, <2>1, <4>1, OtherRemainder
    <3>3. occupancy[s][t % Quanta] = Cardinality(Over(judged, s, t))
      BY <1>2, <1>5, <3>1 DEF n
    <3>4. IsFiniteSet(Over(judged, s, t))
      <4>1. Over(judged, s, t) \subseteq judged /\ IsFiniteSet(judged)
        BY <1>1 DEF Over, Past
      <4> QED
        BY <4>1, FS_Subset
    <3>5. CASE Accepted(l) /\ n - gap <= t
      <4>1. t % Quanta \in Span(last, gap)
        BY <1>3, <1>7, <2>1, <3>1, <3>5, SpanCovers
      <4>2. Over(judged', s, t) = Over(judged, s, t) \cup {new}
        BY <1>2, <1>3, <1>4, <1>7, <3>1, <3>5 DEF Over, Covers
      <4>3. new \notin Over(judged, s, t)
        <5>1. \A j \in judged : j.set = s => j.to # n
          BY <1>1, <1>3 DEF Past, n
        <5> QED
          BY <1>4, <5>1 DEF Over
      <4>4. Cardinality(Over(judged', s, t)) = Cardinality(Over(judged, s, t)) + 1
        BY <3>4, <4>2, <4>3, FS_AddElement
      <4> QED
        BY <2>2, <3>2, <3>3, <3>5, <4>1, <4>4
    <3>6. CASE ~(Accepted(l) /\ n - gap <= t)
      <4>1. ~(Accepted(l) /\ t % Quanta \in Span(last, gap))
        BY <1>3, <1>7, <2>1, <3>1, <3>6, SpanCovers
      <4>2. Over(judged', s, t) = Over(judged, s, t)
        BY <1>2, <1>3, <1>4, <3>6 DEF Over, Covers
      <4> QED
        BY <2>2, <3>2, <3>3, <4>1, <4>2
    <3> QED
      BY <3>5, <3>6
  <2> QED
    BY <2>3, <2>4
<1>10. ASSUME NEW r \in Sets, NEW t \in elapsed'[r] - Quanta .. elapsed'[r] - 1
       PROVE  occupancy'[r][t % Quanta] = Cardinality(Over(judged', r, t))
  <2>1. CASE r = s
    <3>1. t \in n + 1 - Quanta .. n
      BY <1>2, <1>3, <1>8, <2>1
    <3> QED
      BY <1>2, <1>9, <2>1, <3>1
  <2>2. CASE r # s
    <3>1. Over(judged', r, t) = Over(judged, r, t)
      BY <1>2, <1>4, <2>2 DEF Over
    <3> QED
      BY <1>2, <1>5, <2>2, <3>1
  <2> QED
    BY <2>1, <2>2
<1> QED
  BY <1>10 DEF OccupancyIsIntervals, Over, Covers

-------------------------------------------------------------------------------
\* The history invariant.

LEMMA HistoryInit == Init => HistoryInv
<1> SUFFICES ASSUME Init PROVE HistoryInv
  OBVIOUS
<1>1. 0 % TimerSize = 0
  <2>1. TimerSize \in Nat \ {0}
    BY HawkeyeAssumption
  <2>2. 0 \in 0 .. TimerSize - 1 /\ 0 = TimerSize * 0 + 0
    BY <2>1, SMT
  <2> QED
    BY <2>1, <2>2, RemainderIs
<1>2. Clocks
  <2>1. 0 \in Nat /\ -1 \in Int
    OBVIOUS
  <2> QED
    BY <1>1, <2>1 DEF Init, Clocks
<1>3. \A b \in Buckets : \A e \in Entries : ~sampler[b][e].valid
  BY DEF Init
<1>4. /\ \A b \in Buckets : Ranked(sampler[b], calls) /\ OneTag(sampler[b])
      /\ \A b \in Buckets : \A e \in Entries : Tells(b, sampler[b][e])
  BY <1>3 DEF Ranked, OneTag, Tells
<1>5. Past(judged) /\ MeasuredExactly
  BY FS_EmptySet DEF Init, Past, MeasuredExactly
<1>6. OccupancyIsIntervals
  <2> SUFFICES ASSUME NEW s \in Sets, NEW t \in elapsed[s] - Quanta .. elapsed[s] - 1
               PROVE  occupancy[s][t % Quanta] =
                          Cardinality({j \in judged : j.set = s /\ j.opt /\ Covers(j, t)})
    BY DEF OccupancyIsIntervals
  <2>1. t \in Int /\ Quanta \in Nat \ {0}
    BY HawkeyeAssumption DEF Init
  <2>2. t % Quanta \in 0 .. Quanta - 1
    BY <2>1, Division
  <2>3. occupancy[s][t % Quanta] = 0
    BY <2>2 DEF Init
  <2>4. {j \in judged : j.set = s /\ j.opt /\ Covers(j, t)} = {}
    BY DEF Init
  <2> QED
    BY <2>3, <2>4, FS_EmptySet
<1> QED
  BY <1>2, <1>4, <1>5, <1>6 DEF HistoryInv

\* A call is an access of the state, by the line it is about.
LEMMA AccessKeepsHistory ==
    ASSUME PolicyInv, HistoryInv, NEW p, NEW l \in Lines, NEW sig, NEW pf,
           StateAccess(p, SetOf[l], l, sig, pf), calls' = calls + 1
    PROVE  HistoryInv'
<1>1. CASE Sampled(SetOf[l])
  <2>1. Clocks'
    BY <1>1, ClocksKept DEF HistoryInv
  <2>2. \A b \in Buckets : Ranked(sampler'[b], calls')
    <3>1. \A b \in Buckets : Ranked(sampler'[b], calls + 1)
      BY <1>1, RanksKept DEF HistoryInv
    <3> QED
      BY <3>1
  <2>3. /\ \A b \in Buckets : OneTag(sampler'[b])
        /\ \A b \in Buckets : \A e \in Entries : Tells(b, sampler[b][e])'
    BY <1>1, EntriesTell
  <2>4. Past(judged)' /\ MeasuredExactly'
    BY <1>1, PastKept
  <2>5. OccupancyIsIntervals'
    BY <1>1, RingKept
  <2> QED
    BY <2>1, <2>2, <2>3, <2>4, <2>5 DEF HistoryInv
<1>2. CASE ~Sampled(SetOf[l])
  <2>1. UNCHANGED <<timer, occupancy, sampler, elapsed, lastUse, judged>>
    BY <1>2 DEF StateAccess
  <2>2. \A b \in Buckets : Ranked(sampler'[b], calls')
    <3>1. calls \in Nat /\ calls' = calls + 1 /\ sampler' = sampler
      BY <2>1 DEF PolicyInv
    <3>2. ASSUME NEW b \in Buckets PROVE Ranked(sampler[b], calls')
      <4>1. Ranked(sampler[b], calls) /\ \A e \in Entries : sampler[b][e].at \in Nat
        BY DEF HistoryInv, PolicyInv, TypeOK
      <4> QED
        BY <3>1, <4>1 DEF Ranked
    <3> QED
      BY <3>1, <3>2
  <2>3. /\ Clocks' /\ Past(judged)' /\ MeasuredExactly'
        /\ \A b \in Buckets : OneTag(sampler'[b])
    BY <2>1 DEF HistoryInv, Clocks, Past, MeasuredExactly, OneTag
  <2>4. \A b \in Buckets : \A e \in Entries : Tells(b, sampler[b][e])'
    BY <2>1 DEF HistoryInv, Tells
  <2>5. OccupancyIsIntervals'
    BY <2>1 DEF HistoryInv, OccupancyIsIntervals, Covers
  <2> QED
    BY <2>2, <2>3, <2>4, <2>5 DEF HistoryInv
<1> QED
  BY <1>1, <1>2

LEMMA HistoryStep ==
    ASSUME PolicyInv, HistoryInv, [Next]_vars
    PROVE  HistoryInv'
<1>1. CASE UNCHANGED vars
  <2>1. UNCHANGED <<timer, occupancy, sampler, calls, elapsed, lastUse, judged>>
    BY <1>1 DEF vars
  <2>2. /\ Clocks' /\ Past(judged)' /\ MeasuredExactly' /\ OccupancyIsIntervals'
        /\ \A b \in Buckets : Ranked(sampler'[b], calls') /\ OneTag(sampler'[b])
    BY <2>1 DEF HistoryInv, Clocks, Past, MeasuredExactly, OccupancyIsIntervals, Covers,
                Ranked, Newer, OneTag
  <2>3. \A b \in Buckets : \A e \in Entries : Tells(b, sampler[b][e])'
    BY <2>1 DEF HistoryInv, Tells
  <2> QED
    BY <2>2, <2>3 DEF HistoryInv
<1>2. ASSUME NEW a \in Accesses, Hit(a[1], a[2], a[3]) \/ Insert(a[1], a[2], a[3])
      PROVE  HistoryInv'
  <2>1. a[1] \in Lines
    BY HawkeyeAssumption
  <2>2. \E p : StateAccess(p, SetOf[a[1]], a[1], a[2], a[3]) /\ calls' = calls + 1
    BY <1>2 DEF Hit, Insert
  <2>3. PICK p : StateAccess(p, SetOf[a[1]], a[1], a[2], a[3])
    BY <2>2
  <2>4. calls' = calls + 1
    BY <2>2
  <2> QED
    BY <2>1, <2>3, <2>4, AccessKeepsHistory
<1> QED
  BY <1>1, <1>2 DEF Next

\* The clocks, the entries and the rings tell the history of their sets, whatever
\* the sequence of hits and fills: what the three theorems below follow from.
THEOREM HistoryInvariance == Spec => [](PolicyInv /\ HistoryInv)
<1>1. Init => PolicyInv /\ HistoryInv
  BY PolicyInit, HistoryInit
<1>2. PolicyInv /\ HistoryInv /\ [Next]_vars => (PolicyInv /\ HistoryInv)'
  BY PolicyStep, HistoryStep
<1> QED
  BY <1>1, <1>2, PTL DEF Spec

\* The ring of OPTgen counts, at each of the last Quanta calls, the intervals it
\* accepted over that call (Optgen::addInterval, Optgen::advance), for every number
\* of sets, ring and timer and every sequence of calls.
THEOREM OccupancyHolds == Spec => []OccupancyIsIntervals
<1>1. HistoryInv => OccupancyIsIntervals
  BY DEF HistoryInv
<1> QED
  BY <1>1, HistoryInvariance, PTL

\* A reuse within a turn of the timer is measured at its true distance, across the
\* wrap of the timer (State::access).
THEOREM MeasureHolds == Spec => []MeasuredExactly
<1>1. HistoryInv => MeasuredExactly
  BY DEF HistoryInv
<1> QED
  BY <1>1, HistoryInvariance, PTL

\* The LRU values of a bucket of the sampler are the ranks of its entries by their
\* last use (ageHistory), for every number of entries of a bucket.
THEOREM RecencyHolds == Spec => []LruIsRecency
<1>1. HistoryInv => LruIsRecency
  BY DEF HistoryInv, Ranked, Newer, LruIsRecency
<1> QED
  BY <1>1, HistoryInvariance, PTL
-------------------------------------------------------------------------------
\* Choosing intervals in the order in which they end, each that still fits: no
\* choice within the capacity has more of them.

Meeting(K, t) == {k \in K : Covers(k, t)}
Within(K, cap) == \A t \in Int : Cardinality(Meeting(K, t)) <= cap

\* Intervals of one set: none starts before call b, and they end at different
\* calls, before call n.
Timed(J, b, n) ==
    /\ IsFiniteSet(J)
    /\ \A j \in J : j.from \in Int /\ b <= j.from /\ j.to \in Nat /\ j.to < n
    /\ \A j, k \in J : j.to = k.to => j = k

Before(A, j, t) == {k \in A : k.to < j.to /\ Covers(k, t)}

\* A has the intervals of J that fit with those of A that end earlier.
Greedy(A, J, cap) ==
    \A j \in J : j \in A <=> \A t \in j.from .. j.to - 1 : Cardinality(Before(A, j, t)) < cap

Agreed(K, A, m) == \A j \in K \cup A : j.to < m => (j \in K <=> j \in A)

LEMMA SubsetCounted ==
    ASSUME NEW S, NEW T, IsFiniteSet(S), T \subseteq S
    PROVE  /\ IsFiniteSet(T) /\ Cardinality(T) \in Nat /\ Cardinality(S) \in Nat
           /\ Cardinality(T) <= Cardinality(S)
BY FS_Subset, FS_CardinalityType

\* Swapping one member of a set for another does not change its size.
LEMMA Swapped ==
    ASSUME NEW S, IsFiniteSet(S), NEW r \in S, NEW j, j \notin S
    PROVE  /\ IsFiniteSet((S \ {r}) \cup {j})
           /\ Cardinality((S \ {r}) \cup {j}) = Cardinality(S)
<1>1. IsFiniteSet(S \ {r}) /\ Cardinality(S \ {r}) = Cardinality(S) - 1 /\ Cardinality(S) \in Nat
  BY FS_RemoveElement, FS_CardinalityType
<1>2. j \notin S \ {r}
  OBVIOUS
<1>3. /\ IsFiniteSet((S \ {r}) \cup {j})
      /\ Cardinality((S \ {r}) \cup {j}) = Cardinality(S \ {r}) + 1
  BY <1>1, <1>2, FS_AddElement
<1> QED
  BY <1>1, <1>3

\* Among intervals one starts first.
LEMMA LeastStart ==
    ASSUME NEW R, R # {}, NEW b \in Int, \A r \in R : r.from \in Int /\ b <= r.from
    PROVE  \E r \in R : \A k \in R : r.from <= k.from
<1> DEFINE D == {r.from - b : r \in R}
<1>1. D \in SUBSET Nat /\ D # {}
  OBVIOUS
<1>2. PICK d \in D : \A x \in D : d <= x
  BY <1>1, LeastNatural
<1>3. PICK r \in R : d = r.from - b
  BY <1>2
<1>4. ASSUME NEW k \in R PROVE r.from <= k.from
  <2>1. d <= k.from - b
    BY <1>2
  <2> QED
    BY <1>3, <2>1
<1> QED
  BY <1>4

\* One step of the exchange: the interval that ends at m is taken as A takes it.
LEMMA Exchange ==
    ASSUME NEW J, NEW b \in Int, NEW n, Timed(J, b, n), NEW cap \in Nat, NEW A \in SUBSET J, Greedy(A, J, cap),
           NEW K \in SUBSET J, Within(K, cap), NEW m \in Nat, Agreed(K, A, m)
    PROVE  \E L \in SUBSET J : /\ Within(L, cap) /\ Agreed(L, A, m + 1)
                               /\ Cardinality(K) <= Cardinality(L)
<1>1. /\ \A j \in J : j.from \in Int /\ b <= j.from /\ j.to \in Nat
      /\ \A j, k \in J : j.to = k.to => j = k
      /\ IsFiniteSet(J)
  BY DEF Timed
<1>2. \A S \in SUBSET J : IsFiniteSet(S) /\ Cardinality(S) \in Nat
  BY <1>1, FS_Subset, FS_CardinalityType
<1>3. \A S \in SUBSET J : \A t \in Int : Meeting(S, t) \in SUBSET J
  BY DEF Meeting
<1>4. ASSUME \A j \in J : j.to = m => (j \in K <=> j \in A)
      PROVE  Agreed(K, A, m + 1)
  <2> SUFFICES ASSUME NEW j \in K \cup A, j.to < m + 1 PROVE j \in K <=> j \in A
    BY DEF Agreed
  <2>1. j \in J /\ j.to \in Nat
    BY <1>1
  <2>2. CASE j.to = m
    BY <1>4, <2>1, <2>2
  <2>3. CASE j.to < m
    BY <2>3 DEF Agreed
  <2> QED
    BY <2>1, <2>2, <2>3
<1>5. CASE \A j \in J : j.to = m => (j \in K <=> j \in A)
  BY <1>2, <1>4, <1>5
<1>6. ASSUME NEW j \in J, j.to = m, ~ (j \in K <=> j \in A)
      PROVE  \E L \in SUBSET J : /\ Within(L, cap) /\ Agreed(L, A, m + 1)
                                 /\ Cardinality(K) <= Cardinality(L)
  <2>1. \A k \in J : k.to < m => (k \in K <=> k \in A)
    BY DEF Agreed
  <2>2. \A t \in Int : Before(A, j, t) = Before(K, j, t)
    BY <1>6, <2>1 DEF Before
  <2>3. \A t \in Int : Before(A, j, t) \in SUBSET J /\ Before(A, j, t) \subseteq Meeting(K, t)
    BY <2>2 DEF Before, Meeting
  \* An interval A refuses does not fit where A agrees: K cannot have it.
  <2>4. j \in A
    <3> SUFFICES ASSUME j \notin A PROVE FALSE
      OBVIOUS
    <3>1. PICK t \in j.from .. j.to - 1 : ~ (Cardinality(Before(A, j, t)) < cap)
      BY DEF Greedy
    <3>2. t \in Int /\ Covers(j, t) /\ j \in K
      BY <1>1, <1>6, <3>1 DEF Covers
    <3>3. j \notin Before(A, j, t)
      BY <1>1 DEF Before
    <3>4. Before(A, j, t) \cup {j} \subseteq Meeting(K, t)
      BY <2>3, <3>2 DEF Meeting
    <3>5. Cardinality(Before(A, j, t) \cup {j}) = Cardinality(Before(A, j, t)) + 1
      BY <1>2, <2>3, <3>2, <3>3, FS_AddElement
    <3>6. Cardinality(Before(A, j, t) \cup {j}) <= Cardinality(Meeting(K, t))
      BY <1>2, <1>3, <3>2, <3>4, SubsetCounted
    <3>7. Cardinality(Meeting(K, t)) <= cap
      BY <3>2 DEF Within
    <3> QED
      BY <1>2, <1>3, <2>3, <3>1, <3>2, <3>5, <3>6, <3>7
  <2>5. j \notin K /\ j.from \in Int
    BY <1>1, <1>6, <2>4
  <2>6. ASSUME NEW t \in Int, Covers(j, t)
        PROVE  Cardinality(Before(A, j, t) \cup {j}) <= cap
    <3>1. t \in j.from .. j.to - 1
      BY <1>1, <2>6 DEF Covers
    <3>2. Cardinality(Before(A, j, t)) < cap
      BY <2>4, <3>1 DEF Greedy
    <3>3. IsFiniteSet(Before(A, j, t)) /\ Cardinality(Before(A, j, t)) \in Nat
      BY <1>2, <2>3
    <3>4. j \notin Before(A, j, t)
      BY <1>1 DEF Before
    <3>5. Cardinality(Before(A, j, t) \cup {j}) = Cardinality(Before(A, j, t)) + 1
      BY <3>3, <3>4, FS_AddElement
    <3> QED
      BY <3>2, <3>3, <3>5
  \* The intervals of K in the way of j: they end later and start before it ends.
  <2> DEFINE R == {k \in K : k.to > m /\ k.from < m}
  <2>7. CASE R = {}
    <3> DEFINE L == K \cup {j}
    <3>1. L \in SUBSET J
      OBVIOUS
    <3>2. ASSUME NEW t \in Int PROVE Cardinality(Meeting(L, t)) <= cap
      <4>1. CASE ~ Covers(j, t)
        <5>1. Meeting(L, t) = Meeting(K, t)
          BY <4>1 DEF Meeting
        <5> QED
          BY <5>1 DEF Within
      <4>2. CASE Covers(j, t)
        <5>1. ASSUME NEW k \in K, Covers(k, t) PROVE k.to < m
          <6>1. k \in J /\ k.to \in Nat /\ k.from \in Int /\ k.to # m
            BY <1>1, <1>6, <2>5
          <6> QED
            BY <1>6, <2>5, <2>7, <4>2, <5>1, <6>1 DEF Covers
        <5>2. Meeting(L, t) = Before(A, j, t) \cup {j}
          BY <1>6, <2>2, <4>2, <5>1 DEF Meeting, Before
        <5> QED
          BY <2>6, <4>2, <5>2
      <4> QED
        BY <4>1, <4>2
    <3>3. \A k \in L \cup A : k.to < m + 1 => (k \in L <=> k \in A)
      <4> SUFFICES ASSUME NEW k \in L \cup A, k.to < m + 1 PROVE k \in L <=> k \in A
        OBVIOUS
      <4>1. k \in J /\ k.to \in Nat /\ (k.to = m => k = j)
        BY <1>1, <1>6
      <4> QED
        BY <2>1, <2>4, <4>1
    <3>4. Cardinality(K) <= Cardinality(L)
      BY <1>2, <3>1, SubsetCounted
    <3> QED
      BY <3>1, <3>2, <3>3, <3>4 DEF Within, Agreed
  <2>8. CASE R # {}
    <3>1. \A k \in R : k.from \in Int /\ b <= k.from
      BY <1>1
    <3>2. PICK r \in R : \A k \in R : r.from <= k.from
      <4> HIDE DEF R
      <4> QED
        BY <2>8, <3>1, LeastStart
    <3>3. r \in K /\ r \in J /\ r.to > m /\ r.from < m /\ r # j
      BY <2>5, <3>2
    <3> DEFINE L == (K \ {r}) \cup {j}
    <3>4. L \in SUBSET J
      OBVIOUS
    <3>5. ASSUME NEW t \in Int PROVE Cardinality(Meeting(L, t)) <= cap
      <4>1. IsFiniteSet(Meeting(K, t)) /\ Cardinality(Meeting(K, t)) <= cap
        BY <1>2, <1>3 DEF Within
      <4>2. CASE ~ Covers(j, t)
        <5>1. Meeting(L, t) \subseteq Meeting(K, t)
          BY <4>2 DEF Meeting
        <5>2. /\ Cardinality(Meeting(L, t)) \in Nat /\ Cardinality(Meeting(K, t)) \in Nat
              /\ Cardinality(Meeting(L, t)) <= Cardinality(Meeting(K, t))
          BY <4>1, <5>1, SubsetCounted
        <5> QED
          BY <4>1, <5>2
      <4>3. CASE Covers(j, t) /\ Covers(r, t)
        <5>1. Meeting(L, t) = (Meeting(K, t) \ {r}) \cup {j}
          BY <4>3 DEF Meeting
        <5>2. r \in Meeting(K, t) /\ j \notin Meeting(K, t)
          BY <2>5, <3>3, <4>3 DEF Meeting
        <5>3. Cardinality(Meeting(L, t)) = Cardinality(Meeting(K, t))
          <6>1. PICK M : M = Meeting(K, t)
            OBVIOUS
          <6>2. Cardinality((M \ {r}) \cup {j}) = Cardinality(M)
            BY <4>1, <5>2, <6>1, Swapped
          <6> HIDE DEF L
          <6> QED
            BY <5>1, <6>1, <6>2
        <5> QED
          BY <4>1, <5>3
      <4>4. CASE Covers(j, t) /\ ~ Covers(r, t)
        <5>1. t < m /\ t < r.from
          BY <1>1, <1>6, <3>3, <4>4 DEF Covers
        <5>2. ASSUME NEW k \in K, Covers(k, t) PROVE k.to < m
          <6>1. k \in J /\ k.to \in Nat /\ k.from \in Int /\ k.to # m
            BY <1>1, <1>6, <2>5
          <6>2. k.from <= t
            BY <5>2 DEF Covers
          <6>3. r.from \in Int
            BY <1>1, <3>3
          <6>4. k \notin R
            BY <3>2, <5>1, <6>1, <6>2, <6>3
          <6> QED
            BY <5>1, <6>1, <6>2, <6>4
        <5>3. Meeting(L, t) = Before(A, j, t) \cup {j}
          <6>1. ASSUME NEW k \in Meeting(L, t) PROVE k \in Before(A, j, t) \cup {j}
            BY <1>6, <2>2, <5>2, <6>1 DEF Meeting, Before
          <6>2. ASSUME NEW k \in Before(A, j, t) PROVE k \in Meeting(L, t)
            <7>1. k \in K /\ k.to < m /\ Covers(k, t)
              BY <1>6, <2>2, <6>2 DEF Before
            <7>2. k # r
              BY <4>4, <7>1
            <7> QED
              BY <7>1, <7>2 DEF Meeting
          <6>3. j \in Meeting(L, t)
            BY <4>4 DEF Meeting
          <6> HIDE DEF L
          <6> QED
            BY <6>1, <6>2, <6>3
        <5> QED
          BY <2>6, <4>4, <5>3
      <4> QED
        BY <4>2, <4>3, <4>4
    <3>6. \A k \in L \cup A : k.to < m + 1 => (k \in L <=> k \in A)
      <4> SUFFICES ASSUME NEW k \in L \cup A, k.to < m + 1 PROVE k \in L <=> k \in A
        OBVIOUS
      <4>1. k \in J /\ k.to \in Nat /\ (k.to = m => k = j) /\ r.to \in Nat
        BY <1>1, <1>6, <3>3
      <4>2. k # r
        BY <3>3, <4>1
      <4> QED
        BY <2>1, <2>4, <4>1, <4>2
    <3>7. Cardinality(L) = Cardinality(K) /\ Cardinality(K) \in Nat
      BY <1>2, <2>5, <3>3, Swapped
    <3> HIDE DEF L
    <3> QED
      BY <3>4, <3>5, <3>6, <3>7 DEF Within, Agreed
  <2> QED
    BY <2>7, <2>8
<1> QED
  BY <1>5, <1>6

\* No choice within the capacity has more intervals than the greedy one, which is
\* itself within it.
LEMMA GreedyIsBest ==
    ASSUME NEW J, NEW b \in Int, NEW n \in Nat, Timed(J, b, n), NEW cap \in Nat,
           NEW A \in SUBSET J, Greedy(A, J, cap)
    PROVE  /\ Within(A, cap)
           /\ \A K \in SUBSET J : Within(K, cap) => Cardinality(K) <= Cardinality(A)
<1>1. \A S \in SUBSET J : IsFiniteSet(S) /\ Cardinality(S) \in Nat
  BY FS_Subset, FS_CardinalityType DEF Timed
<1>2. ASSUME NEW K \in SUBSET J, Within(K, cap)
      PROVE  Within(A, cap) /\ Cardinality(K) <= Cardinality(A)
  <2> DEFINE Grown(m, L) == Within(L, cap) /\ Agreed(L, A, m) /\ Cardinality(K) <= Cardinality(L)
             Reached == {m \in Nat : \E L \in SUBSET J : Grown(m, L)}
  <2>1. 0 \in Reached
    <3>1. Agreed(K, A, 0)
      <4>1. \A j \in K \cup A : j.to \in Nat
        BY DEF Timed
      <4> QED
        BY <4>1 DEF Agreed
    <3> QED
      BY <1>1, <1>2, <3>1
  <2>2. ASSUME NEW m \in Reached PROVE m + 1 \in Reached
    <3>1. PICK L \in SUBSET J : Grown(m, L)
      BY <2>2
    <3>2. PICK M \in SUBSET J : /\ Within(M, cap) /\ Agreed(M, A, m + 1)
                                /\ Cardinality(L) <= Cardinality(M)
      BY <3>1, Exchange
    <3>3. Cardinality(K) <= Cardinality(M)
      BY <1>1, <3>1, <3>2
    <3> QED
      BY <3>2, <3>3
  <2>3. Reached = Nat
    <3> HIDE DEF Reached
    <3>1. Reached \in SUBSET Nat
      BY DEF Reached
    <3> QED
      BY <2>1, <2>2, <3>1, SetInduction
  <2>4. PICK L \in SUBSET J : Grown(n, L)
    BY <2>3
  <2>5. L = A
    BY <2>4 DEF Timed, Agreed
  <2> QED
    BY <2>4, <2>5
<1>3. Within({}, cap)
  <2>1. \A t \in Int : Meeting({}, t) = {}
    BY DEF Meeting
  <2> QED
    BY <2>1, FS_EmptySet DEF Within
<1> QED
  BY <1>2, <1>3
-------------------------------------------------------------------------------
\* OPTgen is greedy: the ring tells it, of an interval that ends now, whether it
\* fits with those it accepted before.

Short(j) == 0 < j.to - j.from /\ j.to - j.from < Quanta

\* The intervals accepted before j in its set, over call t.
Rivals(J, j, t) == {k \in J : k.set = j.set /\ k.opt /\ k.to < j.to /\ Covers(k, t)}

JudgedInv ==
    /\ \A j, k \in judged : j.set = k.set /\ j.to = k.to => j = k
    /\ \A j \in judged : j.opt => Short(j)
    /\ \A j \in judged : Short(j) =>
          (j.opt <=> \A t \in j.from .. j.to - 1 : Cardinality(Rivals(judged, j, t)) < Capacity)

LEMMA JudgedByRing ==
    ASSUME PolicyInv, HistoryInv, NEW l \in Lines, Found(l)
    PROVE  /\ Accepted(l) => Short(Interval(l))
           /\ Short(Interval(l)) =>
                 (Accepted(l) <=> \A t \in Interval(l).from .. Interval(l).to - 1 :
                                      Cardinality(Over(judged, SetOf[l], t)) < Capacity)
<1>1. PICK s : s = SetOf[l]
  OBVIOUS
<1>2. PICK n : n = elapsed[s]
  OBVIOUS
<1>3. PICK last : last = OldOf(l).last
  OBVIOUS
<1>4. PICK gap : gap = Gap(l)
  OBVIOUS
<1>5. /\ s \in Sets /\ n \in Nat /\ last \in 0 .. TimerSize - 1 /\ gap \in 0 .. TimerSize - 1
      /\ gap = Measured(n % TimerSize, last, TimerSize)
  BY <1>1, <1>2, <1>3, <1>4, GapRange DEF HistoryInv
<1>6. /\ TimerSize \in Nat \ {0} /\ Quanta \in Nat \ {0} /\ Fits(Quanta, TimerSize)
  BY HawkeyeAssumption DEF Fits
<1>7. gap \in Nat /\ gap \in Int
  BY <1>5, <1>6
<1>8. Interval(l).to = n /\ Interval(l).from = n - gap
  BY <1>1, <1>2, <1>4 DEF Interval
<1>9. Short(Interval(l)) <=> gap # 0 /\ gap < Quanta
  <2>1. Short(Interval(l)) <=> 0 < n - (n - gap) /\ n - (n - gap) < Quanta
    BY <1>8 DEF Short
  <2> QED
    BY <1>5, <1>6, <1>7, <2>1
<1>10. Accepted(l) <=> /\ gap # 0 /\ gap < Quanta
                       /\ \A q \in Span(last, gap) : occupancy[s][q] < Capacity
  BY <1>1, <1>3, <1>4 DEF Accepted, OptHit
<1>11. ASSUME gap < Quanta, NEW t \in n - gap .. n - 1
       PROVE  /\ t % Quanta \in Span(last, gap)
              /\ occupancy[s][t % Quanta] = Cardinality(Over(judged, s, t))
  <2>1. t \in Int /\ n - Quanta < t /\ t < n /\ n - gap <= t
    BY <1>5, <1>6, <1>7, <1>11
  <2>2. t % Quanta \in Span(last, gap)
    BY <1>5, <1>7, <1>11, <2>1, SpanCovers
  <2>3. t \in elapsed[s] - Quanta .. elapsed[s] - 1
    BY <1>2, <1>5, <1>6, <2>1
  <2>4. occupancy[s][t % Quanta] =
            Cardinality({j \in judged : j.set = s /\ j.opt /\ Covers(j, t)})
    BY <1>5, <2>3 DEF HistoryInv, OccupancyIsIntervals
  <2> QED
    BY <2>2, <2>4 DEF Over
<1>12. ASSUME NEW q \in Span(last, gap)
       PROVE  \E t \in n - gap .. n - 1 : q = t % Quanta
  <2>1. PICK i \in 0 .. gap - 1 : q = (last + i) % Quanta
    BY <1>12 DEF Span
  <2>2. i \in Int /\ (n - gap) + i \in n - gap .. n - 1
    BY <1>5, <1>7
  <2>3. (last + i) % Quanta = ((n - gap) + i) % Quanta
    BY <1>5, <1>6, <2>2, MeasuredBack
  <2> QED
    BY <2>1, <2>2, <2>3
<1>13. ASSUME gap < Quanta
       PROVE  (\A q \in Span(last, gap) : occupancy[s][q] < Capacity) <=>
                  \A t \in n - gap .. n - 1 : Cardinality(Over(judged, s, t)) < Capacity
  <2>1. ASSUME \A q \in Span(last, gap) : occupancy[s][q] < Capacity, NEW t \in n - gap .. n - 1
        PROVE  Cardinality(Over(judged, s, t)) < Capacity
    BY <1>11, <1>13, <2>1, Zenon
  <2>2. ASSUME \A t \in n - gap .. n - 1 : Cardinality(Over(judged, s, t)) < Capacity,
               NEW q \in Span(last, gap)
        PROVE  occupancy[s][q] < Capacity
    <3>1. PICK t \in n - gap .. n - 1 : q = t % Quanta
      BY <1>12
    <3> QED
      BY <1>11, <1>13, <2>2, <3>1, Zenon
  <2> QED
    BY <2>1, <2>2, Zenon
<1>14. Accepted(l) => Short(Interval(l))
  BY <1>9, <1>10
<1>15. Short(Interval(l)) =>
          (Accepted(l) <=> \A t \in Interval(l).from .. Interval(l).to - 1 :
                               Cardinality(Over(judged, SetOf[l], t)) < Capacity)
  <2>1. ASSUME Short(Interval(l))
        PROVE  Accepted(l) <=> \A t \in n - gap .. n - 1 : Cardinality(Over(judged, s, t)) < Capacity
    BY <1>9, <1>10, <1>13, <2>1, Zenon
  <2> QED
    BY <1>1, <1>8, <2>1, Zenon
<1> QED
  BY <1>14, <1>15

LEMMA JudgedKept ==
    ASSUME PolicyInv, HistoryInv, JudgedInv, NEW p, NEW l \in Lines, NEW sig, NEW pf,
           StateAccess(p, SetOf[l], l, sig, pf)
    PROVE  JudgedInv'
<1>1. ASSUME judged' = judged PROVE JudgedInv'
  BY <1>1 DEF JudgedInv, Rivals, Covers, Short
<1>2. CASE ~ Sampled(SetOf[l])
  BY <1>1, <1>2 DEF StateAccess
<1>3. CASE Sampled(SetOf[l])
  <2> DEFINE new == Interval(l)
             s == SetOf[l]
  <2>1. judged' = IF Found(l) THEN judged \cup {new} ELSE judged
    BY <1>3, Lasting DEF HistoryInv
  <2>2. CASE ~ Found(l)
    BY <1>1, <2>1, <2>2
  <2>3. CASE Found(l)
    <3>1. judged' = judged \cup {new}
      BY <2>1, <2>3
    <3>2. new.set = s /\ new.to = elapsed[s] /\ (new.opt <=> Accepted(l)) /\ s \in Sets
      BY HawkeyeAssumption DEF Interval
    <3>3. \A j \in judged : j.set = s => j.to < new.to /\ j.to # new.to /\ ~ (new.to < j.to)
      <4>1. elapsed[s] \in Nat
        BY <3>2 DEF HistoryInv, Clocks
      <4>2. \A j \in judged : j.to \in Nat /\ j.to < elapsed[j.set]
        BY DEF HistoryInv, Past
      <4> HIDE DEF new
      <4> QED
        BY <3>2, <4>1, <4>2
    <3>4. new.to \in Nat
      BY <3>2 DEF HistoryInv, Clocks
    <3>5. ~ (new.to < new.to)
      <4> HIDE DEF new
      <4> QED
        BY <3>4
    <3>6. Accepted(l) => Short(new)
      BY <2>3, JudgedByRing
    <3>7. Short(new) => (Accepted(l) <=> \A t \in new.from .. new.to - 1 :
                                             Cardinality(Over(judged, s, t)) < Capacity)
      BY <2>3, JudgedByRing
    <3> HIDE DEF new, s
    <3>8. \A t : Rivals(judged', new, t) = Over(judged, s, t)
      BY <3>1, <3>2, <3>3, <3>5 DEF Rivals, Over
    <3>9. \A j \in judged : \A t : Rivals(judged', j, t) = Rivals(judged, j, t)
      BY <3>1, <3>2, <3>3 DEF Rivals
    <3>10. \A j, k \in judged' : j.set = k.set /\ j.to = k.to => j = k
      BY <3>1, <3>2, <3>3 DEF JudgedInv
    <3>11. \A j \in judged' : j.opt => Short(j)
      BY <3>1, <3>2, <3>6 DEF JudgedInv
    <3>12. ASSUME NEW j \in judged', Short(j)
           PROVE  j.opt <=> \A t \in j.from .. j.to - 1 :
                                Cardinality(Rivals(judged', j, t)) < Capacity
      <4>1. CASE j = new
        BY <3>2, <3>7, <3>8, <3>12, <4>1, Zenon
      <4>2. CASE j \in judged
        <5>1. j.opt <=> \A t \in j.from .. j.to - 1 : Cardinality(Rivals(judged, j, t)) < Capacity
          BY <3>12, <4>2 DEF JudgedInv
        <5> QED
          BY <3>9, <4>2, <5>1, Zenon
      <4> QED
        BY <3>1, <4>1, <4>2
    <3> QED
      BY <3>10, <3>11, <3>12 DEF JudgedInv, Short, Rivals, Covers
  <2> QED
    BY <2>2, <2>3
<1> QED
  BY <1>2, <1>3

LEMMA JudgedStep ==
    ASSUME PolicyInv, HistoryInv, JudgedInv, [Next]_vars
    PROVE  JudgedInv'
<1>1. CASE UNCHANGED vars
  BY <1>1 DEF vars, JudgedInv, Rivals, Covers, Short
<1>2. ASSUME NEW a \in Accesses, Hit(a[1], a[2], a[3]) \/ Insert(a[1], a[2], a[3])
      PROVE  JudgedInv'
  <2>1. a[1] \in Lines
    BY HawkeyeAssumption
  <2>2. \E p : StateAccess(p, SetOf[a[1]], a[1], a[2], a[3])
    BY <1>2 DEF Hit, Insert
  <2>3. PICK p : StateAccess(p, SetOf[a[1]], a[1], a[2], a[3])
    BY <2>2
  <2> QED
    BY <2>1, <2>3, JudgedKept
<1> QED
  BY <1>1, <1>2 DEF Next

\* Each interval of the window is accepted exactly when it fits with the intervals
\* of its set accepted before it, and none of a set end at the same call.
THEOREM GreedyInvariance == Spec => [](PolicyInv /\ HistoryInv /\ JudgedInv)
<1>1. Init => PolicyInv /\ HistoryInv /\ JudgedInv
  BY PolicyInit, HistoryInit DEF Init, JudgedInv
<1>2. PolicyInv /\ HistoryInv /\ JudgedInv /\ [Next]_vars => (PolicyInv /\ HistoryInv /\ JudgedInv)'
  BY PolicyStep, HistoryStep, JudgedStep
<1> QED
  BY <1>1, <1>2, PTL DEF Spec

LEMMA JudgedAreBest ==
    ASSUME PolicyInv, HistoryInv, JudgedInv, NEW s \in Sets
    PROVE  LET short == {j \in judged : j.set = s /\ 0 < j.to - j.from /\ j.to - j.from < Quanta}
               accepted == {j \in short : j.opt}
           IN  /\ Fitting(accepted, s)
               /\ \A K \in SUBSET short : Cardinality(K) > Cardinality(accepted) => ~Fitting(K, s)
<1>1. PICK J : J = {j \in judged : j.set = s /\ 0 < j.to - j.from /\ j.to - j.from < Quanta}
  OBVIOUS
<1>2. PICK A : A = {j \in J : j.opt}
  OBVIOUS
<1>3. PICK n : n = elapsed[s]
  OBVIOUS
<1>4. n \in Nat /\ Quanta \in Nat \ {0} /\ Capacity \in Nat
  BY <1>3, Sizes, HawkeyeAssumption DEF HistoryInv, Clocks
<1>5. /\ J \subseteq judged /\ \A j \in J : j.set = s /\ Short(j)
      /\ \A j \in judged : j.set = s /\ Short(j) => j \in J
  BY <1>1 DEF Short
<1>6. Timed(J, -Quanta, n)
  <2>1. IsFiniteSet(J)
    BY <1>5, FS_Subset DEF HistoryInv, Past
  <2>2. \A j \in J : j.from \in Int /\ j.to \in Nat /\ j.to < n
    BY <1>3, <1>5 DEF HistoryInv, Past
  <2>3. \A j \in J : -Quanta <= j.from
    BY <1>4, <1>5, <2>2 DEF Short
  <2>4. \A j, k \in J : j.to = k.to => j = k
    BY <1>5 DEF JudgedInv
  <2> QED
    BY <2>1, <2>2, <2>3, <2>4 DEF Timed
<1>7. \A j \in J, t \in Int : Before(A, j, t) = Rivals(judged, j, t)
  <2>1. \A k : k \in A <=> k \in judged /\ k.set = s /\ k.opt
    BY <1>2, <1>5 DEF JudgedInv
  <2> QED
    BY <1>5, <2>1 DEF Before, Rivals
<1>8. Greedy(A, J, Capacity)
  <2> SUFFICES ASSUME NEW j \in J
               PROVE  j \in A <=> \A t \in j.from .. j.to - 1 : Cardinality(Before(A, j, t)) < Capacity
    BY DEF Greedy
  <2>1. j.opt <=> \A t \in j.from .. j.to - 1 : Cardinality(Rivals(judged, j, t)) < Capacity
    BY <1>5 DEF JudgedInv
  <2>2. \A t \in j.from .. j.to - 1 : t \in Int
    BY <1>6 DEF Timed
  <2>3. j \in A <=> j.opt
    BY <1>2
  <2> QED
    BY <1>7, <2>1, <2>2, <2>3, Zenon
<1>9. /\ Within(A, Capacity)
      /\ \A K \in SUBSET J : Within(K, Capacity) => Cardinality(K) <= Cardinality(A)
  <2>1. A \in SUBSET J /\ -Quanta \in Int
    BY <1>2, <1>4
  <2> QED
    BY <1>4, <1>6, <1>8, <2>1, GreedyIsBest
<1>10. ASSUME NEW K \in SUBSET J
       PROVE  Fitting(K, s) <=> Within(K, Capacity)
  <2>1. \A t : Meeting(K, t) = {j \in K : Covers(j, t)}
    BY DEF Meeting
  <2>2. ASSUME NEW t \in Int, t \notin -Quanta .. elapsed[s]
        PROVE  Cardinality(Meeting(K, t)) <= Capacity
    <3>1. ASSUME NEW j \in K PROVE ~ Covers(j, t)
      <4>1. j.from \in Int /\ -Quanta <= j.from /\ j.to \in Nat /\ j.to < n
        BY <1>6 DEF Timed
      <4> QED
        BY <1>3, <1>4, <2>2, <4>1 DEF Covers
    <3>2. Meeting(K, t) = {}
      BY <3>1 DEF Meeting
    <3>3. Cardinality(Meeting(K, t)) = 0
      BY <3>2, FS_EmptySet
    <3> QED
      BY <1>4, <3>3
  <2>3. \A t \in -Quanta .. elapsed[s] : t \in Int
    BY <1>4
  <2>4. Fitting(K, s) <=> \A t \in -Quanta .. elapsed[s] : Cardinality(Meeting(K, t)) <= Capacity
    BY <2>1 DEF Fitting
  <2> QED
    BY <2>2, <2>3, <2>4, Zenon DEF Within
<1>11. A \in SUBSET J /\ Fitting(A, s)
  BY <1>2, <1>9, <1>10
<1>12. ASSUME NEW K \in SUBSET J, Cardinality(K) > Cardinality(A) PROVE ~ Fitting(K, s)
  <2>1. Cardinality(K) \in Nat /\ Cardinality(A) \in Nat
    BY <1>6, <1>11, FS_Subset, FS_CardinalityType DEF Timed
  <2>2. ~ (Cardinality(K) <= Cardinality(A))
    BY <1>12, <2>1
  <2> QED
    BY <1>9, <1>10, <2>2
<1> QED
  BY <1>1, <1>2, <1>11, <1>12, Zenon

\* Among the reuse intervals shorter than the window, OPTgen accepts as many as any
\* choice within the capacity of the set could (Optgen::addInterval, whose hits are
\* to be those of the optimal policy): for every capacity, every ring and every
\* sequence of calls.  Its choices
\* are greedy, in the order in which the intervals end, and any other choice can be
\* turned into them, interval by interval, without losing one.
THEOREM OptimalHolds == Spec => []OptimalHits
<1>1. PolicyInv /\ HistoryInv /\ JudgedInv => OptimalHits
  BY JudgedAreBest, Zenon DEF OptimalHits
<1> QED
  BY <1>1, GreedyInvariance, PTL
===============================================================================
