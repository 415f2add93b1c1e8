--------------------------- MODULE Replacement_proof ---------------------------
(* The hardware against the simulators, where it replaces a line.  For every  *)
(* associativity, RRPV width and set of lines: the loops of selectVictim      *)
(* return the way, and leave the RRPVs, that the hardware computes at once.   *)
(* And for every associativity: its ranks of recency stay a permutation of    *)
(* 0 .. WAYS - 1 and order the lines as the simulator's stamps do.            *)
EXTENDS VictimPolicy, RecencyRank, TLAPS

PassNames == {"first_at_max", "first_record", "record", "record_at_max",
              "property_at_max", "degree_at_max", "stamped", "any", "farthest"}

(* The RRPVs rise together.                                                   *)
AgedEvenly ==
    \E k \in 0 .. rrpvMax :
        /\ ~ rrip_variant => k = 0
        /\ \A w \in Ways : rrpv[w] = ways[w].rrpv + k

NoneOf(p) == \A w \in Ways : ~ Considers(p, w)

(* The earlier loops of the round found nothing.                              *)
EarlierPassesEmpty == \A q \in 1 .. pass - 1 : NoneOf(Passes[variant][q])

(* Way b wins against w: a way is replaced by a strictly better one only.     *)
Wins(p, b, w) == ~ Beats(p, w, b) /\ (Beats(p, b, w) \/ b < w)

BestSoFar ==
    IF best = None THEN \A w \in Ways : w < i => ~ Considers(This, w)
    ELSE /\ Considers(This, best)
         /\ \A w \in Ways : w < i /\ w # best /\ Considers(This, w) => Wins(This, best, w)

ReturnedBest == victim # None => victim = best /\ Found

IInv == TypeOK /\ AgedEvenly /\ EarlierPassesEmpty /\ BestSoFar /\ ReturnedBest
-----------------------------------------------------------------------------
LEMMA Constants == n \in Nat /\ n > 0 /\ rrpvMax \in Nat /\ None \notin Ways /\ None = n
BY WaysAssumption, RrpvAssumption DEF None, Ways

(* The table of the loops, entry by entry.                                    *)
LEMMA PassTable ==
    /\ DOMAIN Passes = {"GRASP_ONLY", "EPOCH_FIRST", "RRIP_FIRST", "EPOCH_ONLY",
                        "SHORTCIRCUIT", "DEGREE_FIRST", "LRU_ONLY"}
    /\ Passes["GRASP_ONLY"] = <<"first_at_max">>
    /\ Passes["EPOCH_FIRST"] = <<"record", "stamped", "any">>
    /\ Passes["RRIP_FIRST"] = <<"record_at_max", "property_at_max">>
    /\ Passes["EPOCH_ONLY"] = <<"record", "stamped", "any">>
    /\ Passes["SHORTCIRCUIT"] = <<"first_record", "farthest">>
    /\ Passes["DEGREE_FIRST"] = <<"record_at_max", "degree_at_max">>
    /\ Passes["LRU_ONLY"] = <<"any">>
BY DEF Passes

LEMMA PassFacts ==
    ASSUME NEW v \in DOMAIN Passes
    PROVE  /\ Len(Passes[v]) \in 1 .. 3
           /\ \A q \in 1 .. Len(Passes[v]) : Passes[v][q] \in PassNames
<1>1. CASE v \in {"GRASP_ONLY", "LRU_ONLY"}
  <2>1. Passes[v] \in {<<"first_at_max">>, <<"any">>}
    BY <1>1, PassTable
  <2>2. QED
    BY <2>1 DEF PassNames
<1>2. CASE v \in {"EPOCH_FIRST", "EPOCH_ONLY"}
  <2>1. Passes[v] = <<"record", "stamped", "any">>
    BY <1>2, PassTable
  <2>2. QED
    BY <2>1 DEF PassNames
<1>3. CASE v \in {"RRIP_FIRST", "SHORTCIRCUIT", "DEGREE_FIRST"}
  <2>1. Passes[v] \in {<<"record_at_max", "property_at_max">>, <<"first_record", "farthest">>,
                       <<"record_at_max", "degree_at_max">>}
    BY <1>3, PassTable
  <2>2. QED
    BY <2>1 DEF PassNames
<1>4. QED
  BY <1>1, <1>2, <1>3, PassTable

LEMMA FirstPass ==
    ASSUME NEW v \in DOMAIN Passes
    PROVE  1 \in 1 .. Len(Passes[v])
<1> DEFINE count == Len(Passes[v])
<1>1. count \in 1 .. 3
  BY PassFacts
<1> HIDE DEF count
<1>2. 1 \in 1 .. count
  BY <1>1
<1>3. QED
  BY <1>2 DEF count

(* What is known of the lines of the set.                                     *)
LEMMA WayFacts ==
    ASSUME ways \in [Ways -> WayStates]
    PROVE  \A w \in Ways : /\ ways[w].recency \in Int /\ ways[w].dbg \in Int
                           /\ ways[w].dist \in Int /\ effDist(ways[w]) \in Int
                           /\ effDist(ways[w]) >= 0
                           /\ ways[w].rrpv \in 0 .. rrpvMax
                           /\ ways[w].stamped => ways[w].prop
<1>1. \A w \in Ways : ways[w] \in WayState /\ (ways[w].stamped => ways[w].prop)
  BY WayStatesAssumption
<1>2. QED
  BY <1>1 DEF WayState, effDist

(* Beating is a strict weak order, in every loop.                             *)
LEMMA BeatsOrder ==
    ASSUME ways \in [Ways -> WayStates], NEW p \in PassNames,
           NEW x \in Ways, NEW y \in Ways, NEW z \in Ways,
           Beats(p, x, y), ~ Beats(p, z, y)
    PROVE  Beats(p, x, z) /\ ~ Beats(p, z, x)
<1>1. /\ ways[x].recency \in Int /\ ways[x].dbg \in Int /\ effDist(ways[x]) \in Int
      /\ ways[y].recency \in Int /\ ways[y].dbg \in Int /\ effDist(ways[y]) \in Int
      /\ ways[z].recency \in Int /\ ways[z].dbg \in Int /\ effDist(ways[z]) \in Int
  BY WayFacts
<1>2. CASE p \in {"first_at_max", "first_record"}
  BY <1>2 DEF Beats, ByAge, ByDist
<1>3. CASE p \in {"record", "record_at_max", "any"}
  BY <1>1, <1>3 DEF Beats, ByAge, ByDist, Older
<1>4. CASE p \in {"stamped", "property_at_max"}
  BY <1>1, <1>4 DEF Beats, ByAge, ByDist, Farther
<1>5. CASE p = "farthest"
  BY <1>1, <1>5 DEF Beats, ByAge, ByDist, Farther, SameDist, Colder
<1>6. CASE p = "degree_at_max"
  BY <1>1, <1>6 DEF Beats, ByAge, ByDist, Farther, SameDist, Colder, SameTier, Older
<1>7. QED
  BY <1>2, <1>3, <1>4, <1>5, <1>6 DEF PassNames

LEMMA BeatsIrreflexive ==
    ASSUME ways \in [Ways -> WayStates], NEW p \in PassNames, NEW x \in Ways
    PROVE  ~ Beats(p, x, x)
<1>1. /\ ways[x].recency \in Int /\ ways[x].dbg \in Int /\ effDist(ways[x]) \in Int
  BY WayFacts
<1>2. QED
  BY <1>1 DEF Beats, ByAge, ByDist, Older, Farther, SameDist, Colder, SameTier
-----------------------------------------------------------------------------
LEMMA InitHolds == Init => IInv
<1> SUFFICES ASSUME Init PROVE IInv
  OBVIOUS
<1>1. ways \in [Ways -> WayStates] /\ variant \in DOMAIN Passes
  BY VariantsAssumption DEF Init
<1>2. \A w \in Ways : rrpv[w] = ways[w].rrpv /\ ways[w].rrpv \in 0 .. rrpvMax
  BY <1>1, WayFacts DEF Init
<1>3. TypeOK
  <2>1. rrpv \in [Ways -> 0 .. rrpvMax]
    BY <1>2 DEF Init
  <2>2. 1 \in 1 .. Len(Passes[variant])
    BY <1>1, FirstPass
  <2>3. 0 \in 0 .. n /\ n \in 0 .. n
    BY Constants
  <2>4. QED
    BY <1>1, <2>1, <2>2, <2>3, Constants DEF Init, TypeOK
<1>4. AgedEvenly
  BY <1>2, Constants DEF AgedEvenly
<1>5. EarlierPassesEmpty /\ BestSoFar /\ ReturnedBest
  BY Constants DEF Init, EarlierPassesEmpty, BestSoFar, ReturnedBest, Ways
<1>6. QED
  BY <1>3, <1>4, <1>5 DEF IInv

(* Facts about the loop under way that every step uses.                       *)
LEMMA LoopFacts ==
    ASSUME TypeOK
    PROVE  /\ variant \in DOMAIN Passes
           /\ This \in PassNames
           /\ pass \in 1 .. 3 /\ Len(Passes[variant]) \in 1 .. 3
           /\ i \in Nat /\ i <= n
           /\ best # None => best \in Ways /\ best < i
BY PassFacts, Constants, VariantsAssumption DEF TypeOK, This, Ways

LEMMA ScanStep == IInv /\ ScanWay => IInv'
<1> SUFFICES ASSUME IInv, ScanWay PROVE IInv'
  OBVIOUS
<1>1. TypeOK /\ BestSoFar /\ victim = None /\ i < n /\ ~ Found
  BY DEF IInv, ScanWay
<1>2. /\ i' = i + 1 /\ victim' = victim /\ rrpv' = rrpv /\ pass' = pass
      /\ ways' = ways /\ variant' = variant
  BY DEF ScanWay, inputs
<1>3. i \in Ways /\ i \in Nat /\ i + 1 \in 0 .. n
  BY <1>1, LoopFacts, Constants DEF Ways
<1>4. best' \in {best, i}
  BY DEF ScanWay
<1>5. TypeOK'
  <2>1. best' \in 0 .. (i + 1) - 1 \cup {None}
    BY <1>1, <1>3, <1>4 DEF TypeOK
  <2>2. QED
    BY <1>1, <1>2, <1>3, <2>1 DEF TypeOK
<1>6. AgedEvenly' /\ EarlierPassesEmpty' /\ ReturnedBest'
  BY <1>1, <1>2 DEF IInv, AgedEvenly, EarlierPassesEmpty, ReturnedBest, NoneOf,
                    Considers, AtMax, rrip_variant
<1>7. This' = This /\ \A w \in Ways : Considers(This, w)' = Considers(This, w)
  BY <1>2 DEF This, Considers, AtMax
<1>8. \A v, w \in Ways : Wins(This, v, w)' = Wins(This, v, w)
  BY <1>2 DEF This, Wins, Beats, Older, Farther, SameDist, Colder, SameTier
<1>9. \A w \in Ways : w < i' => w < i \/ w = i
  BY <1>2, <1>3 DEF Ways
<1>10. BestSoFar'
  <2>1. CASE ~ Considers(This, i)
    <3>1. best' = best
      BY <2>1 DEF ScanWay
    <3>2. \A w \in Ways : w < i' /\ Considers(This, w) => w < i
      BY <1>9, <2>1
    <3>3. best # None => best \in Ways
      BY <1>1, LoopFacts
    <3>4. QED
      BY <1>1, <1>7, <1>8, <3>1, <3>2, <3>3 DEF BestSoFar
  <2>2. CASE Considers(This, i) /\ best = None
    <3>1. best' = i /\ i # None
      BY <1>1, <2>2, Constants DEF ScanWay
    <3>2. \A w \in Ways : w < i' /\ w # i => ~ Considers(This, w)
      BY <1>1, <1>9, <2>2 DEF BestSoFar
    <3>3. QED
      BY <1>3, <1>7, <2>2, <3>1, <3>2 DEF BestSoFar
  <2>3. CASE Considers(This, i) /\ best # None
    <3>1. best \in Ways /\ best < i /\ This \in PassNames
      BY <1>1, <2>3, LoopFacts
    <3>2. Considers(This, best) /\ \A w \in Ways :
            w < i /\ w # best /\ Considers(This, w) => Wins(This, best, w)
      BY <1>1, <2>3 DEF BestSoFar
    <3>3. ways \in [Ways -> WayStates]
      BY <1>1 DEF TypeOK
    <3>4. CASE Beats(This, i, best)
      <4>1. best' = i /\ i # None
        BY <1>1, <2>3, <3>4, Constants DEF ScanWay
      <4>2. \A w \in Ways : w < i /\ Considers(This, w) => Wins(This, i, w)
        <5> TAKE w \in Ways
        <5> HAVE w < i /\ Considers(This, w)
        <5>1. ~ Beats(This, w, best)
          BY <3>1, <3>2, <3>3, BeatsIrreflexive DEF Wins
        <5>2. QED
          BY <1>3, <3>1, <3>3, <3>4, <5>1, BeatsOrder DEF Wins
      <4>3. \A w \in Ways : w < i' /\ w # i /\ Considers(This, w) => Wins(This, i, w)
        BY <1>9, <4>2
      <4>4. QED
        BY <1>3, <1>7, <1>8, <2>3, <4>1, <4>3 DEF BestSoFar
    <3>5. CASE ~ Beats(This, i, best)
      <4>1. best' = best
        BY <2>3, <3>5 DEF ScanWay
      <4>2. Wins(This, best, i)
        BY <3>1, <3>5 DEF Wins
      <4>3. \A w \in Ways : w < i' /\ w # best /\ Considers(This, w) => Wins(This, best, w)
        BY <1>9, <3>2, <4>2
      <4>4. QED
        BY <1>7, <1>8, <2>3, <3>1, <3>2, <4>1, <4>3 DEF BestSoFar
    <3>6. QED
      BY <3>4, <3>5
  <2>4. QED
    BY <2>1, <2>2, <2>3
<1>11. QED
  BY <1>5, <1>6, <1>10 DEF IInv

(* A loop that ends without a candidate considered no way at all.             *)
LEMMA EmptyPass ==
    ASSUME TypeOK, BestSoFar, i = n, best = None
    PROVE  NoneOf(This)
BY Constants DEF BestSoFar, NoneOf, Ways

LEMMA NextPassStep == IInv /\ NextPass => IInv'
<1> SUFFICES ASSUME IInv, NextPass PROVE IInv'
  OBVIOUS
<1>1. TypeOK /\ BestSoFar /\ i = n /\ best = None /\ victim = None /\ ~ LastPass
  BY DEF IInv, NextPass
<1>2. /\ i' = 0 /\ pass' = pass + 1 /\ best' = best /\ victim' = victim
      /\ rrpv' = rrpv /\ ways' = ways /\ variant' = variant
  BY DEF NextPass, inputs
<1>3. pass + 1 \in 1 .. Len(Passes[variant])
  BY <1>1, LoopFacts DEF TypeOK, LastPass
<1>4. TypeOK'
  BY <1>1, <1>2, <1>3, Constants DEF TypeOK
<1>5. AgedEvenly' /\ ReturnedBest'
  BY <1>1, <1>2 DEF IInv, AgedEvenly, ReturnedBest, rrip_variant
<1>6. EarlierPassesEmpty'
  <2>1. NoneOf(Passes[variant][pass])
    BY <1>1, EmptyPass DEF This
  <2>2. \A q \in 1 .. pass' - 1 : q \in 1 .. pass - 1 \/ q = pass
    BY <1>1, <1>2, LoopFacts
  <2>3. \A q \in 1 .. pass' - 1 : NoneOf(Passes[variant][q])
    BY <2>1, <2>2 DEF IInv, EarlierPassesEmpty
  <2>4. QED
    BY <1>2, <2>3 DEF EarlierPassesEmpty, NoneOf, Considers, AtMax
<1>7. BestSoFar'
  BY <1>1, <1>2 DEF BestSoFar, Ways
<1>8. QED
  BY <1>4, <1>5, <1>6, <1>7 DEF IInv

(* When every loop of the round came out empty, the variant is an RRIP one    *)
(* and no line has the highest RRPV: only then does the code age the lines.   *)
LEMMA EmptyRound ==
    ASSUME IInv, i = n, best = None, LastPass
    PROVE  rrip_variant /\ \A w \in Ways : ~ AtMax(w)
<1>1. TypeOK /\ BestSoFar /\ EarlierPassesEmpty
  BY DEF IInv
<1>2. NoneOf(This)
  BY <1>1, EmptyPass
<1>3. 0 \in Ways
  BY Constants DEF Ways
<1>4. variant \in DOMAIN Passes /\ pass = Len(Passes[variant])
  BY <1>1, LoopFacts DEF LastPass
<1>5. CASE variant = "GRASP_ONLY"
  <2>1. This = "first_at_max"
    BY <1>4, <1>5, PassTable DEF This
  <2>2. QED
    BY <1>2, <1>5, <2>1 DEF NoneOf, Considers, MaxOnly, RecordsOnly, PropertyOnly, rrip_variant
<1>6. CASE variant \in {"EPOCH_FIRST", "EPOCH_ONLY", "LRU_ONLY"}
  <2>1. This = "any"
    <3>1. \/ Passes[variant] = <<"record", "stamped", "any">>
          \/ Passes[variant] = <<"any">>
      BY <1>6, PassTable
    <3>2. QED
      BY <1>4, <3>1 DEF This
  <2>2. QED
    BY <1>2, <1>3, <2>1 DEF NoneOf, Considers, MaxOnly, RecordsOnly, PropertyOnly
<1>7. CASE variant = "SHORTCIRCUIT"
  <2>1. This = "farthest"
    BY <1>4, <1>7, PassTable DEF This
  <2>2. QED
    BY <1>2, <1>3, <2>1 DEF NoneOf, Considers, MaxOnly, RecordsOnly, PropertyOnly
<1>8. CASE variant \in {"RRIP_FIRST", "DEGREE_FIRST"}
  <2>1. pass = 2 /\ Passes[variant][1] = "record_at_max"
    <3>1. \/ Passes[variant] = <<"record_at_max", "property_at_max">>
          \/ Passes[variant] = <<"record_at_max", "degree_at_max">>
      BY <1>8, PassTable
    <3>2. QED
      BY <1>4, <3>1
  <2>2. NoneOf("record_at_max")
    <3>1. 1 \in 1 .. pass - 1
      BY <2>1
    <3>2. QED
      BY <1>1, <2>1, <3>1 DEF EarlierPassesEmpty
  <2>3. This \in {"property_at_max", "degree_at_max"}
    BY <1>4, <1>8, PassTable DEF This
  <2>4. \A w \in Ways : ~ (AtMax(w) /\ ~ ways[w].prop)
    BY <2>2 DEF NoneOf, Considers, MaxOnly, RecordsOnly, PropertyOnly
  <2>5. \A w \in Ways : ~ (AtMax(w) /\ ways[w].prop)
    BY <1>2, <2>3 DEF NoneOf, Considers, MaxOnly, RecordsOnly, PropertyOnly
  <2>6. QED
    BY <1>8, <2>4, <2>5 DEF rrip_variant
<1>9. QED
  BY <1>4, <1>5, <1>6, <1>7, <1>8, PassTable

LEMMA AgeStep == IInv /\ AgeAndRetry => IInv'
<1> SUFFICES ASSUME IInv, AgeAndRetry PROVE IInv'
  OBVIOUS
<1>1. TypeOK /\ i = n /\ best = None /\ victim = None /\ LastPass
  BY DEF IInv, AgeAndRetry
<1>2. /\ i' = 0 /\ pass' = 1 /\ best' = best /\ victim' = victim
      /\ rrpv' = [w \in Ways |-> Aged(w)] /\ ways' = ways /\ variant' = variant
  BY DEF AgeAndRetry, inputs
<1>3. rrip_variant /\ \A w \in Ways : ~ AtMax(w)
  BY <1>1, EmptyRound
<1>4. \A w \in Ways : rrpv[w] \in 0 .. rrpvMax /\ rrpv[w] < rrpvMax
  BY <1>1, <1>3, Constants DEF TypeOK, AtMax
<1>5. \A w \in Ways : rrpv'[w] = rrpv[w] + 1
  BY <1>2, <1>3 DEF Aged
<1>6. TypeOK'
  <2>1. rrpv' \in [Ways -> 0 .. rrpvMax]
    BY <1>2, <1>3, <1>4, Constants DEF Aged
  <2>2. 1 \in 1 .. Len(Passes[variant])
    BY <1>1, LoopFacts, FirstPass
  <2>3. QED
    BY <1>1, <1>2, <2>1, <2>2, Constants DEF TypeOK
<1>7. AgedEvenly'
  <2>1. PICK k \in 0 .. rrpvMax : \A w \in Ways : rrpv[w] = ways[w].rrpv + k
    BY DEF IInv, AgedEvenly
  <2>2. 0 \in Ways
    BY Constants DEF Ways
  <2>3. \A w \in Ways : ways[w].rrpv \in 0 .. rrpvMax
    BY <1>1, WayFacts DEF TypeOK
  <2>4. k + 1 \in 0 .. rrpvMax
    BY <1>4, <2>1, <2>2, <2>3, Constants
  <2>5. \A w \in Ways : rrpv'[w] = ways'[w].rrpv + (k + 1)
    BY <1>2, <1>5, <2>1, <2>3
  <2>6. rrip_variant'
    BY <1>2, <1>3 DEF rrip_variant
  <2>7. QED
    BY <2>4, <2>5, <2>6 DEF AgedEvenly
<1>8. EarlierPassesEmpty' /\ BestSoFar' /\ ReturnedBest'
  BY <1>1, <1>2 DEF EarlierPassesEmpty, BestSoFar, ReturnedBest, Ways
<1>9. QED
  BY <1>6, <1>7, <1>8 DEF IInv

LEMMA ReturnStep == IInv /\ Return => IInv'
<1> SUFFICES ASSUME IInv, Return PROVE IInv'
  OBVIOUS
<1>1. /\ victim' = best /\ Found /\ i' = i /\ pass' = pass /\ best' = best
      /\ rrpv' = rrpv /\ ways' = ways /\ variant' = variant
  BY DEF Return, inputs
<1>2. best \in 0 .. n
  BY LoopFacts, Constants DEF IInv, TypeOK
<1>3. QED
  BY <1>1, <1>2 DEF IInv, TypeOK, AgedEvenly, EarlierPassesEmpty, BestSoFar, ReturnedBest,
     NoneOf, Considers, AtMax, rrip_variant, This, Found, Wins, Beats, Older,
     Farther, SameDist, Colder, SameTier

LEMMA StutterStep == IInv /\ UNCHANGED vars => IInv'
BY DEF vars, inputs, IInv, TypeOK, AgedEvenly, EarlierPassesEmpty, BestSoFar, ReturnedBest,
   NoneOf, Considers, AtMax, rrip_variant, This, Found, Wins, Beats, Older,
   Farther, SameDist, Colder, SameTier

(* The loops keep the best way of those they have seen, and age all lines     *)
(* alike and only as long as none has the highest RRPV.                       *)
THEOREM Invariance == Spec => []IInv
<1>1. IInv /\ [Next]_vars => IInv'
  BY ScanStep, NextPassStep, AgeStep, ReturnStep, StutterStep DEF Next
<1>2. QED
  BY InitHolds, <1>1, PTL DEF Spec
-----------------------------------------------------------------------------
(* The highest RRPV of the set when it missed.                                *)
LEMMA HighestIs ==
    ASSUME ways \in [Ways -> WayStates], NEW r \in 0 .. rrpvMax,
           NEW b \in Ways, ways[b].rrpv = r, \A w \in Ways : ways[w].rrpv <= r
    PROVE  Highest = r
<1>1. \A w \in Ways : ways[w].rrpv \in 0 .. rrpvMax
  BY WayFacts
<1>2. \A s \in 0 .. rrpvMax : (\E w \in Ways : ways[w].rrpv = s)
                              /\ (\A w \in Ways : ways[w].rrpv <= s) => s = r
  BY <1>1
<1>3. QED
  BY <1>2 DEF Highest

(* What the way returned has over the others.                                 *)
LEMMA Chosen ==
    ASSUME IInv, victim # None
    PROVE  /\ victim \in Ways /\ Considers(This, victim)
           /\ \A w \in Ways \ {victim} : Considers(This, w) => Wins(This, victim, w)
<1>1. TypeOK /\ BestSoFar /\ victim = best /\ Found /\ best # None
  BY DEF IInv, ReturnedBest
<1>2. best \in Ways /\ best < i /\ i <= n /\ i \in Nat
  BY <1>1, LoopFacts
<1>3. CASE i = n
  <2>1. \A w \in Ways : w < i
    BY <1>3, Constants DEF Ways
  <2>2. QED
    BY <1>1, <1>2, <2>1 DEF BestSoFar
<1>4. CASE ReturnsFirst(This)
  <2>1. \A v, w \in Ways : ~ Beats(This, v, w)
    BY <1>4 DEF ReturnsFirst, Beats, ByAge, ByDist
  <2>2. \A w \in Ways : w < i \/ best < w
    BY <1>2, Constants DEF Ways
  <2>3. QED
    BY <1>1, <1>2, <2>1, <2>2 DEF BestSoFar, Wins
<1>5. QED
  BY <1>1, <1>3, <1>4 DEF Found

(* The ageing of the code adds up to that of the hardware.                    *)
LEMMA HighestReached ==
    ASSUME IInv, victim # None, rrip_variant
    PROVE  /\ Highest \in 0 .. rrpvMax
           /\ \A w \in Ways : rrpv[w] = ways[w].rrpv + (rrpvMax - Highest)
<1>1. PICK k \in 0 .. rrpvMax : \A w \in Ways : rrpv[w] = ways[w].rrpv + k
  BY DEF IInv, AgedEvenly
<1>2. TypeOK /\ victim \in Ways
  BY Chosen DEF IInv
<1>3. \A w \in Ways : ways[w].rrpv \in 0 .. rrpvMax /\ rrpv[w] \in 0 .. rrpvMax
  BY <1>2, WayFacts DEF TypeOK
<1>4. AtMax(victim)
  <2>1. \/ Passes[variant] = <<"first_at_max">>
        \/ Passes[variant] = <<"record_at_max", "property_at_max">>
        \/ Passes[variant] = <<"record_at_max", "degree_at_max">>
    BY PassTable DEF rrip_variant
  <2>2. This \in MaxOnly
    BY <1>2, <2>1 DEF This, MaxOnly, TypeOK
  <2>3. QED
    BY <2>2, Chosen DEF Considers
<1>5. Highest = rrpvMax - k
  <2>1. ways[victim].rrpv = rrpvMax - k
    BY <1>1, <1>2, <1>3, <1>4, Constants DEF AtMax
  <2>2. \A w \in Ways : ways[w].rrpv <= rrpvMax - k
    BY <1>1, <1>3, Constants
  <2>3. rrpvMax - k \in 0 .. rrpvMax
    BY Constants
  <2>4. QED
    BY <1>2, <2>1, <2>2, <2>3, HighestIs DEF TypeOK
<1>6. QED
  BY <1>1, <1>5, Constants

LEMMA AgingFromInvariant == IInv => AgingIsHardwares
<1> SUFFICES ASSUME IInv, victim # None PROVE rrpv = HwAged
  BY DEF AgingIsHardwares
<1>1. TypeOK
  BY DEF IInv
<1>2. CASE rrip_variant
  BY <1>1, <1>2, HighestReached DEF HwAged, TypeOK
<1>3. CASE ~ rrip_variant
  <2>1. \A w \in Ways : rrpv[w] = ways[w].rrpv + 0
    BY <1>3, Constants DEF IInv, AgedEvenly
  <2>2. QED
    BY <1>1, <1>3, <2>1 DEF HwAged, TypeOK
<1>4. QED
  BY <1>2, <1>3

(* The RRPVs left behind are those the hardware writes back, for every number *)
(* of ways and every RRPV width (the ageing of selectVictim).                 *)
THEOREM AgingHolds == Spec => []AgingIsHardwares
BY Invariance, AgingFromInvariant, PTL

(* The lines the loops call at the maximum are those of the highest RRPV when *)
(* the set missed.                                                            *)
LEMMA MaxWaysAreAtMax ==
    ASSUME IInv, victim # None, rrip_variant
    PROVE  \A w \in Ways : AtMax(w) <=> w \in MaxWays
<1>1. TypeOK
  BY DEF IInv
<1>2. \A w \in Ways : ways[w].rrpv \in 0 .. rrpvMax /\ rrpv[w] \in 0 .. rrpvMax
  BY <1>1, WayFacts DEF TypeOK
<1>3. QED
  BY <1>2, HighestReached, Constants DEF AtMax, MaxWays
-----------------------------------------------------------------------------
LEMMA PrecedesIs ==
    ASSUME NEW a \in Int, NEW b \in Int, NEW c \in Int,
           NEW d \in Int, NEW e \in Int, NEW f \in Int
    PROVE  Precedes(<<a, b, c>>, <<d, e, f>>) <=>
               a < d \/ (a = d /\ b < e) \/ (a = d /\ b = e /\ c < f)
<1>1. (\E k \in 1 .. 3 : <<a, b, c>>[k] < <<d, e, f>>[k]
                         /\ \A j \in 1 .. k - 1 : <<a, b, c>>[j] = <<d, e, f>>[j])
      <=> \/ a < d
          \/ b < e /\ \A j \in 1 .. 1 : <<a, b, c>>[j] = <<d, e, f>>[j]
          \/ c < f /\ \A j \in 1 .. 2 : <<a, b, c>>[j] = <<d, e, f>>[j]
  <2>1. 1 .. 3 = {1, 2, 3} /\ 1 .. 1 - 1 = {} /\ 2 - 1 = 1 /\ 3 - 1 = 2
    OBVIOUS
  <2>2. QED
    BY <2>1
<1>2. (\A j \in 1 .. 1 : <<a, b, c>>[j] = <<d, e, f>>[j]) <=> a = d
  <2>1. 1 .. 1 = {1}
    OBVIOUS
  <2>2. QED
    BY <2>1
<1>3. (\A j \in 1 .. 2 : <<a, b, c>>[j] = <<d, e, f>>[j]) <=> a = d /\ b = e
  <2>1. 1 .. 2 = {1, 2}
    OBVIOUS
  <2>2. QED
    BY <2>1
<1>4. QED
  BY <1>1, <1>2, <1>3 DEF Precedes

(* Each key selects the way that wins by it.                                  *)
LEMMA SelectSetOrder ==
    ASSUME NEW S \in SUBSET Ways, NEW b \in S, \A w \in S \ {b} : b < w
    PROVE  Select(S, SetOrder) = b
<1>1. \A v, w \in S : Precedes(SetOrder(v), SetOrder(w)) \/ (SetOrder(v) = SetOrder(w) /\ v < w)
                      <=> v < w
  BY PrecedesIs DEF SetOrder
<1>2. \A w \in S : w \in Int
  BY Constants DEF Ways
<1>3. \A c \in S : (\A v \in S \ {c} : c < v) => c = b
  BY <1>2
<1>4. QED
  BY <1>1, <1>3 DEF Select

LEMMA SelectByRecency ==
    ASSUME ways \in [Ways -> WayStates], NEW S \in SUBSET Ways, NEW b \in S,
           \A w \in S \ {b} : ~ Older(w, b) /\ (Older(b, w) \/ b < w)
    PROVE  Select(S, ByRecency) = b
<1> DEFINE Before(v, w) == Older(v, w) \/ (~ Older(w, v) /\ v < w)
<1>1. \A w \in S : w \in Int /\ ways[w].recency \in Int
  BY WayFacts, Constants DEF Ways
<1>2. \A v, w \in S : Precedes(ByRecency(v), ByRecency(w)) \/ (ByRecency(v) = ByRecency(w) /\ v < w)
                      <=> Before(v, w)
  <2> SUFFICES ASSUME NEW v \in S, NEW w \in S
               PROVE  Precedes(ByRecency(v), ByRecency(w)) \/ (ByRecency(v) = ByRecency(w) /\ v < w)
                      <=> Before(v, w)
    OBVIOUS
  <2>1. Precedes(ByRecency(v), ByRecency(w)) <=> ways[v].recency < ways[w].recency
    BY <1>1, PrecedesIs DEF ByRecency
  <2>2. ByRecency(v) = ByRecency(w) <=> ways[v].recency = ways[w].recency
    BY DEF ByRecency
  <2>3. QED
    BY <1>1, <2>1, <2>2 DEF Older
<1>3. \A w \in S \ {b} : Before(b, w) /\ ~ Before(w, b)
  BY <1>1 DEF Older
<1> HIDE DEF Before
<1>4. QED
  BY <1>2, <1>3 DEF Select

LEMMA SelectByDistance ==
    ASSUME ways \in [Ways -> WayStates], NEW S \in SUBSET Ways, NEW b \in S,
           \A w \in S \ {b} : ~ Farther(w, b) /\ (Farther(b, w) \/ b < w)
    PROVE  Select(S, ByDistance) = b
<1> DEFINE Before(v, w) == Farther(v, w) \/ (~ Farther(w, v) /\ v < w)
<1>1. \A w \in S : w \in Int /\ HwDist(w) \in Int /\ HwDist(w) = effDist(ways[w])
  BY WayFacts, Constants DEF Ways, HwDist, effDist
<1>2. \A v, w \in S : Precedes(ByDistance(v), ByDistance(w)) \/ (ByDistance(v) = ByDistance(w) /\ v < w)
                      <=> Before(v, w)
  <2> SUFFICES ASSUME NEW v \in S, NEW w \in S
               PROVE  Precedes(ByDistance(v), ByDistance(w)) \/ (ByDistance(v) = ByDistance(w) /\ v < w)
                      <=> Before(v, w)
    OBVIOUS
  <2>1. Precedes(ByDistance(v), ByDistance(w)) <=> HwDist(v) > HwDist(w)
    <3>1. - HwDist(v) \in Int /\ - HwDist(w) \in Int
      BY <1>1
    <3>2. Precedes(ByDistance(v), ByDistance(w)) <=> - HwDist(v) < - HwDist(w)
      BY <3>1, PrecedesIs DEF ByDistance
    <3>3. QED
      BY <1>1, <3>2
  <2>2. ByDistance(v) = ByDistance(w) <=> HwDist(v) = HwDist(w)
    <3>1. ByDistance(v) = ByDistance(w) <=> - HwDist(v) = - HwDist(w)
      BY DEF ByDistance
    <3>2. QED
      BY <1>1, <3>1
  <2>3. QED
    BY <1>1, <2>1, <2>2 DEF Farther
<1>3. \A w \in S \ {b} : Before(b, w) /\ ~ Before(w, b)
  BY <1>1 DEF Farther
<1> HIDE DEF Before
<1>4. QED
  BY <1>2, <1>3 DEF Select

LEMMA SelectByDistanceThenTier ==
    ASSUME ways \in [Ways -> WayStates], NEW S \in SUBSET Ways, NEW b \in S,
           \A w \in S \ {b} : Wins("farthest", b, w)
    PROVE  Select(S, ByDistanceThenTier) = b
<1> DEFINE Over(v, w) == HwDist(v) > HwDist(w) \/ (HwDist(v) = HwDist(w) /\ ways[v].dbg > ways[w].dbg)
           Before(v, w) == Over(v, w) \/ (~ Over(w, v) /\ v < w)
<1>1. \A w \in S : /\ w \in Int /\ HwDist(w) \in Int /\ HwDist(w) = effDist(ways[w])
                   /\ ways[w].dbg \in Int
                   /\ - HwDist(w) \in Int /\ - ways[w].dbg \in Int
  BY WayFacts, Constants DEF Ways, HwDist, effDist
<1>2. \A v, w \in S : Precedes(ByDistanceThenTier(v), ByDistanceThenTier(w))
                      \/ (ByDistanceThenTier(v) = ByDistanceThenTier(w) /\ v < w)
                      <=> Before(v, w)
  <2> SUFFICES ASSUME NEW v \in S, NEW w \in S
               PROVE  Precedes(ByDistanceThenTier(v), ByDistanceThenTier(w))
                      \/ (ByDistanceThenTier(v) = ByDistanceThenTier(w) /\ v < w)
                      <=> Before(v, w)
    OBVIOUS
  <2>1. Precedes(ByDistanceThenTier(v), ByDistanceThenTier(w)) <=> Over(v, w)
    <3>0. /\ - HwDist(v) \in Int /\ - HwDist(w) \in Int
          /\ - ways[v].dbg \in Int /\ - ways[w].dbg \in Int
          /\ 0 \in Int
      BY <1>1
    <3>1. Precedes(ByDistanceThenTier(v), ByDistanceThenTier(w)) <=>
             \/ - HwDist(v) < - HwDist(w)
             \/ - HwDist(v) = - HwDist(w) /\ - ways[v].dbg < - ways[w].dbg
      <4> DEFINE v1 == - HwDist(v)
                 v2 == - ways[v].dbg
                 w1 == - HwDist(w)
                 w2 == - ways[w].dbg
      <4>1. v1 \in Int /\ v2 \in Int /\ w1 \in Int /\ w2 \in Int
        BY <3>0
      <4>2. ByDistanceThenTier(v) = <<v1, v2, 0>> /\ ByDistanceThenTier(w) = <<w1, w2, 0>>
        BY DEF ByDistanceThenTier
      <4> HIDE DEF v1, v2, w1, w2
      <4>3. Precedes(<<v1, v2, 0>>, <<w1, w2, 0>>) <=> v1 < w1 \/ (v1 = w1 /\ v2 < w2)
        BY <4>1, PrecedesIs
      <4>4. QED
        BY <4>2, <4>3 DEF v1, v2, w1, w2
    <3>2. QED
      BY <1>1, <3>1
  <2>2. ByDistanceThenTier(v) = ByDistanceThenTier(w) <=>
            HwDist(v) = HwDist(w) /\ ways[v].dbg = ways[w].dbg
    <3>1. ByDistanceThenTier(v) = ByDistanceThenTier(w) <=>
              - HwDist(v) = - HwDist(w) /\ - ways[v].dbg = - ways[w].dbg
      BY DEF ByDistanceThenTier
    <3>2. QED
      BY <1>1, <3>1
  <2>3. QED
    BY <1>1, <2>1, <2>2
<1>3. \A w \in S \ {b} : Before(b, w) /\ ~ Before(w, b)
  BY <1>1 DEF Wins, Beats, ByAge, ByDist, Farther, SameDist, Colder
<1> HIDE DEF Before
<1>4. QED
  BY <1>2, <1>3 DEF Select

LEMMA SelectByTier ==
    ASSUME ways \in [Ways -> WayStates], NEW S \in SUBSET Ways, NEW b \in S,
           \A w \in S \ {b} : Wins("degree_at_max", b, w)
    PROVE  Select(S, ByTier) = b
<1> DEFINE Over(v, w) == \/ ways[v].dbg > ways[w].dbg
                         \/ ways[v].dbg = ways[w].dbg /\ HwDist(v) > HwDist(w)
                         \/ /\ ways[v].dbg = ways[w].dbg /\ HwDist(v) = HwDist(w)
                            /\ ways[v].recency < ways[w].recency
           Before(v, w) == Over(v, w) \/ (~ Over(w, v) /\ v < w)
<1>1. \A w \in S : /\ w \in Int /\ HwDist(w) \in Int /\ HwDist(w) = effDist(ways[w])
                   /\ ways[w].dbg \in Int /\ ways[w].recency \in Int
                   /\ - HwDist(w) \in Int /\ - ways[w].dbg \in Int
  BY WayFacts, Constants DEF Ways, HwDist, effDist
<1>2. \A v, w \in S : Precedes(ByTier(v), ByTier(w)) \/ (ByTier(v) = ByTier(w) /\ v < w)
                      <=> Before(v, w)
  <2> SUFFICES ASSUME NEW v \in S, NEW w \in S
               PROVE  Precedes(ByTier(v), ByTier(w)) \/ (ByTier(v) = ByTier(w) /\ v < w)
                      <=> Before(v, w)
    OBVIOUS
  <2>1. Precedes(ByTier(v), ByTier(w)) <=> Over(v, w)
    <3>1. Precedes(ByTier(v), ByTier(w)) <=>
             \/ - ways[v].dbg < - ways[w].dbg
             \/ - ways[v].dbg = - ways[w].dbg /\ - HwDist(v) < - HwDist(w)
             \/ /\ - ways[v].dbg = - ways[w].dbg /\ - HwDist(v) = - HwDist(w)
                /\ ways[v].recency < ways[w].recency
      <4> DEFINE v1 == - ways[v].dbg
                 v2 == - HwDist(v)
                 v3 == ways[v].recency
                 w1 == - ways[w].dbg
                 w2 == - HwDist(w)
                 w3 == ways[w].recency
      <4>1. /\ v1 \in Int /\ v2 \in Int /\ w1 \in Int /\ w2 \in Int
            /\ v3 \in Int /\ w3 \in Int
        BY <1>1
      <4>2. ByTier(v) = <<v1, v2, v3>> /\ ByTier(w) = <<w1, w2, w3>>
        BY DEF ByTier
      <4> HIDE DEF v1, v2, w1, w2, v3, w3
      <4>3. Precedes(<<v1, v2, v3>>, <<w1, w2, w3>>) <=>
                v1 < w1 \/ (v1 = w1 /\ v2 < w2) \/ (v1 = w1 /\ v2 = w2 /\ v3 < w3)
        BY <4>1, PrecedesIs
      <4>4. QED
        BY <4>2, <4>3 DEF v1, v2, w1, w2, v3, w3
    <3>2. QED
      BY <1>1, <3>1
  <2>2. ByTier(v) = ByTier(w) <=>
            /\ ways[v].dbg = ways[w].dbg /\ HwDist(v) = HwDist(w)
            /\ ways[v].recency = ways[w].recency
    <3>1. ByTier(v) = ByTier(w) <=>
              /\ - ways[v].dbg = - ways[w].dbg /\ - HwDist(v) = - HwDist(w)
              /\ ways[v].recency = ways[w].recency
      BY DEF ByTier
    <3>2. QED
      BY <1>1, <3>1
  <2>3. QED
    BY <1>1, <2>1, <2>2
<1>3. \A w \in S \ {b} : Before(b, w) /\ ~ Before(w, b)
  BY <1>1 DEF Wins, Beats, ByAge, ByDist, Farther, SameDist, Colder, SameTier, Older
<1> HIDE DEF Before
<1>4. QED
  BY <1>2, <1>3 DEF Select
-----------------------------------------------------------------------------
(* The way returned is the one the hardware computes, variant by variant.     *)
LEMMA VictimFromInvariant == IInv => VictimIsHardwares
<1> SUFFICES ASSUME IInv, victim # None PROVE victim = HwVictim
  BY DEF VictimIsHardwares
<1>1. /\ victim \in Ways /\ Considers(This, victim)
      /\ \A w \in Ways \ {victim} : Considers(This, w) => Wins(This, victim, w)
  BY Chosen
<1>2. /\ ways \in [Ways -> WayStates] /\ variant \in DOMAIN Passes
      /\ pass \in 1 .. Len(Passes[variant]) /\ EarlierPassesEmpty
  BY LoopFacts DEF IInv, TypeOK
<1>3. \A w \in Ways : ways[w].stamped => ways[w].prop
  BY <1>2, WayFacts
<1> USE DEF MaxOnly, RecordsOnly, PropertyOnly
<1>4. CASE variant = "GRASP_ONLY"
  <2>1. This = "first_at_max"
    <3>1. Passes[variant] = <<"first_at_max">>
      BY <1>4, PassTable
    <3>2. QED
      BY <1>2, <3>1 DEF This
  <2>2. \A w \in Ways : Considers(This, w) <=> w \in MaxWays
    BY <1>4, <2>1, MaxWaysAreAtMax DEF Considers, rrip_variant
  <2>3. \A w \in MaxWays \ {victim} : victim < w
    BY <1>1, <2>1, <2>2 DEF Wins, Beats, ByAge, ByDist, MaxWays
  <2>4. Select(MaxWays, SetOrder) = victim
    BY <1>1, <2>2, <2>3, SelectSetOrder DEF MaxWays
  <2>5. QED
    BY <1>4, <2>4 DEF HwVictim
<1>5. CASE variant = "LRU_ONLY"
  <2>1. This = "any"
    <3>1. Passes[variant] = <<"any">>
      BY <1>5, PassTable
    <3>2. QED
      BY <1>2, <3>1 DEF This
  <2>2. \A w \in Ways \ {victim} : ~ Older(w, victim) /\ (Older(victim, w) \/ victim < w)
    BY <1>1, <2>1 DEF Considers, Wins, Beats, ByAge, ByDist
  <2>3. Select(Ways, ByRecency) = victim
    BY <1>1, <1>2, <2>2, SelectByRecency
  <2>4. QED
    BY <1>5, <2>3 DEF HwVictim
<1>6. CASE variant = "SHORTCIRCUIT"
  <2>1. Passes[variant] = <<"first_record", "farthest">>
    BY <1>6, PassTable
  <2>2. CASE pass = 1
    <3>1. This = "first_record"
      BY <2>1, <2>2 DEF This
    <3>2. \A w \in Ways : Considers(This, w) <=> w \in Records
      BY <3>1 DEF Considers, Records
    <3>3. \A w \in Records \ {victim} : victim < w
      BY <1>1, <3>1, <3>2 DEF Wins, Beats, ByAge, ByDist, Records
    <3>4. Select(Records, SetOrder) = victim /\ Records # {}
      BY <1>1, <3>2, <3>3, SelectSetOrder DEF Records
    <3>5. QED
      BY <1>6, <3>4 DEF HwVictim
  <2>3. CASE pass = 2
    <3>1. This = "farthest" /\ NoneOf("first_record")
      <4>1. 1 \in 1 .. pass - 1
        BY <2>3
      <4>2. QED
        BY <1>2, <2>1, <2>3, <4>1 DEF This, EarlierPassesEmpty
    <3>2. Records = {}
      BY <3>1 DEF NoneOf, Considers, Records
    <3>3. \A w \in Ways \ {victim} : Wins("farthest", victim, w)
      BY <1>1, <3>1 DEF Considers
    <3>4. Select(Ways, ByDistanceThenTier) = victim
      BY <1>1, <1>2, <3>3, SelectByDistanceThenTier
    <3>5. QED
      BY <1>6, <3>2, <3>4 DEF HwVictim
  <2>4. QED
    BY <1>2, <2>1, <2>2, <2>3
<1>7. CASE variant \in {"EPOCH_FIRST", "EPOCH_ONLY"}
  <2>1. Passes[variant] = <<"record", "stamped", "any">>
    BY <1>7, PassTable
  <2>2. CASE pass = 1
    <3>1. This = "record"
      BY <2>1, <2>2 DEF This
    <3>2. \A w \in Ways : Considers(This, w) <=> w \in Records
      BY <3>1 DEF Considers, Records
    <3>3. \A w \in Records \ {victim} : ~ Older(w, victim) /\ (Older(victim, w) \/ victim < w)
      BY <1>1, <3>1, <3>2 DEF Wins, Beats, ByAge, ByDist, Records
    <3>4. Select(Records, ByRecency) = victim /\ Records # {}
      BY <1>1, <1>2, <3>2, <3>3, SelectByRecency DEF Records
    <3>5. QED
      BY <1>7, <3>4 DEF HwVictim
  <2>3. CASE pass = 2
    <3>1. This = "stamped" /\ NoneOf("record")
      <4>1. 1 \in 1 .. pass - 1
        BY <2>3
      <4>2. QED
        BY <1>2, <2>1, <2>3, <4>1 DEF This, EarlierPassesEmpty
    <3>2. Records = {}
      BY <3>1 DEF NoneOf, Considers, Records
    <3>3. \A w \in Ways : Considers(This, w) <=> w \in Stamped
      BY <3>1 DEF Considers, Stamped
    <3>4. \A w \in Stamped \ {victim} : ~ Farther(w, victim) /\ (Farther(victim, w) \/ victim < w)
      BY <1>1, <3>1, <3>3 DEF Wins, Beats, ByAge, ByDist, Stamped
    <3>5. Select(Stamped, ByDistance) = victim /\ Stamped # {}
      BY <1>1, <1>2, <3>3, <3>4, SelectByDistance DEF Stamped
    <3>6. QED
      BY <1>7, <3>2, <3>5 DEF HwVictim
  <2>4. CASE pass = 3
    <3>1. This = "any" /\ NoneOf("record") /\ NoneOf("stamped")
      <4>1. 1 \in 1 .. pass - 1 /\ 2 \in 1 .. pass - 1
        BY <2>4
      <4>2. QED
        BY <1>2, <2>1, <2>4, <4>1 DEF This, EarlierPassesEmpty
    <3>2. Records = {} /\ Stamped = {}
      BY <3>1 DEF NoneOf, Considers, Records, Stamped
    <3>3. \A w \in Ways \ {victim} : ~ Older(w, victim) /\ (Older(victim, w) \/ victim < w)
      BY <1>1, <3>1 DEF Considers, Wins, Beats, ByAge, ByDist
    <3>4. Select(Ways, ByRecency) = victim
      BY <1>1, <1>2, <3>3, SelectByRecency
    <3>5. QED
      BY <1>7, <3>2, <3>4 DEF HwVictim
  <2>5. QED
    BY <1>2, <2>1, <2>2, <2>3, <2>4
<1>8. CASE variant \in {"RRIP_FIRST", "DEGREE_FIRST"}
  <2>1. \A w \in Ways : AtMax(w) <=> w \in MaxWays
    BY <1>8, MaxWaysAreAtMax DEF rrip_variant
  <2>2. /\ Len(Passes[variant]) = 2 /\ Passes[variant][1] = "record_at_max"
        /\ variant = "RRIP_FIRST" => Passes[variant][2] = "property_at_max"
        /\ variant = "DEGREE_FIRST" => Passes[variant][2] = "degree_at_max"
    BY <1>8, PassTable
  <2>3. CASE pass = 1
    <3>1. This = "record_at_max"
      BY <2>2, <2>3 DEF This
    <3>2. \A w \in Ways : Considers(This, w) <=> w \in Records \cap MaxWays
      BY <2>1, <3>1 DEF Considers, Records
    <3>3. \A w \in (Records \cap MaxWays) \ {victim} :
              ~ Older(w, victim) /\ (Older(victim, w) \/ victim < w)
      BY <1>1, <3>1, <3>2 DEF Wins, Beats, ByAge, ByDist, Records
    <3>4. Select(Records \cap MaxWays, ByRecency) = victim /\ Records \cap MaxWays # {}
      BY <1>1, <1>2, <3>2, <3>3, SelectByRecency DEF Records
    <3>5. QED
      BY <1>8, <3>4 DEF HwVictim
  <2>4. CASE pass = 2
    <3>1. NoneOf("record_at_max")
      <4>1. 1 \in 1 .. pass - 1
        BY <2>4
      <4>2. QED
        BY <1>2, <2>2, <4>1 DEF EarlierPassesEmpty
    <3>2. Records \cap MaxWays = {}
      BY <2>1, <3>1 DEF NoneOf, Considers, Records
    <3>3. \A w \in MaxWays : w \in Ways /\ ways[w].prop
      BY <3>2 DEF Records, MaxWays
    <3>4. CASE variant = "RRIP_FIRST"
      <4>1. This = "property_at_max"
        BY <2>2, <2>4, <3>4 DEF This
      <4>2. \A w \in Ways : Considers(This, w) <=> w \in MaxWays
        BY <2>1, <3>3, <4>1 DEF Considers
      <4>3. \A w \in MaxWays \ {victim} : ~ Farther(w, victim) /\ (Farther(victim, w) \/ victim < w)
        BY <1>1, <3>3, <4>1, <4>2 DEF Wins, Beats, ByAge, ByDist
      <4>4. Select(MaxWays, ByDistance) = victim
        BY <1>1, <1>2, <3>3, <4>2, <4>3, SelectByDistance
      <4>5. QED
        BY <3>2, <3>4, <4>4 DEF HwVictim
    <3>5. CASE variant = "DEGREE_FIRST"
      <4>1. This = "degree_at_max"
        BY <2>2, <2>4, <3>5 DEF This
      <4>2. \A w \in Ways : Considers(This, w) <=> w \in MaxWays
        BY <2>1, <3>3, <4>1 DEF Considers
      <4>3. \A w \in MaxWays \ {victim} : Wins("degree_at_max", victim, w)
        BY <1>1, <3>3, <4>1, <4>2
      <4>4. Select(MaxWays, ByTier) = victim
        BY <1>1, <1>2, <3>3, <4>2, <4>3, SelectByTier
      <4>5. QED
        BY <3>2, <3>5, <4>4 DEF HwVictim
    <3>6. QED
      BY <1>8, <3>4, <3>5
  <2>5. QED
    BY <1>2, <2>2, <2>3, <2>4
<1>9. QED
  BY <1>2, <1>4, <1>5, <1>6, <1>7, <1>8, PassTable

(* The victim of the scans and retries is the hardware's, for every number of *)
(* ways, every RRPV width, every variant and every state of the lines         *)
(* (selectVictim and reuse_plan_victim_select).                               *)
THEOREM VictimHolds == Spec => []VictimIsHardwares
BY Invariance, VictimFromInvariant, PTL

-----------------------------------------------------------------------------
(* Recency: the ranks and the stamps.                                         *)

(* RankIsAccessOrder speaks of the valid ways only and is not inductive: a    *)
(* step needs the ranks of all ways to be distinct, and the stamps of the     *)
(* valid ways to be distinct and below the next stamp.                        *)
StampsBelowTime ==
    /\ \A w \in valid : last_access[w] < global_time
    /\ \A v, w \in valid : last_access[v] = last_access[w] => v = w

RankIInv == RankTypeOK /\ RanksArePermutation /\ RankIsAccessOrder /\ StampsBelowTime

LEMMA WaysPositive == WAYS \in Nat /\ WAYS > 0 /\ MaxAccesses \in Nat
BY RankWaysAssumption, MaxAccessesAssumption

(* The ways are used below as a set of integers whose bounds matter only      *)
(* where the victim of equal ranks is chosen.                                 *)
LEMMA WaysAreIntegers == RankWays \subseteq Int /\ \A w \in RankWays : w \in 0 .. WAYS - 1
BY DEF RankWays

LEMMA InitIInv == RankInit => RankIInv
PROOF
<1> SUFFICES ASSUME RankInit PROVE RankIInv
  OBVIOUS
<1>1. RankTypeOK
  BY WaysPositive, SMT DEF RankInit, RankTypeOK, RankWays
<1>2. RanksArePermutation
  BY SMT DEF RankInit, RanksArePermutation, RankWays
<1>3. RankIsAccessOrder /\ StampsBelowTime
  BY DEF RankInit, RankIsAccessOrder, StampsBelowTime
<1> QED BY <1>1, <1>2, <1>3 DEF RankIInv

(* What the update gives each way.                                            *)
LEMMA TouchedValue ==
    ASSUME NEW r \in [RankWays -> 0 .. WAYS - 1], NEW a \in RankWays
    PROVE  /\ Touched(r, a)[a] = WAYS - 1
           /\ \A w \in RankWays : w # a /\ r[w] > r[a] => Touched(r, a)[w] = r[w] - 1
           /\ \A w \in RankWays : w # a /\ r[w] <= r[a] => Touched(r, a)[w] = r[w]
PROOF
<1>1. \A w \in RankWays : r[w] \in 0 .. WAYS - 1
  OBVIOUS
<1> QED BY <1>1, WaysPositive, SMT DEF Touched, NewestRank

LEMMA TouchedType ==
    ASSUME NEW r \in [RankWays -> 0 .. WAYS - 1], NEW a \in RankWays
    PROVE  Touched(r, a) \in [RankWays -> 0 .. WAYS - 1]
PROOF
<1>1. \A w \in RankWays : r[w] \in 0 .. WAYS - 1
  OBVIOUS
<1>2. ASSUME NEW w \in RankWays
      PROVE  Touched(r, a)[w] \in 0 .. WAYS - 1
  BY <1>1, WaysPositive, TouchedValue, SMT
<1>3. Touched(r, a) = [w \in RankWays |-> Touched(r, a)[w]]
  BY DEF Touched
<1> QED BY <1>2, <1>3

(* The update keeps the ranks a permutation, whichever way is accessed.       *)
LEMMA TouchedIsPermutation ==
    ASSUME RankTypeOK, RanksArePermutation, NEW a \in RankWays, rank' = Touched(rank, a)
    PROVE  RanksArePermutation'
PROOF
<1>1. rank \in [RankWays -> 0 .. WAYS - 1]
  BY DEF RankTypeOK
<1>2. \A w \in RankWays : rank[w] \in 0 .. WAYS - 1
  BY <1>1
<1>3. /\ rank'[a] = WAYS - 1
      /\ \A w \in RankWays : w # a /\ rank[w] > rank[a] => rank'[w] = rank[w] - 1
      /\ \A w \in RankWays : w # a /\ rank[w] <= rank[a] => rank'[w] = rank[w]
  BY <1>1, TouchedValue
<1>4. ASSUME NEW v \in RankWays, NEW w \in RankWays, rank'[v] = rank'[w]
      PROVE  v = w
  BY <1>2, <1>3, <1>4, WaysPositive, SMT DEF RanksArePermutation
<1>5. ASSUME NEW r \in 0 .. WAYS - 1
      PROVE  \E w \in RankWays : rank'[w] = r
  <2>1. CASE r = WAYS - 1
    BY <2>1, <1>3
  <2>2. CASE r < rank[a]
    <3>1. PICK w \in RankWays : rank[w] = r
      BY DEF RanksArePermutation
    <3>2. rank'[w] = r
      BY <2>2, <3>1, <1>2, <1>3, SMT
    <3> QED BY <3>2
  <2>3. CASE rank[a] <= r /\ r < WAYS - 1
    <3>0. r + 1 \in 0 .. WAYS - 1
      BY <2>3, WaysPositive, SMT
    <3>1. PICK w \in RankWays : rank[w] = r + 1
      BY <3>0 DEF RanksArePermutation
    <3>2. w # a /\ rank[w] > rank[a]
      BY <2>3, <3>1, <1>2, SMT
    <3>3. rank'[w] = r
      BY <3>1, <3>2, <1>3, SMT
    <3> QED BY <3>3
  <2> QED BY <2>1, <2>2, <2>3, <1>2, WaysPositive, SMT
<1> QED BY <1>4, <1>5 DEF RanksArePermutation

(* The update keeps the two orders equal on any set of ways whose other       *)
(* members were valid.                                                        *)
LEMMA TouchKeepsOrder ==
    ASSUME RankIInv, NEW a \in RankWays, Touch(a), valid' \subseteq valid \cup {a}
    PROVE  RankIsAccessOrder' /\ StampsBelowTime'
PROOF
<1>1. /\ rank \in [RankWays -> 0 .. WAYS - 1]
      /\ \A w \in RankWays : rank[w] \in 0 .. WAYS - 1
      /\ \A w \in RankWays : last_access[w] \in Nat
      /\ global_time \in Nat
      /\ valid \subseteq RankWays
  BY WaysPositive, SMT DEF RankIInv, RankTypeOK
<1>2. /\ rank'[a] = WAYS - 1
      /\ \A w \in RankWays : w # a /\ rank[w] > rank[a] => rank'[w] = rank[w] - 1
      /\ \A w \in RankWays : w # a /\ rank[w] <= rank[a] => rank'[w] = rank[w]
  BY <1>1, TouchedValue DEF Touch
<1>3. /\ last_access'[a] = global_time
      /\ \A w \in RankWays : w # a => last_access'[w] = last_access[w]
      /\ global_time' = global_time + 1
  BY DEF Touch, RankIInv, RankTypeOK
<1>4. \A w \in valid : last_access[w] < global_time
  BY DEF RankIInv, StampsBelowTime
<1>5. StampsBelowTime'
  <2>1. ASSUME NEW w \in valid'
        PROVE  last_access'[w] < global_time'
    BY <1>1, <1>3, <1>4, SMT
  <2>2. ASSUME NEW v \in valid', NEW w \in valid', last_access'[v] = last_access'[w]
        PROVE  v = w
    BY <2>2, <1>1, <1>3, <1>4, SMT DEF RankIInv, StampsBelowTime
  <2> QED BY <2>1, <2>2 DEF StampsBelowTime
<1>6. \A v, w \in RankWays : rank[v] = rank[w] => v = w
  BY DEF RankIInv, RanksArePermutation
<1>7. ASSUME NEW v \in valid', NEW w \in valid'
      PROVE  rank'[v] < rank'[w] <=> last_access'[v] < last_access'[w]
  <2>0. v \in RankWays /\ w \in RankWays /\ (v # a => v \in valid) /\ (w # a => w \in valid)
    BY <1>1
  <2>1. CASE v = a
    BY <2>0, <2>1, <1>1, <1>2, <1>3, <1>4, <1>6, WaysPositive, SMT
  <2>2. CASE w = a /\ v # a
    BY <2>0, <2>2, <1>1, <1>2, <1>3, <1>4, <1>6, WaysPositive, SMT
  <2>3. CASE v # a /\ w # a
    <3>1. rank[v] < rank[w] <=> last_access[v] < last_access[w]
      BY <2>0, <2>3 DEF RankIInv, RankIsAccessOrder
    <3>2. rank[v] # rank[a] /\ rank[w] # rank[a]
      BY <2>0, <2>3, <1>6
    <3> QED BY <3>1, <3>2, <2>0, <2>3, <1>1, <1>2, <1>3, SMT
  <2> QED BY <2>1, <2>2, <2>3
<1> QED BY <1>5, <1>7 DEF RankIsAccessOrder

LEMMA TouchTypeOK ==
    ASSUME RankIInv, NEW a \in RankWays, Touch(a), valid' \subseteq valid \cup {a}
    PROVE  RankTypeOK' /\ RanksArePermutation'
PROOF
<1>1. rank' \in [RankWays -> 0 .. WAYS - 1] /\ RanksArePermutation'
  BY TouchedIsPermutation, TouchedType DEF RankIInv, Touch, RankTypeOK
<1>2. /\ global_time' \in 0 .. MaxAccesses
      /\ last_access' \in [RankWays -> 0 .. MaxAccesses]
      /\ valid' \subseteq RankWays
  BY WaysPositive, SMT DEF RankIInv, RankTypeOK, Touch
<1> QED BY <1>1, <1>2 DEF RankTypeOK

LEMMA NextIInv == RankIInv /\ [RankNext]_rankVars => RankIInv'
PROOF
<1> SUFFICES ASSUME RankIInv, [RankNext]_rankVars PROVE RankIInv'
  OBVIOUS
<1>1. CASE Reset
  <2>1. RankInit'
    BY <1>1 DEF Reset, RankInit
  <2> QED BY <2>1, InitIInv, PTL
<1>2. CASE Fill
  <2>1. PICK a \in RankWays : Touch(a) /\ valid' = valid \cup {a}
    BY <1>2 DEF Fill
  <2> QED BY <2>1, TouchKeepsOrder, TouchTypeOK DEF RankIInv
<1>3. ASSUME NEW a \in RankWays, Hit(a)
      PROVE  RankIInv'
  <2>1. Touch(a) /\ valid' \subseteq valid \cup {a}
    BY <1>3 DEF Hit
  <2> QED BY <2>1, TouchKeepsOrder, TouchTypeOK DEF RankIInv
<1>4. ASSUME NEW a \in RankWays, Invalidate(a)
      PROVE  RankIInv'
  BY <1>4, SMT DEF Invalidate, RankIInv, RankTypeOK, RanksArePermutation,
                   RankIsAccessOrder, StampsBelowTime
<1>5. CASE UNCHANGED rankVars
  BY <1>5 DEF rankVars, RankIInv, RankTypeOK, RanksArePermutation, RankIsAccessOrder,
              StampsBelowTime
<1> QED BY <1>1, <1>2, <1>3, <1>4, <1>5 DEF RankNext

(* RankTypeOK, RanksArePermutation, RankIsAccessOrder and the stamps' freshness   *)
(* hold together in every reachable state of the set.                         *)
THEOREM RankInvariance == RankSpec => []RankIInv
PROOF
<1>1. RankInit => RankIInv
  BY InitIInv
<1>2. RankIInv /\ [RankNext]_rankVars => RankIInv'
  BY NextIInv
<1> QED BY <1>1, <1>2, PTL DEF RankSpec

(* No rank is lost or doubled by reuse_plan_recency_rank_update, for every    *)
(* associativity.                                                             *)
THEOREM PermutationHolds == RankSpec => []RanksArePermutation
PROOF
<1>1. RankIInv => RanksArePermutation
  BY DEF RankIInv
<1> QED BY <1>1, RankInvariance, PTL

(* The hardware's ranks order the lines of a set as the simulator's stamps.   *)
THEOREM OrderHolds == RankSpec => []RankIsAccessOrder
PROOF
<1>1. RankIInv => RankIsAccessOrder
  BY DEF RankIInv
<1> QED BY <1>1, RankInvariance, PTL

(* When every way is valid the least recently used one is the same in both    *)
(* views, so the hardware and the simulator evict the same line.              *)
LEMMA OrderGivesVictim == RankIInv => SameVictim
PROOF
<1> SUFFICES ASSUME RankIInv PROVE SameVictim
  OBVIOUS
<1>1. CASE valid # RankWays
  BY <1>1 DEF SameVictim, VictimBy
<1>2. CASE valid = RankWays
  <2> DEFINE First(order, v) ==
        \A w \in RankWays : order[v] < order[w] \/ (order[v] = order[w] /\ v <= w)
  <2>1. /\ \A v, w \in RankWays : rank[v] < rank[w] <=> last_access[v] < last_access[w]
        /\ \A v, w \in RankWays : rank[v] = rank[w] <=> v = w
        /\ \A v, w \in RankWays : last_access[v] = last_access[w] <=> v = w
    BY <1>2 DEF RankIInv, RankIsAccessOrder, RanksArePermutation, StampsBelowTime
  <2>2. \A v \in RankWays : First(rank, v) <=> First(last_access, v)
    BY <2>1
  <2>3. (CHOOSE v \in RankWays : First(rank, v)) = (CHOOSE v \in RankWays : First(last_access, v))
    <3> HIDE DEF First
    <3> QED BY <2>2, Zenon
  <2> QED BY <1>2, <2>3 DEF SameVictim, VictimBy
<1> QED BY <1>1, <1>2

(* And a fill replaces the same way in hardware as in the simulator, for every *)
(* associativity (LRU_ONLY of reuse_plan_victim_select, findVictimLRU).       *)
THEOREM SameVictimHolds == RankSpec => []SameVictim
PROOF
<1>1. RankIInv => SameVictim
  BY OrderGivesVictim
<1> QED BY <1>1, RankInvariance, PTL

(* A line gets newer only by an access of its own: a hit or a fill of another *)
(* way lowers its rank by one or leaves it, an invalidation touches no order, *)
(* and a way that is valid before and after was not reset.                    *)
LEMMA StepMakesNoOtherNewer ==
    ASSUME RankIInv, [RankNext]_rankVars, NEW w \in valid \cap valid',
           last_access'[w] = last_access[w]
    PROVE  rank'[w] \in {rank[w] - 1, rank[w]}
PROOF
<1>1. /\ rank \in [RankWays -> 0 .. WAYS - 1] /\ valid \subseteq RankWays
      /\ \A v \in RankWays : last_access[v] \in Int
      /\ last_access[w] < global_time /\ global_time \in Nat
  BY MaxAccessesAssumption DEF RankIInv, RankTypeOK, StampsBelowTime
<1>2. ASSUME NEW a \in RankWays, Touch(a)
      PROVE  rank'[w] \in {rank[w] - 1, rank[w]}
  <2>1. w # a
    BY <1>1, <1>2 DEF Touch, RankIInv, RankTypeOK
  <2> QED BY <1>1, <1>2, <2>1 DEF Touch, Touched
<1>3. CASE Fill
  BY <1>2, <1>3 DEF Fill
<1>4. ASSUME NEW a \in RankWays, Hit(a) \/ Invalidate(a)
      PROVE  rank'[w] \in {rank[w] - 1, rank[w]}
  BY <1>2, <1>4 DEF Hit, Invalidate
<1>5. CASE Reset
  BY <1>5 DEF Reset
<1>6. CASE UNCHANGED rankVars
  BY <1>6 DEF rankVars
<1> QED BY <1>3, <1>4, <1>5, <1>6 DEF RankNext

(* Whatever the associativity, a step that leaves the stamp of a line alone   *)
(* never makes it newer in hardware (reuse_plan_recency_rank_update).         *)
THEOREM NewerHolds == RankSpec => OnlyAccessMakesNewer
PROOF
<1>1. RankIInv /\ [RankNext]_rankVars
        => [\A w \in valid \cap valid' :
              last_access'[w] = last_access[w] => rank'[w] \in {rank[w] - 1, rank[w]}]_rankVars
  BY StepMakesNoOtherNewer
<1> QED BY <1>1, RankInvariance, PTL DEF RankSpec, OnlyAccessMakesNewer
=============================================================================
