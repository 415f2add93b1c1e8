------------------------- MODULE CacheHierarchy_proof -------------------------
(***************************************************************************)
(* The five invariants of the hierarchy, for any lines, levels, stream     *)
(* detector, placement and workloads.  They are proved together: a line    *)
(* is in a level once because an insertion follows a miss of the level;    *)
(* since it is there once, the victim of an insertion takes the only dirty *)
(* copy with it; and a line is in the set of its address, so what becomes  *)
(* of a line in one set says nothing of the ways of another.  A stamp is   *)
(* the line's own because a call either has the hint of its line, or none, *)
(* or notes that it lends the line the hint of another: between a call of  *)
(* clearEdgeEpoch and the next edge there is no hint to lend.              *)
(***************************************************************************)
EXTENDS CacheHierarchy, FiniteSetTheorems, WellFoundedInduction, TLAPS

-------------------------------------------------------------------------------
\* Naturals.

LEMMA LeastNatural ==
    ASSUME NEW T \in SUBSET Nat, T # {}
    PROVE  \E x \in T : \A y \in T : x <= y
<1>1. IsWellFoundedOn(OpToRel(<, Nat), Nat)
  BY NatLessThanWellFounded
<1>2. PICK x \in T : \A y \in T : ~ (<<y, x>> \in OpToRel(<, Nat))
  BY <1>1, WFMin
<1>3. ASSUME NEW y \in T PROVE x <= y
  <2>1. ~ (y < x)
    BY <1>2, <1>3 DEF OpToRel
  <2> QED
    BY <2>1, SMT
<1> QED
  BY <1>3

LEMMA GreatestNatural ==
    ASSUME NEW n \in Nat, NEW T \in SUBSET (0 .. n), T # {}
    PROVE  \E x \in T : \A y \in T : y <= x
<1> DEFINE U == {m \in Nat : n - m \in T}
<1>1. U # {}
  <2>1. PICK t \in T : TRUE
    OBVIOUS
  <2>2. n - t \in Nat /\ n - (n - t) = t
    BY SMT
  <2> QED
    BY <2>1, <2>2
<1>2. PICK m \in U : \A k \in U : m <= k
  BY <1>1, LeastNatural
<1>3. ASSUME NEW y \in T PROVE y <= n - m
  <2>1. n - y \in Nat /\ n - (n - y) = y
    BY SMT
  <2>2. m <= n - y
    BY <1>2, <2>1
  <2> QED
    BY <2>2, SMT
<1> QED
  BY <1>2, <1>3

LEMMA SetInduction ==
    ASSUME NEW S \in SUBSET Nat, 0 \in S, \A k \in S : k + 1 \in S
    PROVE  S = Nat
<1> SUFFICES ASSUME S # Nat PROVE FALSE
  OBVIOUS
<1>1. Nat \ S \in SUBSET Nat /\ Nat \ S # {}
  OBVIOUS
<1>2. PICK x \in Nat \ S : \A y \in Nat \ S : x <= y
  BY <1>1, LeastNatural
<1>3. x # 0 /\ x - 1 \in Nat
  BY SMT
<1>4. x - 1 \in S
  BY <1>2, <1>3, SMT
<1>5. (x - 1) + 1 = x
  BY <1>3, SMT
<1> QED
  BY <1>4, <1>5

LEMMA FirstIn ==
    ASSUME NEW S \in SUBSET Nat, S # {}
    PROVE  First(S) \in S
BY LeastNatural DEF First

-------------------------------------------------------------------------------
\* One set of a level.

Maybe == Int \cup {NoLine, Undelivered}
Way == [line : Maybe, dirty : BOOLEAN, rrpv : 0 .. 7, pin : BOOLEAN, stamp : Maybe]

SetTyped(set, n) ==
    /\ DOMAIN set = {"ways", "order"}
    /\ set.ways \in [1 .. n -> Way]
    /\ set.order \in [1 .. n -> Nat]

Alike(a, b) == a.line = b.line /\ a.dirty = b.dirty /\ a.stamp = b.stamp

\* The sets agree on everything but the ages.
SameLines(a, b, n) == \A w \in 1 .. n : Alike(a.ways[w], b.ways[w])

LEMMA NewestTyped ==
    ASSUME NEW n \in Nat, NEW order \in [1 .. n -> Nat], NEW w \in 1 .. n
    PROVE  Newest(order, w) \in [1 .. n -> Nat]
<1>1. Cardinality(1 .. n) \in Nat
  <2>1. 1 \in Int /\ n \in Int
    BY SMT
  <2>2. IsFiniteSet(1 .. n)
    BY <2>1, FS_Interval
  <2> QED
    BY <2>2, FS_CardinalityType
<1>2. ASSUME NEW v \in 1 .. n, order[v] > order[w] PROVE order[v] - 1 \in Nat
  <2>1. order[v] \in Nat /\ order[w] \in Nat
    OBVIOUS
  <2> QED
    BY <1>2, <2>1, SMT
<1>3. DOMAIN order = 1 .. n
  OBVIOUS
<1>4. \A v \in 1 .. n : (IF v = w THEN Cardinality(1 .. n)
                         ELSE IF order[v] > order[w] THEN order[v] - 1 ELSE order[v]) \in Nat
  BY <1>1, <1>2
<1> QED
  BY <1>3, <1>4 DEF Newest

LEMMA OldestIn ==
    ASSUME NEW n \in Nat, NEW set, SetTyped(set, n), NEW S \in SUBSET (1 .. n), S # {}
    PROVE  OldestOf(set, S) \in S
<1> DEFINE T == {set.order[w] : w \in S}
<1>1. T \in SUBSET Nat /\ T # {}
  BY DEF SetTyped
<1>2. PICK x \in T : \A y \in T : x <= y
  BY <1>1, LeastNatural
<1>3. PICK w \in S : set.order[w] = x
  BY <1>2
<1>4. \A v \in S : set.order[w] <= set.order[v]
  BY <1>2, <1>3
<1> QED
  BY <1>4 DEF OldestOf

\* Ageing changes the ages and brings at least one of the ways to the maximum.
LEMMA AgeingReaches ==
    ASSUME NEW n \in Nat, NEW set, SetTyped(set, n), NEW S \in SUBSET (1 .. n), S # {},
           NEW max \in 0 .. 7
    PROVE  LET found == AtMost(set, S, max)
           IN  /\ SetTyped(found.set, n) /\ SameLines(found.set, set, n)
               /\ found.set.order = set.order /\ found.way \in 1 .. n
<1> DEFINE ages == {set.ways[w].rrpv : w \in S}
           top == CHOOSE r \in ages : \A w \in S : set.ways[w].rrpv <= r
           rounds == IF top < max THEN max - top ELSE 0
           older(w) == [set.ways[w] EXCEPT !.rrpv = Smaller(@ + rounds, max)]
           aged == AgedTo(set, S, max)
<1>1. \A w \in 1 .. n : set.ways[w] \in Way
  BY DEF SetTyped
<1>2. ages \in SUBSET (0 .. 7) /\ ages # {}
  BY <1>1 DEF Way
<1>3. \E r \in ages : \A y \in ages : y <= r
  <2>1. 7 \in Nat
    BY SMT
  <2> QED
    BY <1>2, <2>1, GreatestNatural
<1>4. top \in ages /\ \A w \in S : set.ways[w].rrpv <= top
  BY <1>3
<1>5. top \in 0 .. 7
  BY <1>2, <1>4
<1> HIDE DEF top
<1>6. rounds \in Nat /\ (top < max => top + rounds = max) /\ (~ (top < max) => rounds = 0)
  BY <1>5, SMT
<1> HIDE DEF rounds
<1>7. ASSUME NEW w \in 1 .. n
      PROVE  older(w) \in Way /\ Alike(older(w), set.ways[w])
             /\ older(w).rrpv = Smaller(set.ways[w].rrpv + rounds, max)
  <2>1. set.ways[w] \in Way /\ set.ways[w].rrpv \in 0 .. 7
    BY <1>1 DEF Way
  <2>2. Smaller(set.ways[w].rrpv + rounds, max) \in 0 .. 7
    BY <2>1, <1>6, SMT DEF Smaller
  <2>3. older(w) = [set.ways[w] EXCEPT !.rrpv = Smaller(set.ways[w].rrpv + rounds, max)]
    OBVIOUS
  <2> QED
    BY <2>1, <2>2, <2>3 DEF Way, Alike
<1>8. aged = [set EXCEPT !.ways = [w \in DOMAIN set.ways |-> IF w \in S THEN older(w) ELSE set.ways[w]]]
  BY DEF AgedTo, top, rounds
<1> HIDE DEF older, aged
<1>9. DOMAIN set.ways = 1 .. n
  BY DEF SetTyped
<1>10. /\ DOMAIN aged = {"ways", "order"} /\ aged.order = set.order
       /\ aged.ways = [w \in 1 .. n |-> IF w \in S THEN older(w) ELSE set.ways[w]]
  BY <1>8, <1>9 DEF SetTyped
<1>11. aged.ways \in [1 .. n -> Way] /\ SameLines(aged, set, n)
  BY <1>1, <1>7, <1>10 DEF SameLines, Alike
<1>12. PICK w \in S : set.ways[w].rrpv = top
  BY <1>4
<1>13. aged.ways[w].rrpv = max
  <2>1. aged.ways[w].rrpv = Smaller(top + rounds, max)
    BY <1>7, <1>10, <1>12
  <2>2. Smaller(top + rounds, max) = max
    BY <1>5, <1>6, SMT DEF Smaller
  <2> QED
    BY <2>1, <2>2
<1>14. First({v \in S : aged.ways[v].rrpv = max}) \in 1 .. n
  <2>1. {v \in S : aged.ways[v].rrpv = max} \in SUBSET Nat
    BY SMT
  <2>2. First({v \in S : aged.ways[v].rrpv = max}) \in {v \in S : aged.ways[v].rrpv = max}
    BY <1>12, <1>13, <2>1, FirstIn
  <2> QED
    BY <2>2
<1>15. AtMost(set, S, max) = [set |-> aged, way |-> First({v \in S : aged.ways[v].rrpv = max})]
  BY DEF AtMost, aged
<1>16. SetTyped(aged, n)
  BY <1>10, <1>11 DEF SetTyped
<1> QED
  BY <1>10, <1>11, <1>14, <1>15, <1>16

\* The distances P-OPT compares: of the property lines, at the at of the call.
Distances(policy, at) ==
    policy = "POPT" => \A l \in PropertyLines : NextRef[at][l] \in Nat

LEMMA FarthestFound ==
    ASSUME NEW n \in Nat \ {0}, NEW set, SetTyped(set, n), NEW at,
           \A w \in 1 .. n : NextRef[at][set.ways[w].line] \in Nat
    PROVE  Farthest(set, at) \in SUBSET (1 .. n) /\ Farthest(set, at) # {}
<1> DEFINE distance(w) == Smaller(NextRef[at][set.ways[w].line], 127)
           T == {distance(w) : w \in 1 .. n}
<1>1. DOMAIN set.ways = 1 .. n
  BY DEF SetTyped
<1>2. ASSUME NEW w \in 1 .. n PROVE distance(w) \in 0 .. 127
  <2>1. \A r \in Nat : Smaller(r, 127) \in 0 .. 127
    BY SMT DEF Smaller
  <2> QED
    BY <2>1
<1>3. 1 \in 1 .. n /\ 127 \in Nat
  BY SMT
<1>4. Farthest(set, at) = {w \in 1 .. n : \A v \in 1 .. n : distance(v) <= distance(w)}
  BY <1>1 DEF Farthest
<1> HIDE DEF distance
<1>5. T \in SUBSET (0 .. 127) /\ T # {}
  BY <1>2, <1>3
<1>6. PICK d \in T : \A y \in T : y <= d
  BY <1>3, <1>5, GreatestNatural
<1>7. PICK w \in 1 .. n : distance(w) = d
  BY <1>6
<1>8. \A v \in 1 .. n : distance(v) <= distance(w)
  BY <1>6, <1>7
<1> QED
  BY <1>4, <1>8

\* The search changes only ages, and finds a way or, under PIN, none.
LEMMA VictimFound ==
    ASSUME NEW n \in Nat \ {0}, NEW set, SetTyped(set, n), NEW policy \in Policies,
           NEW at, Distances(policy, at), NEW pick, policy = "ECG" => pick \in 1 .. n
    PROVE  LET v == Victim(policy, set, at, pick)
           IN  /\ SetTyped(v.set, n) /\ SameLines(v.set, set, n)
               /\ v.set.order = set.order /\ v.way \in 0 .. n
<1> DEFINE all == 1 .. n
           other == {w \in all : set.ways[w].line \notin PropertyLines}
           unpinned == {w \in all : ~set.ways[w].pin}
           found(w) == [set |-> set, way |-> w]
           Right(v) == /\ SetTyped(v.set, n) /\ SameLines(v.set, set, n)
                       /\ v.set.order = set.order /\ v.way \in 0 .. n
           v == Victim(policy, set, at, pick)
<1>1. DOMAIN set.ways = all
  BY DEF SetTyped
<1>2. 1 \in all /\ all \in SUBSET (0 .. n) /\ 0 \in 0 .. n /\ all \in SUBSET Nat
  BY SMT
<1>3. ASSUME NEW w \in 0 .. n PROVE Right(found(w))
  BY <1>3 DEF SameLines, Alike
<1>4. ASSUME NEW S \in SUBSET all, S # {}, NEW max \in 0 .. 7
      PROVE  Right(AtMost(set, S, max))
  <2> DEFINE aged == AtMost(set, S, max)
  <2>1. /\ SetTyped(aged.set, n) /\ SameLines(aged.set, set, n)
        /\ aged.set.order = set.order /\ aged.way \in 1 .. n
    BY <1>2, <1>4, AgeingReaches
  <2> QED
    BY <1>2, <2>1
<1>5. 3 \in 0 .. 7 /\ 7 \in 0 .. 7
  BY SMT
<1>6. CASE Holds(set, NoLine)
  <2>1. WaysOf(set, NoLine) \in SUBSET all /\ WaysOf(set, NoLine) # {}
    BY <1>1, <1>6 DEF WaysOf, Holds
  <2>2. First(WaysOf(set, NoLine)) \in all
    BY <1>2, <2>1, FirstIn
  <2>3. v = found(First(WaysOf(set, NoLine)))
    BY <1>6 DEF Victim
  <2> HIDE DEF v, Right
  <2>4. Right(v)
    BY <1>2, <1>3, <2>2, <2>3
  <2> QED
    BY <2>4 DEF v, Right
<1>7. CASE ~ Holds(set, NoLine) /\ policy = "LRU"
  <2>1. OldestOf(set, all) \in all
    BY <1>2, OldestIn
  <2>2. v = found(OldestOf(set, all))
    BY <1>1, <1>7 DEF Victim
  <2> HIDE DEF v, Right
  <2>3. Right(v)
    BY <1>2, <1>3, <2>1, <2>2
  <2> QED
    BY <2>3 DEF v, Right
<1>8. CASE ~ Holds(set, NoLine) /\ policy = "PIN"
  <2>1. (IF unpinned = {} THEN 0 ELSE OldestOf(set, unpinned)) \in 0 .. n
    <3>1. unpinned \in SUBSET all
      OBVIOUS
    <3> QED
      BY <1>2, <3>1, OldestIn
  <2>2. v = found(IF unpinned = {} THEN 0 ELSE OldestOf(set, unpinned))
    BY <1>1, <1>8 DEF Victim
  <2> HIDE DEF v, Right
  <2>3. Right(v)
    BY <1>3, <2>1, <2>2
  <2> QED
    BY <2>3 DEF v, Right
<1>9. CASE ~ Holds(set, NoLine) /\ policy = "SRRIP"
  <2>1. v = AtMost(set, all, 3)
    BY <1>1, <1>9 DEF Victim
  <2> HIDE DEF v, Right
  <2>2. Right(v)
    BY <1>2, <1>4, <1>5, <2>1
  <2> QED
    BY <2>2 DEF v, Right
<1>10. CASE ~ Holds(set, NoLine) /\ policy = "GRASP"
  <2>1. v = AtMost(set, all, 7)
    BY <1>1, <1>10 DEF Victim
  <2> HIDE DEF v, Right
  <2>2. Right(v)
    BY <1>2, <1>4, <1>5, <2>1
  <2> QED
    BY <2>2 DEF v, Right
<1>11. CASE ~ Holds(set, NoLine) /\ policy = "POPT" /\ other # {}
  <2>1. First(other) \in all
    <3>1. other \in SUBSET Nat
      BY <1>2
    <3> QED
      BY <1>11, <3>1, FirstIn
  <2>2. v = found(First(other))
    BY <1>1, <1>11 DEF Victim
  <2> HIDE DEF v, Right
  <2>3. Right(v)
    BY <1>2, <1>3, <2>1, <2>2
  <2> QED
    BY <2>3 DEF v, Right
<1>12. CASE ~ Holds(set, NoLine) /\ policy = "POPT" /\ other = {}
  <2>1. \A w \in 1 .. n : NextRef[at][set.ways[w].line] \in Nat
    BY <1>12 DEF Distances
  <2>2. Farthest(set, at) \in SUBSET all /\ Farthest(set, at) # {}
    BY <2>1, FarthestFound
  <2>3. v = AtMost(set, Farthest(set, at), 7)
    BY <1>1, <1>12 DEF Victim
  <2> HIDE DEF v, Right
  <2>4. Right(v)
    BY <1>4, <1>5, <2>2, <2>3
  <2> QED
    BY <2>4 DEF v, Right
<1>13. CASE ~ Holds(set, NoLine) /\ policy = "ECG"
  <2>1. v = found(pick)
    BY <1>1, <1>13 DEF Victim
  <2> HIDE DEF v, Right
  <2>2. Right(v)
    BY <1>2, <1>3, <1>13, <2>1
  <2> QED
    BY <2>2 DEF v, Right
<1> QED
  BY <1>6, <1>7, <1>8, <1>9, <1>10, <1>11, <1>12, <1>13 DEF Policies

\* The way has been filled; without the mask array its old stamp may have stayed.
Became(way, fill, masked) ==
    way.line = fill.line /\ way.dirty = fill.dirty /\ (masked => way.stamp = fill.stamp)

\* An insertion replaces one way, which it reports, or none.
ReplacesOne(i, set, n, fill, masked) ==
    \/ SameLines(i.set, set, n) /\ ~i.evicted.dirty
    \/ \E u \in 1 .. n :
          /\ i.evicted = set.ways[u]
          /\ Became(i.set.ways[u], fill, masked)
          /\ \A w \in 1 .. n : w # u => Alike(i.set.ways[w], set.ways[w])

LEMMA InsertionReplacesOne ==
    ASSUME NEW n \in Nat \ {0}, NEW set, SetTyped(set, n), NEW policy \in Policies,
           NEW at, Distances(policy, at), NEW pick, policy = "ECG" => pick \in 1 .. n,
           NEW l \in Int, NEW write \in BOOLEAN, NEW given \in Maybe,
           NEW masked \in BOOLEAN
    PROVE  LET i == Inserted(policy, set, l, write, given, masked, at, pick)
           IN  /\ SetTyped(i.set, n)
               /\ ReplacesOne(i, set, n, Filled(policy, l, write, given, masked, EmptyWay), masked)
<1> DEFINE v == Victim(policy, set, at, pick)
           i == Inserted(policy, set, l, write, given, masked, at, pick)
           new == Filled(policy, l, write, given, masked, v.set.ways[v.way])
<1>1. /\ SetTyped(v.set, n) /\ SameLines(v.set, set, n)
      /\ v.set.order = set.order /\ v.way \in 0 .. n
  BY VictimFound
<1>2. CASE v.way = 0
  <2>1. i = [set |-> set, evicted |-> EmptyWay]
    BY <1>2 DEF Inserted
  <2> HIDE DEF i
  <2>2. SetTyped(i.set, n) /\ ReplacesOne(i, set, n, Filled(policy, l, write, given, masked, EmptyWay), masked)
    BY <2>1 DEF ReplacesOne, SameLines, Alike, EmptyWay
  <2> QED
    BY <2>2 DEF i
<1>3. CASE v.way # 0
  <2>1. v.way \in 1 .. n
    BY <1>1, <1>3, SMT
  <2>2. i = [evicted |-> set.ways[v.way],
             set |-> [ways |-> [v.set.ways EXCEPT ![v.way] = new],
                      order |-> Newest(set.order, v.way)]]
    BY <1>1, <1>3 DEF Inserted
  <2>3. new \in Way /\ Became(new, Filled(policy, l, write, given, masked, EmptyWay), masked)
    <3>1. InsertRrpv(policy, l) \in 0 .. 7
      BY SMT DEF InsertRrpv
    <3>2. (policy = "PIN" /\ Tier[l] = 1) \in BOOLEAN
      OBVIOUS
    <3>3. v.set.ways[v.way].stamp \in Maybe
      BY <1>1, <2>1 DEF SetTyped, Way
    <3> DEFINE stamp(old) == FilledStamp(policy, l, given, masked, old)
    <3>4. /\ stamp(v.set.ways[v.way]) \in Maybe
          /\ masked => stamp(v.set.ways[v.way]) = stamp(EmptyWay)
      BY <3>3 DEF FilledStamp, Maybe
    <3>5. l \in Maybe
      BY DEF Maybe
    <3> HIDE DEF stamp
    <3>6. new = [line |-> l, dirty |-> write, rrpv |-> InsertRrpv(policy, l),
                 pin |-> policy = "PIN" /\ Tier[l] = 1, stamp |-> stamp(v.set.ways[v.way])]
      BY DEF Filled, stamp
    <3>7. /\ Filled(policy, l, write, given, masked, EmptyWay).line = l
          /\ Filled(policy, l, write, given, masked, EmptyWay).dirty = write
          /\ Filled(policy, l, write, given, masked, EmptyWay).stamp = stamp(EmptyWay)
      BY DEF Filled, stamp
    <3> HIDE DEF new
    <3> QED
      BY <3>1, <3>2, <3>4, <3>5, <3>6, <3>7 DEF Way, Became
  <2>4. Newest(set.order, v.way) \in [1 .. n -> Nat]
    BY <2>1, NewestTyped DEF SetTyped
  <2> HIDE DEF i, new, v
  <2>5. /\ DOMAIN i.set = {"ways", "order"} /\ i.set.order \in [1 .. n -> Nat]
        /\ i.set.ways = [v.set.ways EXCEPT ![v.way] = new] /\ i.evicted = set.ways[v.way]
    BY <2>2, <2>4
  <2>6. v.set.ways \in [1 .. n -> Way]
    BY <1>1 DEF SetTyped
  <2>7. SetTyped(i.set, n)
    BY <2>3, <2>5, <2>6 DEF SetTyped
  <2>8. /\ i.set.ways[v.way] = new
        /\ \A w \in 1 .. n : w # v.way => Alike(i.set.ways[w], set.ways[w])
    BY <1>1, <2>1, <2>5, <2>6 DEF SameLines
  <2>9. ReplacesOne(i, set, n, Filled(policy, l, write, given, masked, EmptyWay), masked)
    BY <2>1, <2>3, <2>5, <2>8 DEF ReplacesOne
  <2> QED
    BY <2>7, <2>9 DEF i
<1> QED
  BY <1>2, <1>3

\* A hit changes the way of the line only: its age, perhaps its dirty bit and stamp.
LEMMA HitChangesOne ==
    ASSUME NEW n \in Nat \ {0}, NEW set, SetTyped(set, n), NEW policy \in Policies,
           NEW l \in Int, Holds(set, l), NEW write \in BOOLEAN, NEW given \in Maybe
    PROVE  LET new == AfterHit(policy, set, l, write, given)
           IN  /\ SetTyped(new, n)
               /\ \E u \in 1 .. n :
                     /\ set.ways[u].line = l /\ new.ways[u].line = l
                     /\ new.ways[u].dirty = (set.ways[u].dirty \/ write)
                     /\ new.ways[u].stamp = (IF policy = "ECG" /\ given # NoLine /\ l \in PropertyLines
                                             THEN given ELSE set.ways[u].stamp)
                     /\ \A w \in 1 .. n : w # u => new.ways[w] = set.ways[w]
<1> DEFINE u == First(WaysOf(set, l))
           way == set.ways[u]
           hit == [way EXCEPT !.rrpv = HitRrpv(policy, way), !.dirty = @ \/ write]
           to == IF policy = "ECG" THEN Restamped(hit, given) ELSE hit
           new == AfterHit(policy, set, l, write, given)
<1>1. u \in 1 .. n /\ set.ways[u].line = l
  <2>1. WaysOf(set, l) \in SUBSET (1 .. n) /\ WaysOf(set, l) # {} /\ 1 .. n \in SUBSET Nat
    BY SMT DEF WaysOf, Holds, SetTyped
  <2>2. u \in WaysOf(set, l)
    BY <2>1, FirstIn
  <2> QED
    BY <2>1, <2>2 DEF WaysOf
<1>2. new = [ways |-> [set.ways EXCEPT ![u] = to], order |-> Newest(set.order, u)]
  BY DEF AfterHit
<1> HIDE DEF new, u
<1>3. way \in Way
  BY <1>1 DEF SetTyped
<1>4. HitRrpv(policy, way) \in 0 .. 7
  <2>1. way.rrpv \in 0 .. 7
    BY <1>3 DEF Way
  <2>2. 0 \in 0 .. 7 /\ Greater(way.rrpv - 1, 0) \in 0 .. 7
    BY <2>1, SMT DEF Greater
  <2>3. policy \in {"SRRIP", "POPT"} \/ policy \in {"GRASP", "ECG"}
        \/ policy \notin {"SRRIP", "POPT", "GRASP", "ECG"}
    OBVIOUS
  <2> QED
    BY <2>1, <2>2, <2>3 DEF HitRrpv
<1>5. /\ hit \in Way /\ hit.line = l /\ hit.dirty = (way.dirty \/ write)
      /\ hit.stamp = way.stamp
  BY <1>1, <1>3, <1>4 DEF Way
<1>6. /\ to \in Way /\ to.line = l /\ to.dirty = (way.dirty \/ write)
      /\ to.stamp = (IF policy = "ECG" /\ given # NoLine /\ l \in PropertyLines
                     THEN given ELSE way.stamp)
  <2> HIDE DEF hit
  <2> QED
    BY <1>5 DEF Restamped, Way
<1> HIDE DEF to
<1>7. set.ways \in [1 .. n -> Way] /\ set.order \in [1 .. n -> Nat]
  BY DEF SetTyped
<1>8. Newest(set.order, u) \in [1 .. n -> Nat]
  BY <1>1, <1>7, NewestTyped
<1>9. SetTyped(new, n)
  BY <1>2, <1>6, <1>7, <1>8 DEF SetTyped
<1>10. new.ways[u] = to /\ \A w \in 1 .. n : w # u => new.ways[w] = set.ways[w]
  BY <1>1, <1>2, <1>7
<1> QED
  BY <1>1, <1>6, <1>9, <1>10 DEF new

LEMMA RefreshStamps ==
    ASSUME NEW n \in Nat \ {0}, NEW set, SetTyped(set, n), NEW l, NEW given \in Maybe
    PROVE  LET new == Refreshed(set, l, given)
           IN  /\ SetTyped(new, n)
               /\ \A w \in 1 .. n :
                     /\ new.ways[w].line = set.ways[w].line
                     /\ new.ways[w].dirty = set.ways[w].dirty
                     /\ \/ new.ways[w].stamp = set.ways[w].stamp
                        \/ /\ set.ways[w].line = l /\ l \in PropertyLines
                           /\ given # NoLine /\ new.ways[w].stamp = given
<1> DEFINE to(w) == IF set.ways[w].line = l THEN Restamped(set.ways[w], given) ELSE set.ways[w]
           new == Refreshed(set, l, given)
<1>1. \A w \in 1 .. n : set.ways[w] \in Way
  BY DEF SetTyped
<1>2. ASSUME NEW w \in 1 .. n
      PROVE  /\ to(w) \in Way /\ to(w).line = set.ways[w].line /\ to(w).dirty = set.ways[w].dirty
             /\ \/ to(w).stamp = set.ways[w].stamp
                \/ /\ set.ways[w].line = l /\ l \in PropertyLines
                   /\ given # NoLine /\ to(w).stamp = given
  BY <1>1 DEF Restamped, Way
<1>3. new = [set EXCEPT !.ways = [w \in DOMAIN set.ways |-> to(w)]]
  BY DEF Refreshed
<1> HIDE DEF new, to
<1>4. /\ DOMAIN new = {"ways", "order"} /\ new.order = set.order
      /\ new.ways = [w \in 1 .. n |-> to(w)]
  BY <1>3 DEF SetTyped
<1>5. SetTyped(new, n)
  BY <1>2, <1>4 DEF SetTyped
<1> QED
  BY <1>2, <1>4, <1>5 DEF new

-------------------------------------------------------------------------------
\* One set of the hierarchy, in a run.

\* The placement keeps the line out of the LLC.
Bypassed(l) == run.adaptive => Leader(l % Sets["L3"]) = "flow"

WaySound(way, owed, lent) ==
    /\ way.line \in RecordLines => ~Bypassed(way.line)
    /\ run.maskArray /\ way.line \notin lent => way.stamp \in {NoLine, Undelivered, way.line}
    /\ way.dirty => way.line \in owed

SetSound(level, i, set, owed, lent) ==
    /\ SetTyped(set, Ways[level])
    /\ \A w \in 1 .. Ways[level] :
          set.ways[w].line # NoLine => set.ways[w].line % Sets[level] = i
    /\ \A w, v \in 1 .. Ways[level] :
          set.ways[w].line = set.ways[v].line /\ set.ways[w].line # NoLine => w = v
    /\ level = "L3" => \A w \in 1 .. Ways[level] : WaySound(set.ways[w], owed, lent)

\* What a call passes along.
CallOk(x) ==
    /\ DOMAIN x = {"hint", "vertex", "pick", "run", "lent"} /\ DOMAIN x.run = DOMAIN run
    /\ x.run.policy = run.policy /\ x.run.degree = run.degree
    /\ x.run.maskArray = run.maskArray
    /\ x.hint \in Maybe
    /\ Distances(run.policy, x.vertex)
    /\ run.policy = "ECG" => x.pick \in 1 .. Ways["L3"]

\* The hint of the call may be left on the line, or the call notes that it is not its own.
Own(x, l) == l \in PropertyLines => x.lent \/ x.hint \in {NoLine, Undelivered, l}

LEMMA RunTyped ==
    ASSUME run \in Workloads
    PROVE  /\ run.policy \in Policies /\ run.degree \in Nat /\ run.adaptive \in BOOLEAN
           /\ run.maskArray \in BOOLEAN /\ (run.edges # {} => run.edgeMasks)
           /\ run.demands \subseteq (Lines \ RecordLines) \X BOOLEAN
           /\ run.edges \subseteq PropertyLines /\ run.records \subseteq RecordLines
           /\ run.prefetches \subseteq Lines \ RecordLines
           /\ run.unresolved \subseteq PropertyLines \X BOOLEAN
           /\ run.lookaheads \subseteq PropertyLines
           /\ {"policy", "degree", "adaptive", "maskArray"} \subseteq DOMAIN run
BY HierarchyAssumption

LEMMA LevelTyped ==
    ASSUME NEW level \in Levels
    PROVE  Ways[level] \in Nat \ {0} /\ Sets[level] \in Nat \ {0}
BY HierarchyAssumption

LEMMA PolicyTyped ==
    ASSUME run \in Workloads, NEW x, CallOk(x), NEW level \in Levels
    PROVE  /\ PolicyOf(x, level) \in Policies
           /\ Distances(PolicyOf(x, level), x.vertex)
           /\ PolicyOf(x, level) = "ECG" => x.pick \in 1 .. Ways[level]
           /\ level = "L3" => PolicyOf(x, level) = run.policy
<1>1. "LRU" \in Policies /\ Distances("LRU", x.vertex)
  BY DEF Policies, Distances
<1> QED
  BY <1>1, RunTyped DEF PolicyOf, CallOk

LEMMA SetAfterHit ==
    ASSUME run \in Workloads, NEW x, CallOk(x), NEW level \in Levels, NEW i,
           NEW set, NEW owed, NEW lent, SetSound(level, i, set, owed, lent),
           NEW l \in Int, Holds(set, l), NEW write \in BOOLEAN, Own(x, l), write => l \in owed
    PROVE  LET new == AfterHit(PolicyOf(x, level), set, l, write, x.hint)
           IN  SetSound(level, i, new, owed, Lending(x, level, l, lent)) /\ \A k : Holds(new, k) <=> Holds(set, k)
<1> DEFINE policy == PolicyOf(x, level)
           n == Ways[level]
           new == AfterHit(policy, set, l, write, x.hint)
<1>1. SetTyped(set, n) /\ x.hint \in Maybe /\ policy \in Policies /\ n \in Nat \ {0}
  BY LevelTyped, PolicyTyped DEF SetSound, CallOk
<1> HIDE DEF policy
<1>2. /\ SetTyped(new, n)
      /\ \E u \in 1 .. n :
            /\ set.ways[u].line = l /\ new.ways[u].line = l
            /\ new.ways[u].dirty = (set.ways[u].dirty \/ write)
            /\ new.ways[u].stamp = (IF policy = "ECG" /\ x.hint # NoLine /\ l \in PropertyLines
                                    THEN x.hint ELSE set.ways[u].stamp)
            /\ \A w \in 1 .. n : w # u => new.ways[w] = set.ways[w]
  BY <1>1, HitChangesOne
<1> HIDE DEF new, n
<1>3. PICK u \in 1 .. n :
         /\ set.ways[u].line = l /\ new.ways[u].line = l
         /\ new.ways[u].dirty = (set.ways[u].dirty \/ write)
         /\ new.ways[u].stamp = (IF policy = "ECG" /\ x.hint # NoLine /\ l \in PropertyLines
                                 THEN x.hint ELSE set.ways[u].stamp)
         /\ \A w \in 1 .. n : w # u => new.ways[w] = set.ways[w]
  BY <1>2
<1>4. \A w \in 1 .. n : new.ways[w].line = set.ways[w].line
  BY <1>3
<1>5. DOMAIN new.ways = 1 .. n /\ DOMAIN set.ways = 1 .. n
  BY <1>1, <1>2 DEF SetTyped
<1>6. \A k : Holds(new, k) <=> Holds(set, k)
  BY <1>4, <1>5 DEF Holds, WaysOf
<1>7. ASSUME level = "L3", NEW w \in 1 .. n
      PROVE  WaySound(new.ways[w], owed, Lending(x, level, l, lent))
  <2>1. WaySound(set.ways[w], owed, lent)
    BY <1>7 DEF SetSound, n
  <2>2. CASE w # u
    BY <1>3, <2>1, <2>2 DEF WaySound, Lending
  <2>3. CASE w = u
    BY <1>3, <1>7, <2>1, <2>3 DEF WaySound, Own, Lending
  <2> QED
    BY <2>2, <2>3
<1>8. SetSound(level, i, new, owed, Lending(x, level, l, lent))
  BY <1>2, <1>4, <1>7 DEF SetSound, n
<1> QED
  BY <1>6, <1>8 DEF new, policy

LEMMA SetRefreshed ==
    ASSUME NEW x, CallOk(x), NEW i, NEW set, NEW owed, NEW lent,
           SetSound("L3", i, set, owed, lent),
           NEW l \in Int, Own(x, l)
    PROVE  LET new == Refreshed(set, l, x.hint)
           IN  SetSound("L3", i, new, owed, Lending(x, "L3", l, lent)) /\ \A k : Holds(new, k) <=> Holds(set, k)
<1> DEFINE n == Ways["L3"]
           new == Refreshed(set, l, x.hint)
<1>1. SetTyped(set, n) /\ x.hint \in Maybe /\ n \in Nat \ {0}
  BY LevelTyped DEF SetSound, CallOk, Levels
<1>2. /\ SetTyped(new, n)
      /\ \A w \in 1 .. n :
            /\ new.ways[w].line = set.ways[w].line
            /\ new.ways[w].dirty = set.ways[w].dirty
            /\ \/ new.ways[w].stamp = set.ways[w].stamp
               \/ /\ set.ways[w].line = l /\ l \in PropertyLines
                  /\ x.hint # NoLine /\ new.ways[w].stamp = x.hint
  BY <1>1, RefreshStamps
<1> HIDE DEF new, n
<1>3. DOMAIN new.ways = 1 .. n /\ DOMAIN set.ways = 1 .. n
  BY <1>1, <1>2 DEF SetTyped
<1>4. \A k : Holds(new, k) <=> Holds(set, k)
  BY <1>2, <1>3 DEF Holds, WaysOf
<1>5. ASSUME NEW w \in 1 .. n PROVE WaySound(new.ways[w], owed, Lending(x, "L3", l, lent))
  <2>1. WaySound(set.ways[w], owed, lent)
    BY <1>5 DEF SetSound, n
  <2> QED
    BY <1>2, <2>1 DEF WaySound, Own, Lending
<1>6. SetSound("L3", i, new, owed, Lending(x, "L3", l, lent))
  BY <1>2, <1>5 DEF SetSound, n
<1> QED
  BY <1>4, <1>6 DEF new

\* What is owed once a line has left the level.
OwedAfter(level, evicted, owed) ==
    IF level = "L3" /\ evicted.dirty THEN owed \ {evicted.line} ELSE owed

\* The lines a hint is lent to, once the level has got the line afresh.
LentAfter(x, level, l, lent) ==
    Lending(x, level, l, IF level = "L3" THEN lent \ {l} ELSE lent)

\* A line is inserted only where the level lacks it.
LEMMA SetInserted ==
    ASSUME run \in Workloads, NEW x, CallOk(x), NEW level \in Levels,
           NEW l \in Int, NEW set, NEW owed \in SUBSET Int, NEW lent,
           SetSound(level, l % Sets[level], set, owed, lent), ~Holds(set, l), NEW write \in BOOLEAN,
           level = "L3" => /\ Own(x, l) /\ (write => l \in owed)
                           /\ l \in RecordLines => ~Bypassed(l)
    PROVE  LET i == Inserted(PolicyOf(x, level), set, l, write, x.hint,
                            x.run.maskArray, x.vertex, x.pick)
           IN  /\ SetSound(level, l % Sets[level], i.set, OwedAfter(level, i.evicted, owed),
                           LentAfter(x, level, l, lent))
               /\ level = "L3" /\ i.evicted.dirty =>
                     i.evicted.line % Sets[level] = l % Sets[level]
<1> DEFINE policy == PolicyOf(x, level)
           masked == x.run.maskArray
           n == Ways[level]
           i == Inserted(policy, set, l, write, x.hint,
                            x.run.maskArray, x.vertex, x.pick)
           fill == Filled(policy, l, write, x.hint, masked, EmptyWay)
           after == OwedAfter(level, i.evicted, owed)
           now == LentAfter(x, level, l, lent)
<1>1. /\ SetTyped(set, n) /\ n \in Nat \ {0} /\ x.hint \in Maybe
      /\ masked \in BOOLEAN /\ masked = run.maskArray
  BY LevelTyped, RunTyped DEF SetSound, CallOk
<1>2. /\ policy \in Policies /\ Distances(policy, x.vertex)
      /\ policy = "ECG" => x.pick \in 1 .. n
  BY PolicyTyped
<1> HIDE DEF policy, masked
<1>3. SetTyped(i.set, n) /\ ReplacesOne(i, set, n, fill, masked)
  BY <1>1, <1>2, InsertionReplacesOne DEF masked
<1>4. /\ fill.line = l /\ fill.dirty = write
      /\ masked => fill.stamp = IF policy = "ECG" /\ l \in PropertyLines THEN x.hint ELSE NoLine
  BY DEF Filled, FilledStamp
<1> HIDE DEF i, fill, n
<1>5. DOMAIN set.ways = 1 .. n
  BY <1>1 DEF SetTyped
<1>6. \A w \in 1 .. n : set.ways[w].line # l
  BY <1>5 DEF Holds, WaysOf
<1>7. CASE SameLines(i.set, set, n) /\ ~i.evicted.dirty
  <2>1. after = owed
    BY <1>7 DEF OwedAfter
  <2>2. \A w \in 1 .. n : WaySound(set.ways[w], owed, lent) => WaySound(i.set.ways[w], owed, now)
    BY <1>6, <1>7 DEF SameLines, Alike, WaySound, LentAfter, Lending
  <2>3. \A w \in 1 .. n : i.set.ways[w].line = set.ways[w].line
    BY <1>7 DEF SameLines, Alike
  <2> HIDE DEF after, now
  <2>4. SetSound(level, l % Sets[level], i.set, after, now)
    BY <1>3, <2>1, <2>2, <2>3 DEF SetSound, n
  <2> QED
    BY <1>7, <2>4 DEF i, after, now, policy, masked
<1>8. CASE \E u \in 1 .. n :
              /\ i.evicted = set.ways[u]
              /\ Became(i.set.ways[u], fill, masked)
              /\ \A w \in 1 .. n : w # u => Alike(i.set.ways[w], set.ways[w])
  <2>1. PICK u \in 1 .. n :
              /\ i.evicted = set.ways[u]
              /\ Became(i.set.ways[u], fill, masked)
              /\ \A w \in 1 .. n : w # u => Alike(i.set.ways[w], set.ways[w])
    BY <1>8
  <2>2. /\ i.set.ways[u].line = l
        /\ \A w \in 1 .. n : w # u => i.set.ways[w].line = set.ways[w].line
    BY <1>4, <2>1 DEF Alike, Became
  <2>3. ASSUME level = "L3", NEW w \in 1 .. n PROVE WaySound(i.set.ways[w], after, now)
    <3>1. WaySound(set.ways[w], owed, lent) /\ WaySound(set.ways[u], owed, lent)
      BY <2>3 DEF SetSound, n
    <3>2. CASE w = u
      <4>1. write => l \in after
        BY <1>6, <2>1, <2>3 DEF OwedAfter
      <4>2. run.maskArray /\ l \notin now => fill.stamp \in {NoLine, Undelivered, l}
        BY <1>1, <1>4, <2>3 DEF LentAfter, Lending, Own
      <4> QED
        BY <1>1, <1>4, <2>1, <2>3, <3>2, <4>1, <4>2 DEF WaySound, Became
    <3>3. CASE w # u
      <4>1. Alike(i.set.ways[w], set.ways[w])
        BY <2>1, <3>3
      <4>2. set.ways[w].dirty => set.ways[w].line \in after
        <5> SUFFICES ASSUME set.ways[w].dirty PROVE set.ways[w].line \in after
          OBVIOUS
        <5>1. set.ways[w].line \in owed /\ set.ways[w].line # NoLine
          BY <3>1, HierarchyAssumption DEF WaySound
        <5>2. set.ways[w].line # set.ways[u].line
          BY <3>3, <5>1 DEF SetSound, n
        <5> QED
          BY <2>1, <5>1, <5>2 DEF OwedAfter
      <4>3. set.ways[w].line \in lent => set.ways[w].line \in now
        BY <1>6 DEF LentAfter, Lending
      <4> QED
        BY <3>1, <4>1, <4>2, <4>3 DEF WaySound, Alike
    <3> QED
      BY <3>2, <3>3
  <2>4. level = "L3" /\ i.evicted.dirty => i.evicted.line % Sets[level] = l % Sets[level]
    <3> SUFFICES ASSUME level = "L3", i.evicted.dirty
                 PROVE  i.evicted.line % Sets[level] = l % Sets[level]
      OBVIOUS
    <3>1. WaySound(set.ways[u], owed, lent)
      BY DEF SetSound, n
    <3>2. set.ways[u].line # NoLine
      BY <2>1, <3>1, HierarchyAssumption DEF WaySound
    <3> QED
      BY <2>1, <3>2 DEF SetSound, n
  <2> HIDE DEF after, now
  <2>5. \A w \in 1 .. n :
           i.set.ways[w].line # NoLine => i.set.ways[w].line % Sets[level] = l % Sets[level]
    BY <2>2 DEF SetSound, n
  <2>6. \A w, v \in 1 .. n :
           i.set.ways[w].line = i.set.ways[v].line /\ i.set.ways[w].line # NoLine => w = v
    BY <1>6, <2>2 DEF SetSound, n
  <2>7. SetSound(level, l % Sets[level], i.set, after, now)
    BY <1>3, <2>3, <2>5, <2>6 DEF SetSound, n
  <2> QED
    BY <2>4, <2>7 DEF i, after, now, policy, masked
<1> QED
  BY <1>3, <1>7, <1>8 DEF ReplacesOne

-------------------------------------------------------------------------------
\* The hierarchy.

Fields == {"cache", "prefetched", "fills", "useful", "unused", "streams", "misses",
           "sampled", "winner", "columns", "slot", "owed", "lent"}

CacheSound(s) ==
    /\ DOMAIN s.cache = Levels
    /\ \A v \in Levels : /\ DOMAIN s.cache[v] = 0 .. Sets[v] - 1
                         /\ \A i \in 0 .. Sets[v] - 1 : SetSound(v, i, s.cache[v][i], s.owed, s.lent)
    /\ s.owed \in SUBSET Int /\ s.lent \in SUBSET Int

CountsSound(s) ==
    /\ IsFiniteSet(s.prefetched)
    /\ s.fills \in Nat /\ s.useful \in Nat /\ s.unused \in Nat
    /\ s.useful + s.unused + Cardinality(s.prefetched) <= s.fills

Sound(s) == DOMAIN s = Fields /\ CacheSound(s) /\ CountsSound(s)

SameCounts(t, s) ==
    t.prefetched = s.prefetched /\ t.fills = s.fills /\ t.useful = s.useful /\ t.unused = s.unused
SameCache(t, s) == t.cache = s.cache /\ t.owed = s.owed /\ t.lent = s.lent

LEMMA ModBounds ==
    ASSUME NEW l \in Int, NEW n \in Nat \ {0}
    PROVE  l % n \in 0 .. n - 1
BY SMT

LEMMA IndexTyped ==
    ASSUME NEW level \in Levels, NEW l \in Int
    PROVE  l % Sets[level] \in 0 .. Sets[level] - 1
BY LevelTyped, ModBounds

LEMMA SetOfSound ==
    ASSUME NEW s, Sound(s), NEW level \in Levels, NEW l \in Int
    PROVE  SetSound(level, l % Sets[level], SetOf(s, level, l), s.owed, s.lent)
BY IndexTyped DEF SetOf, Sound, CacheSound

LEMMA FrameSound ==
    ASSUME NEW s, Sound(s), NEW t, DOMAIN t = Fields, SameCache(t, s), SameCounts(t, s)
    PROVE  Sound(t)
BY DEF Sound, CacheSound, CountsSound, SameCache, SameCounts

\* A set is replaced; a line is owed no more when its set has just lost it, and has
\* a hint of its own again when it has just got it.
Replaced(s, level, l, set, t) ==
    /\ DOMAIN t = Fields /\ SameCounts(t, s) /\ t.owed \in SUBSET s.owed
    /\ t.cache = [s.cache EXCEPT ![level] = [s.cache[level] EXCEPT ![l % Sets[level]] = set]]
    /\ SetSound(level, l % Sets[level], set, t.owed, t.lent)
    /\ t.lent \in SUBSET Int
    /\ level # "L3" => t.owed = s.owed /\ t.lent = s.lent
    /\ level = "L3" => /\ \A e \in s.owed \ t.owed : e % Sets[level] = l % Sets[level]
                       /\ \A e \in s.lent \ t.lent : e % Sets[level] = l % Sets[level]

LEMMA CacheChange ==
    ASSUME NEW s, Sound(s), NEW level \in Levels, NEW l \in Int, NEW set,
           NEW t, Replaced(s, level, l, set, t)
    PROVE  /\ Sound(t)
           /\ SetOf(t, level, l) = set
           /\ \A v \in Levels, k \in Int :
                 v # level \/ k % Sets[v] # l % Sets[v] => SetOf(t, v, k) = SetOf(s, v, k)
<1> USE DEF Replaced
<1> DEFINE i == l % Sets[level]
<1>1. i \in 0 .. Sets[level] - 1
  BY IndexTyped
<1>2. /\ DOMAIN s.cache = Levels
      /\ \A v \in Levels : /\ DOMAIN s.cache[v] = 0 .. Sets[v] - 1
                           /\ \A j \in 0 .. Sets[v] - 1 : SetSound(v, j, s.cache[v][j], s.owed, s.lent)
      /\ s.owed \in SUBSET Int /\ s.lent \in SUBSET Int
  BY DEF Sound, CacheSound
<1> HIDE DEF i
<1>3. /\ DOMAIN t.cache = Levels /\ DOMAIN t.cache[level] = 0 .. Sets[level] - 1
      /\ t.cache[level][i] = set
      /\ \A j \in 0 .. Sets[level] - 1 : j # i => t.cache[level][j] = s.cache[level][j]
      /\ \A v \in Levels : v # level => t.cache[v] = s.cache[v]
  BY <1>1, <1>2 DEF i
<1>4. ASSUME NEW v \in Levels, NEW j \in 0 .. Sets[v] - 1
      PROVE  SetSound(v, j, t.cache[v][j], t.owed, t.lent)
  <2>1. CASE v = level /\ j = i
    BY <1>3, <2>1 DEF i
  <2>2. CASE v # "L3" /\ ~(v = level /\ j = i)
    <3>1. SetSound(v, j, t.cache[v][j], s.owed, s.lent)
      BY <1>2, <1>3, <2>2
    <3> QED
      BY <2>2, <3>1 DEF SetSound
  <2>3. CASE v = "L3" /\ v # level
    BY <1>2, <1>3, <2>3
  <2>4. CASE v = "L3" /\ v = level /\ j # i
    <3>1. SetSound(v, j, s.cache[v][j], s.owed, s.lent) /\ t.cache[v][j] = s.cache[v][j]
      BY <1>2, <1>3, <2>4
    <3>2. ASSUME NEW w \in 1 .. Ways[v] PROVE WaySound(s.cache[v][j].ways[w], t.owed, t.lent)
      <4> DEFINE way == s.cache[v][j].ways[w]
      <4>1. WaySound(way, s.owed, s.lent) /\ (way.line # NoLine => way.line % Sets[v] = j)
        BY <2>4, <3>1 DEF SetSound
      <4>2. way.dirty => way.line \in t.owed
        <5> SUFFICES ASSUME way.dirty PROVE way.line \in t.owed
          OBVIOUS
        <5> HIDE DEF way
        <5>1. way.line \in s.owed /\ way.line # NoLine
          BY <1>2, <4>1, HierarchyAssumption DEF WaySound
        <5>2. way.line % Sets[v] # i
          BY <2>4, <4>1, <5>1
        <5> QED
          BY <2>4, <5>1, <5>2 DEF i
      <4>3. way.line \in s.lent => way.line \in t.lent
        <5> SUFFICES ASSUME way.line \in s.lent PROVE way.line \in t.lent
          OBVIOUS
        <5> HIDE DEF way
        <5>1. way.line # NoLine
          BY <1>2, HierarchyAssumption
        <5>2. way.line % Sets[v] # i
          BY <2>4, <4>1, <5>1
        <5> QED
          BY <2>4, <5>2 DEF i
      <4> QED
        BY <4>1, <4>2, <4>3 DEF WaySound
    <3> QED
      BY <3>1, <3>2 DEF SetSound
  <2> QED
    BY <2>1, <2>2, <2>3, <2>4
<1>5. CacheSound(t)
  BY <1>2, <1>3, <1>4 DEF CacheSound
<1>6. Sound(t)
  BY <1>5 DEF Sound, CountsSound, SameCounts
<1>7. ASSUME NEW v \in Levels, NEW k \in Int, v # level \/ k % Sets[v] # l % Sets[v]
      PROVE  SetOf(t, v, k) = SetOf(s, v, k)
  <2>1. k % Sets[v] \in 0 .. Sets[v] - 1
    BY IndexTyped
  <2> QED
    BY <1>3, <1>7, <2>1 DEF SetOf, i
<1> QED
  BY <1>3, <1>6, <1>7 DEF SetOf, i

LEMMA TouchSound ==
    ASSUME run \in Workloads, NEW x, CallOk(x), NEW s, Sound(s), NEW level \in Levels,
           NEW l \in Int, Has(s, level, l), NEW write \in BOOLEAN, Own(x, l), write => l \in s.owed
    PROVE  LET t == Touched(x, s, level, l, write)
           IN  /\ Sound(t) /\ t.owed = s.owed
               /\ \A v \in Levels, k \in Int : Has(t, v, k) <=> Has(s, v, k)
<1> DEFINE i == l % Sets[level]
           set == AfterHit(PolicyOf(x, level), SetOf(s, level, l), l, write, x.hint)
           t == Touched(x, s, level, l, write)
<1>1. /\ SetSound(level, i, set, s.owed, Lending(x, level, l, s.lent))
      /\ \A k : Holds(set, k) <=> Holds(SetOf(s, level, l), k)
  BY SetOfSound, SetAfterHit DEF Has
<1> HIDE DEF set
<1>2. t = [s EXCEPT !.cache[level][l % Sets[level]] = set, !.lent = Lending(x, level, l, s.lent)]
  BY DEF Touched, set
<1> HIDE DEF t
<1>3. /\ DOMAIN t = Fields /\ SameCounts(t, s) /\ t.owed = s.owed
      /\ t.lent = Lending(x, level, l, s.lent)
      /\ t.cache = [s.cache EXCEPT ![level] = [s.cache[level] EXCEPT ![i] = set]]
  BY <1>2 DEF Sound, Fields, SameCounts
<1>4. /\ Sound(t) /\ SetOf(t, level, l) = set
      /\ \A v \in Levels, k \in Int :
            v # level \/ k % Sets[v] # l % Sets[v] => SetOf(t, v, k) = SetOf(s, v, k)
  <2>1. Replaced(s, level, l, set, t)
    <3>1. s.lent \in SUBSET Int
      BY DEF Sound, CacheSound
    <3> QED
      BY <1>1, <1>3, <3>1 DEF Replaced, Lending
  <2> QED
    BY <2>1, CacheChange
<1>5. ASSUME NEW v \in Levels, NEW k \in Int PROVE Has(t, v, k) <=> Has(s, v, k)
  <2>1. CASE v # level \/ k % Sets[v] # l % Sets[v]
    BY <1>4, <2>1 DEF Has
  <2>2. CASE v = level /\ k % Sets[v] = l % Sets[v]
    BY <1>1, <1>4, <2>2 DEF Has, SetOf
  <2> QED
    BY <2>1, <2>2
<1> QED
  BY <1>3, <1>4, <1>5 DEF t

LEMMA RefreshSound ==
    ASSUME NEW x, CallOk(x), NEW s, Sound(s), NEW l \in Int, Own(x, l)
    PROVE  LET t == Refresh(x, s, l)
           IN  /\ Sound(t) /\ t.owed = s.owed
               /\ \A v \in Levels, k \in Int : Has(t, v, k) <=> Has(s, v, k)
<1> DEFINE level == "L3"
           i == l % Sets[level]
           set == Refreshed(SetOf(s, level, l), l, x.hint)
           t == Refresh(x, s, l)
<1>1. CASE x.run.policy # "ECG"
  BY <1>1 DEF Refresh
<1>2. CASE x.run.policy = "ECG"
  <2>0. level \in Levels
    BY DEF Levels
  <2>1. /\ SetSound(level, i, set, s.owed, Lending(x, level, l, s.lent))
        /\ \A k : Holds(set, k) <=> Holds(SetOf(s, level, l), k)
    BY <2>0, SetOfSound, SetRefreshed
  <2> HIDE DEF set
  <2>2. t = [s EXCEPT !.cache[level][l % Sets[level]] = set, !.lent = Lending(x, level, l, s.lent)]
    BY <1>2 DEF Refresh, set
  <2> HIDE DEF t, level
  <2>3. /\ DOMAIN t = Fields /\ SameCounts(t, s) /\ t.owed = s.owed
        /\ t.lent = Lending(x, level, l, s.lent)
        /\ t.cache = [s.cache EXCEPT ![level] = [s.cache[level] EXCEPT ![i] = set]]
    BY <2>2 DEF Sound, Fields, SameCounts
  <2>4. /\ Sound(t) /\ SetOf(t, level, l) = set
        /\ \A v \in Levels, k \in Int :
              v # level \/ k % Sets[v] # l % Sets[v] => SetOf(t, v, k) = SetOf(s, v, k)
    <3>1. Replaced(s, level, l, set, t)
      <4>1. s.lent \in SUBSET Int
        BY DEF Sound, CacheSound
      <4> QED
        BY <2>1, <2>3, <4>1 DEF Replaced, Lending
    <3> QED
      BY <2>0, <3>1, CacheChange
  <2>5. ASSUME NEW v \in Levels, NEW k \in Int PROVE Has(t, v, k) <=> Has(s, v, k)
    <3>1. CASE v # level \/ k % Sets[v] # l % Sets[v]
      BY <2>4, <3>1 DEF Has
    <3>2. CASE v = level /\ k % Sets[v] = l % Sets[v]
      BY <2>1, <2>4, <3>2 DEF Has, SetOf
    <3> QED
      BY <3>1, <3>2
  <2> QED
    BY <2>3, <2>4, <2>5 DEF t
<1> QED
  BY <1>1, <1>2

\* An insertion where the level lacks the line; the other levels stay.
LEMMA PutSound ==
    ASSUME run \in Workloads, NEW x, CallOk(x), NEW s, Sound(s), NEW level \in Levels,
           NEW l \in Int, ~Has(s, level, l), NEW write \in BOOLEAN,
           level = "L3" => /\ Own(x, l) /\ (write => l \in s.owed)
                           /\ l \in RecordLines => ~Bypassed(l)
    PROVE  LET t == Put(x, s, level, l, write)
           IN  /\ Sound(t)
               /\ \A v \in Levels : v # level => (Has(t, v, l) <=> Has(s, v, l))
<1> DEFINE i == Inserted(PolicyOf(x, level), SetOf(s, level, l), l, write, x.hint,
                         x.run.maskArray, x.vertex, x.pick)
           t == Put(x, s, level, l, write)
<1>1. SetSound(level, l % Sets[level], SetOf(s, level, l), s.owed, s.lent)
  BY SetOfSound
<1>2. ~Holds(SetOf(s, level, l), l) /\ s.owed \in SUBSET Int /\ s.lent \in SUBSET Int
  BY DEF Has, Sound, CacheSound
<1>3. /\ SetSound(level, l % Sets[level], i.set, OwedAfter(level, i.evicted, s.owed),
                  LentAfter(x, level, l, s.lent))
      /\ level = "L3" /\ i.evicted.dirty => i.evicted.line % Sets[level] = l % Sets[level]
  BY <1>1, <1>2, SetInserted
<1>4. t = [s EXCEPT !.cache[level][l % Sets[level]] = i.set,
                    !.owed = OwedAfter(level, i.evicted, s.owed),
                    !.lent = LentAfter(x, level, l, s.lent)]
  BY DEF Put, OwedAfter, LentAfter
<1> HIDE DEF i, t
<1>5. /\ DOMAIN t = Fields /\ SameCounts(t, s)
      /\ t.owed = OwedAfter(level, i.evicted, s.owed) /\ t.lent = LentAfter(x, level, l, s.lent)
      /\ t.cache = [s.cache EXCEPT ![level] = [s.cache[level] EXCEPT ![l % Sets[level]] = i.set]]
  BY <1>4 DEF Sound, Fields, SameCounts
<1>6. /\ t.owed \in SUBSET s.owed
      /\ t.lent \in SUBSET Int
      /\ level # "L3" => t.owed = s.owed /\ t.lent = s.lent
      /\ level = "L3" => /\ \A e \in s.owed \ t.owed : e % Sets[level] = l % Sets[level]
                         /\ \A e \in s.lent \ t.lent : e % Sets[level] = l % Sets[level]
  <2>1. /\ t.owed \in SUBSET s.owed /\ (level # "L3" => t.owed = s.owed)
        /\ level = "L3" => \A e \in s.owed \ t.owed : e % Sets[level] = l % Sets[level]
    BY <1>3, <1>5 DEF OwedAfter
  <2>2. /\ t.lent \in SUBSET Int /\ (level # "L3" => t.lent = s.lent)
        /\ \A e \in s.lent \ t.lent : e = l
    BY <1>2, <1>5 DEF LentAfter, Lending
  <2> QED
    BY <2>1, <2>2
<1>7. /\ Sound(t)
      /\ \A v \in Levels, k \in Int :
            v # level \/ k % Sets[v] # l % Sets[v] => SetOf(t, v, k) = SetOf(s, v, k)
  <2>1. Replaced(s, level, l, i.set, t)
    BY <1>3, <1>5, <1>6 DEF Replaced
  <2> QED
    BY <2>1, CacheChange
<1>8. \A v \in Levels : v # level => (Has(t, v, l) <=> Has(s, v, l))
  BY <1>7 DEF Has
<1> QED
  BY <1>7, <1>8 DEF t

-------------------------------------------------------------------------------
\* The calls' parts.

LEMMA LevelNames == "L1" \in Levels /\ "L2" \in Levels /\ "L3" \in Levels
BY DEF Levels

\* A line may be brought in: the hint is its own, and a record is asked of the placement.
Asked(x, l, record) ==
    Own(x, l) /\ (record => x.run.adaptive = run.adaptive) /\ (~record => l \notin RecordLines)

LEMMA SettledSound ==
    ASSUME NEW s, Sound(s), NEW l, NEW was, NEW useful
    PROVE  Sound(Settled(s, l, was, useful)) /\ SameCache(Settled(s, l, was, useful), s)
<1>1. CASE ~(was /\ l \in s.prefetched)
  BY <1>1 DEF Settled, SameCache
<1>2. CASE was /\ l \in s.prefetched
  <2> DEFINE t == Settled(s, l, was, useful)
  <2>1. /\ DOMAIN t = Fields /\ SameCache(t, s) /\ t.fills = s.fills
        /\ t.prefetched = s.prefetched \ {l}
        /\ t.useful = s.useful + (IF useful THEN 1 ELSE 0)
        /\ t.unused = s.unused + (IF useful THEN 0 ELSE 1)
    BY <1>2 DEF Settled, Sound, Fields, SameCache
  <2> HIDE DEF t
  <2>2. /\ IsFiniteSet(s.prefetched) /\ s.fills \in Nat /\ s.useful \in Nat /\ s.unused \in Nat
        /\ s.useful + s.unused + Cardinality(s.prefetched) <= s.fills
    BY DEF Sound, CountsSound
  <2>3. /\ IsFiniteSet(t.prefetched)
        /\ Cardinality(t.prefetched) = Cardinality(s.prefetched) - 1
    BY <1>2, <2>1, <2>2, FS_RemoveElement
  <2>4. Cardinality(s.prefetched) \in Nat
    BY <2>2, FS_CardinalityType
  <2>5. /\ t.useful \in Nat /\ t.unused \in Nat
        /\ t.useful + t.unused = s.useful + s.unused + 1
    <3>1. CASE useful
      BY <2>1, <2>2, <3>1, SMT
    <3>2. CASE ~useful
      BY <2>1, <2>2, <3>2, SMT
    <3> QED
      BY <3>1, <3>2
  <2>6. t.useful + t.unused + Cardinality(t.prefetched) <= t.fills
    BY <2>1, <2>2, <2>3, <2>4, <2>5, SMT
  <2>7. CountsSound(t)
    BY <2>1, <2>2, <2>3, <2>5, <2>6 DEF CountsSound
  <2>8. CacheSound(t)
    BY <2>1 DEF Sound, CacheSound, SameCache
  <2> QED
    BY <2>1, <2>7, <2>8 DEF Sound, t
<1> QED
  BY <1>1, <1>2

LEMMA PlacementSound ==
    ASSUME NEW s, Sound(s), NEW set
    PROVE  Sound(PlacementMiss(s, set)) /\ SameCache(PlacementMiss(s, set), s)
<1> DEFINE t == PlacementMiss(s, set)
<1>1. DOMAIN t = Fields /\ SameCache(t, s) /\ SameCounts(t, s)
  BY DEF PlacementMiss, Sound, Fields, SameCache, SameCounts
<1> HIDE DEF t
<1>2. Sound(t)
  BY <1>1, FrameSound
<1> QED
  BY <1>1, <1>2 DEF t

LEMMA SameHas ==
    ASSUME NEW s, NEW t, SameCache(t, s)
    PROVE  \A v, l : Has(t, v, l) <=> Has(s, v, l)
BY DEF SameCache, Has, SetOf

LEMMA FilledPrivateSound ==
    ASSUME run \in Workloads, NEW x, CallOk(x), NEW s, Sound(s), NEW l \in Int,
           MissesPrivate(s, l), NEW write \in BOOLEAN
    PROVE  Sound(FilledPrivate(x, s, l, write))
<1> DEFINE t == Put(x, s, "L2", l, write)
<1>1. ~Has(s, "L1", l) /\ ~Has(s, "L2", l)
  BY DEF MissesPrivate
<1>2. Sound(t) /\ ~Has(t, "L1", l)
  BY <1>1, LevelNames, PutSound
<1> HIDE DEF t
<1>3. Sound(Put(x, t, "L1", l, write))
  BY <1>2, LevelNames, PutSound
<1> QED
  BY <1>3 DEF FilledPrivate, t

LEMMA FilledPastSound ==
    ASSUME run \in Workloads, NEW x, CallOk(x), NEW s, Sound(s), NEW l \in Int,
           MissesAll(s, l), NEW write \in BOOLEAN, write => l \in s.owed,
           NEW record \in BOOLEAN, Asked(x, l, record)
    PROVE  Sound(FilledPast(x, s, l, write, record))
<1> DEFINE flowThrough == record /\ (x.run.adaptive => ShouldFlowThrough(s, l % Sets["L3"]))
           t == IF flowThrough THEN s ELSE Put(x, s, "L3", l, write)
<1>1. ~Has(s, "L1", l) /\ ~Has(s, "L2", l) /\ ~Has(s, "L3", l)
  BY LevelNames DEF MissesAll
<1>2. CASE flowThrough
  <2>1. t = s
    BY <1>2
  <2> HIDE DEF t
  <2>2. Sound(t) /\ MissesPrivate(t, l)
    BY <1>1, <2>1 DEF MissesPrivate
  <2>3. Sound(FilledPrivate(x, t, l, write))
    BY <2>2, FilledPrivateSound
  <2> QED
    BY <2>3 DEF FilledPast, t
<1>3. CASE ~flowThrough
  <2>1. l \in RecordLines => ~Bypassed(l)
    BY <1>3 DEF Asked, Bypassed, ShouldFlowThrough
  <2>2. Own(x, l)
    BY DEF Asked
  <2>3. t = Put(x, s, "L3", l, write)
    BY <1>3
  <2> HIDE DEF t
  <2>4. Sound(t) /\ MissesPrivate(t, l)
    BY <1>1, <2>1, <2>2, <2>3, LevelNames, PutSound DEF MissesPrivate
  <2>5. Sound(FilledPrivate(x, t, l, write))
    BY <2>4, FilledPrivateSound
  <2> QED
    BY <2>5 DEF FilledPast, t
<1> QED
  BY <1>2, <1>3

LEMMA FilledAllSound ==
    ASSUME run \in Workloads, NEW x, CallOk(x), NEW s, Sound(s), NEW l \in Int,
           MissesAll(s, l), NEW write \in BOOLEAN, write => l \in s.owed,
           NEW record \in BOOLEAN, Asked(x, l, record)
    PROVE  Sound(FilledAll(x, s, l, write, record))
<1> DEFINE t == IF x.run.adaptive THEN PlacementMiss(s, l % Sets["L3"]) ELSE s
<1>1. Sound(t) /\ SameCache(t, s)
  <2>1. SameCache(s, s)
    BY DEF SameCache
  <2> QED
    BY <2>1, PlacementSound
<1> HIDE DEF t
<1>2. MissesAll(t, l) /\ (write => l \in t.owed)
  BY <1>1, SameHas DEF MissesAll, SameCache
<1>3. Sound(FilledPast(x, t, l, write, record))
  BY <1>1, <1>2, FilledPastSound
<1> QED
  BY <1>3 DEF FilledAll, t

LEMMA PromotedSound ==
    ASSUME run \in Workloads, NEW x, CallOk(x), NEW s, Sound(s), NEW l \in Int
    PROVE  Sound(Promoted(x, s, l))
<1> DEFINE t == IF Has(s, "L2", l) THEN s ELSE Put(x, s, "L2", l, FALSE)
<1>1. CASE Has(s, "L1", l)
  BY <1>1 DEF Promoted
<1>2. CASE ~Has(s, "L1", l)
  <2>1. Sound(t) /\ ~Has(t, "L1", l)
    <3>1. CASE Has(s, "L2", l)
      BY <1>2, <3>1
    <3>2. CASE ~Has(s, "L2", l)
      BY <1>2, <3>2, LevelNames, PutSound
    <3> QED
      BY <3>1, <3>2
  <2> HIDE DEF t
  <2>2. Sound(Put(x, t, "L1", l, FALSE))
    BY <2>1, LevelNames, PutSound
  <2> QED
    BY <1>2, <2>2 DEF Promoted, t
<1> QED
  BY <1>1, <1>2

LEMMA PrefetchedSound ==
    ASSUME run \in Workloads, NEW x, CallOk(x), NEW s, Sound(s), NEW l \in Int,
           NEW record \in BOOLEAN, Asked(x, l, record)
    PROVE  Sound(Prefetched(x, s, l, record))
<1> DEFINE y == IF record THEN x ELSE [x EXCEPT !.run.adaptive = FALSE]
           t == [s EXCEPT !.fills = @ + 1, !.prefetched = @ \cup {l}]
<1>1. CASE ~MissesAll(s, l)
  BY <1>1, PromotedSound DEF Prefetched
<1>2. CASE MissesAll(s, l)
  <2>1. CallOk(y) /\ Asked(y, l, record)
    <3>1. CASE record
      BY <3>1
    <3>2. CASE ~record
      <4> DEFINE z == [x EXCEPT !.run.adaptive = FALSE]
      <4>1. z.hint = x.hint /\ z.vertex = x.vertex /\ z.pick = x.pick /\ z.lent = x.lent
            /\ DOMAIN z = DOMAIN x
        OBVIOUS
      <4>2. z.run = [x.run EXCEPT !.adaptive = FALSE]
        BY DEF CallOk
      <4>3. {"policy", "degree", "maskArray"} \subseteq DOMAIN x.run
        BY RunTyped DEF CallOk
      <4> HIDE DEF z
      <4>4. /\ DOMAIN z.run = DOMAIN x.run
            /\ z.run.policy = x.run.policy /\ z.run.degree = x.run.degree
            /\ z.run.maskArray = x.run.maskArray
        BY <4>2, <4>3
      <4>5. CallOk(z) /\ Asked(z, l, record)
        BY <3>2, <4>1, <4>4 DEF CallOk, Asked, Own
      <4> QED
        BY <3>2, <4>5 DEF z
    <3> QED
      BY <3>1, <3>2
  <2>2. /\ DOMAIN t = Fields /\ SameCache(t, s) /\ t.fills = s.fills + 1
        /\ t.prefetched = s.prefetched \cup {l}
        /\ t.useful = s.useful /\ t.unused = s.unused
    BY DEF Sound, Fields, SameCache
  <2> HIDE DEF t, y
  <2>3. CountsSound(t)
    <3>1. /\ IsFiniteSet(s.prefetched) /\ s.fills \in Nat /\ s.useful \in Nat /\ s.unused \in Nat
          /\ s.useful + s.unused + Cardinality(s.prefetched) <= s.fills
      BY DEF Sound, CountsSound
    <3>2. Cardinality(s.prefetched) \in Nat
      BY <3>1, FS_CardinalityType
    <3>3. /\ IsFiniteSet(t.prefetched)
          /\ Cardinality(t.prefetched) \in {Cardinality(s.prefetched), Cardinality(s.prefetched) + 1}
      BY <2>2, <3>1, FS_AddElement
    <3>4. t.useful + t.unused + Cardinality(t.prefetched) <= t.fills /\ t.fills \in Nat
      BY <2>2, <3>1, <3>2, <3>3, SMT
    <3> QED
      BY <2>2, <3>1, <3>3, <3>4 DEF CountsSound
  <2>4. Sound(t)
    BY <2>2, <2>3 DEF Sound, CacheSound, SameCache
  <2>5. MissesAll(t, l)
    BY <1>2, <2>2, SameHas DEF MissesAll
  <2>6. Sound(FilledAll(y, t, l, FALSE, record))
    BY <2>1, <2>4, <2>5, FilledAllSound
  <2> QED
    BY <1>2, <2>6 DEF Prefetched, t, y
<1> QED
  BY <1>1, <1>2

\* The detector may run ahead of the line.
AheadAllowed(x, l, record) ==
    \A k \in 0 .. run.degree :
        (l + k) \div RegionLines = l \div RegionLines => Asked(x, l + k, record)

\* A demand may bring in its line and those the detector runs ahead to.
Demandable(x, l, record) ==
    /\ Asked(x, l, record)
    /\ ~record => \A k \in 0 .. run.degree :
          (l + k) \div RegionLines = l \div RegionLines => l + k \notin RecordLines

LEMMA OneAheadSound ==
    ASSUME run \in Workloads, NEW x, CallOk(x), NEW l \in Int, NEW record \in BOOLEAN,
           AheadAllowed(x, l, record), NEW k \in 1 .. run.degree,
           NEW a, DOMAIN a = {"s", "going"}, Sound(a.s)
    PROVE  LET b == OneAhead(x, a, l, k, record)
           IN  DOMAIN b = {"s", "going"} /\ Sound(b.s)
<1> DEFINE stops == \/ ~a.going \/ Cardinality(a.s.prefetched) >= MaxInFlight
                    \/ (l + k) \div RegionLines # l \div RegionLines
           b == OneAhead(x, a, l, k, record)
<1>1. CASE stops
  <2>1. b = [a EXCEPT !.going = FALSE]
    BY <1>1 DEF OneAhead
  <2> HIDE DEF b
  <2>2. DOMAIN b = {"s", "going"} /\ b.s = a.s
    BY <2>1
  <2> QED
    BY <2>2 DEF b
<1>2. CASE ~stops
  <2>1. b = [a EXCEPT !.s = Prefetched(x, a.s, l + k, record)]
    BY <1>2 DEF OneAhead
  <2>2. k \in 0 .. run.degree /\ l + k \in Int
    BY RunTyped, SMT
  <2>3. Asked(x, l + k, record)
    BY <1>2, <2>2 DEF AheadAllowed
  <2>4. Sound(Prefetched(x, a.s, l + k, record))
    BY <2>2, <2>3, PrefetchedSound
  <2> HIDE DEF b
  <2>5. DOMAIN b = {"s", "going"} /\ b.s = Prefetched(x, a.s, l + k, record)
    BY <2>1
  <2> QED
    BY <2>4, <2>5 DEF b
<1> QED
  BY <1>1, <1>2

\* The recursion over the lines ahead has a value for every degree.
LEMMA AheadDefined ==
    ASSUME NEW x, NEW start, NEW l, NEW record, NEW d \in Nat
    PROVE  \E f : f = [k \in 0 .. d |->
               IF k = 0 THEN start ELSE OneAhead(x, f[k - 1], l, k, record)]
<1> DEFINE Value(f, k) ==
               IF k = 0 THEN start ELSE OneAhead(x, f[k - 1], l, k, record)
           Defined == {n \in Nat : \E f : f = [k \in 0 .. n |-> Value(f, k)]}
<1>1. 0 \in Defined
  <2> DEFINE g == [k \in 0 .. 0 |-> start]
  <2>1. g = [k \in 0 .. 0 |-> Value(g, k)]
    OBVIOUS
  <2> QED
    BY <2>1
<1>2. ASSUME NEW n \in Defined PROVE n + 1 \in Defined
  <2>1. PICK f : f = [k \in 0 .. n |-> Value(f, k)]
    BY <1>2
  <2> DEFINE g == [k \in 0 .. n + 1 |->
                      IF k = n + 1 THEN OneAhead(x, f[n], l, n + 1, record) ELSE f[k]]
  <2>2. n \in Nat /\ n + 1 \in Nat
    BY <1>2, SMT
  <2>3. ASSUME NEW k \in 0 .. n + 1 PROVE g[k] = Value(g, k)
    <3>1. CASE k = n + 1
      <4>1. k - 1 = n /\ k # 0 /\ n \in 0 .. n + 1 /\ n # n + 1
        BY <2>2, <3>1, SMT
      <4>2. g[n] = f[n] /\ g[k] = OneAhead(x, f[n], l, n + 1, record)
        BY <3>1, <4>1
      <4> QED
        BY <3>1, <4>1, <4>2
    <3>2. CASE k # n + 1
      <4>1. k \in 0 .. n /\ (k # 0 => k - 1 \in 0 .. n + 1 /\ k - 1 # n + 1)
        BY <2>2, <3>2, SMT
      <4>2. g[k] = f[k] /\ f[k] = Value(f, k)
        BY <2>1, <3>2, <4>1
      <4>3. k # 0 => g[k - 1] = f[k - 1]
        BY <4>1
      <4> QED
        BY <4>2, <4>3
    <3> QED
      BY <3>1, <3>2
  <2>4. g = [k \in 0 .. n + 1 |-> Value(g, k)]
    BY <2>3
  <2> HIDE DEF g
  <2> QED
    BY <2>2, <2>4
<1>3. Defined = Nat
  BY <1>1, <1>2, SetInduction
<1> QED
  BY <1>3

Start(s) == [s |-> s, going |-> TRUE]

LEMMA RunAheadSound ==
    ASSUME run \in Workloads, NEW x, CallOk(x), NEW s, Sound(s), NEW l \in Int,
           NEW record \in BOOLEAN, AheadAllowed(x, l, record)
    PROVE  Sound(RunAhead(x, s, l, record))
<1> DEFINE d == x.run.degree
           f == CHOOSE g : g = [k \in 0 .. d |->
                    IF k = 0 THEN Start(s) ELSE OneAhead(x, g[k - 1], l, k, record)]
<1>1. d \in Nat /\ d = run.degree
  BY RunTyped DEF CallOk
<1>2. RunAhead(x, s, l, record) = f[d].s
  BY DEF RunAhead, Start
<1> HIDE DEF d
<1>3. f = [k \in 0 .. d |-> IF k = 0 THEN Start(s) ELSE OneAhead(x, f[k - 1], l, k, record)]
  BY <1>1, AheadDefined
<1> HIDE DEF f
<1> DEFINE Right(k) == DOMAIN f[k] = {"s", "going"} /\ Sound(f[k].s)
           Reached == {k \in Nat : k <= d => Right(k)}
<1>4. 0 \in Reached
  <2>1. f[0] = Start(s)
    BY <1>1, <1>3
  <2> QED
    BY <2>1 DEF Start
<1>5. ASSUME NEW k \in Reached PROVE k + 1 \in Reached
  <2> SUFFICES ASSUME k + 1 <= d PROVE Right(k + 1)
    BY <1>5, SMT
  <2>1. k \in Nat /\ k <= d /\ k + 1 \in 0 .. d /\ k + 1 # 0 /\ (k + 1) - 1 = k
        /\ k + 1 \in 1 .. run.degree
    BY <1>1, <1>5, SMT
  <2>2. Right(k)
    BY <1>5, <2>1
  <2>3. f[k + 1] = OneAhead(x, f[k], l, k + 1, record)
    BY <1>3, <2>1
  <2> QED
    BY <2>1, <2>2, <2>3, OneAheadSound
<1>6. d \in Reached
  BY <1>1, <1>4, <1>5, SetInduction
<1>7. Sound(f[d].s)
  BY <1>1, <1>6, SMT
<1> QED
  BY <1>2, <1>7

LEMMA StreamedSound ==
    ASSUME run \in Workloads, NEW x, CallOk(x), NEW s, Sound(s), NEW l \in Int,
           NEW record \in BOOLEAN, Demandable(x, l, record)
    PROVE  Sound(Streamed(x, s, l, record))
<1> DEFINE region == l \div RegionLines
           entry == s.streams[region % TableEntries]
           seen == IF l = entry.last + 1 THEN Smaller(entry.seen + 1, Confirmations) ELSE 0
           trained(n) == [s EXCEPT !.streams[region % TableEntries] =
                             [region |-> region, last |-> l, seen |-> n]]
           y == [x EXCEPT !.lent = ForOthers(x.hint)]
<1>0. CallOk(y) /\ AheadAllowed(y, l, record)
  <2>1. /\ DOMAIN y = DOMAIN x /\ y.lent = ForOthers(x.hint)
        /\ y.hint = x.hint /\ y.vertex = x.vertex /\ y.pick = x.pick /\ y.run = x.run
    BY DEF CallOk
  <2> HIDE DEF y
  <2>2. CallOk(y)
    BY <2>1 DEF CallOk
  <2>3. \A m : Own(y, m)
    BY <2>1 DEF Own, ForOthers
  <2> QED
    BY <2>1, <2>2, <2>3 DEF Demandable, AheadAllowed, Asked
<1>1. ASSUME NEW n PROVE Sound(trained(n))
  <2>1. DOMAIN trained(n) = Fields /\ SameCache(trained(n), s) /\ SameCounts(trained(n), s)
    BY DEF Sound, Fields, SameCache, SameCounts
  <2> HIDE DEF trained
  <2> QED
    BY <2>1, FrameSound
<1>2. Sound(RunAhead(y, trained(seen), l, record))
  <2> HIDE DEF trained, seen, y
  <2> QED
    BY <1>0, <1>1, RunAheadSound
<1>3. Streamed(x, s, l, record) \in {s, trained(0), trained(seen), RunAhead(y, trained(seen), l, record)}
  <2>1. Streamed(x, s, l, record) =
          IF x.run.degree = 0 \/ (entry.region = region /\ l = entry.last) THEN s
          ELSE IF entry.region # region THEN trained(0)
          ELSE IF seen < Confirmations THEN trained(seen)
          ELSE RunAhead(y, trained(seen), l, record)
    BY DEF Streamed
  <2> HIDE DEF trained, seen, entry, region, y
  <2> QED
    BY <2>1
<1> HIDE DEF trained, seen, y
<1> QED
  BY <1>1, <1>2, <1>3

LEMMA ServingRight ==
    ASSUME NEW s, NEW l, NEW v, v = Serving(s, l)
    PROVE  \/ v = "L1" /\ Has(s, "L1", l)
           \/ v = "L2" /\ Has(s, "L2", l) /\ ~Has(s, "L1", l)
           \/ v = "L3" /\ Has(s, "L3", l) /\ MissesPrivate(s, l)
           \/ v = "memory" /\ MissesAll(s, l)
<1> DEFINE Serves(u) ==
               \/ u = "L1" /\ Has(s, u, l)
               \/ u = "L2" /\ Has(s, u, l) /\ ~Has(s, "L1", l)
               \/ u = "L3" /\ Has(s, u, l) /\ MissesPrivate(s, l)
               \/ u = "memory" /\ MissesAll(s, l)
<1>1. Serves("L1") \/ Serves("L2") \/ Serves("L3") \/ Serves("memory")
  BY DEF MissesPrivate, MissesAll, Levels
<1>2. \E u \in Levels \cup {"memory"} : Serves(u)
  BY <1>1, LevelNames
<1>3. v = CHOOSE u \in Levels \cup {"memory"} : Serves(u)
  BY DEF Serving
<1> HIDE DEF Serves
<1>4. Serves(v)
  BY <1>2, <1>3
<1> QED
  BY <1>4 DEF Serves

LEMMA RaisedSound ==
    ASSUME run \in Workloads, NEW x, CallOk(x), NEW s, Sound(s), NEW l \in Int,
           NEW write \in BOOLEAN, NEW served \in Levels,
           served # "L1" => ~Has(s, "L1", l), served = "L3" => ~Has(s, "L2", l)
    PROVE  Sound(Raised(x, s, l, write, served))
<1>1. CASE served = "L1"
  BY <1>1 DEF Raised
<1>2. CASE served = "L2"
  <2>1. Sound(Put(x, s, "L1", l, write))
    BY <1>2, LevelNames, PutSound
  <2> QED
    BY <1>2, <2>1 DEF Raised
<1>3. CASE served = "L3"
  <2>1. Sound(FilledPrivate(x, s, l, write))
    BY <1>3, FilledPrivateSound DEF MissesPrivate
  <2> QED
    BY <1>3, <2>1 DEF Raised
<1> QED
  BY <1>1, <1>2, <1>3 DEF Levels

LEMMA LookedUpSound ==
    ASSUME run \in Workloads, NEW x, CallOk(x), NEW s, Sound(s), NEW l \in Int,
           NEW write \in BOOLEAN, write => l \in s.owed, NEW record \in BOOLEAN,
           Asked(x, l, record), NEW served, served = Serving(s, l)
    PROVE  Sound(LookedUp(x, s, l, write, record, served))
<1> DEFINE hit == Touched(x, s, served, l, write)
           t == IF served = "L3" /\ x.run.refresh = "llc" /\ ~record THEN Refresh(x, hit, l) ELSE hit
<1>1. CASE served = "memory"
  <2>1. MissesAll(s, l)
    BY <1>1, ServingRight
  <2>2. Sound(FilledAll(x, s, l, write, record))
    BY <2>1, FilledAllSound
  <2> QED
    BY <1>1, <2>2 DEF LookedUp
<1>2. CASE served # "memory"
  <2>1. /\ served \in Levels /\ Has(s, served, l)
        /\ served # "L1" => ~Has(s, "L1", l)
        /\ served = "L3" => ~Has(s, "L2", l)
    BY <1>2, ServingRight, LevelNames DEF MissesPrivate
  <2>2. Own(x, l)
    BY DEF Asked
  <2>3. Sound(hit) /\ \A v \in Levels, k \in Int : Has(hit, v, k) <=> Has(s, v, k)
    BY <2>1, <2>2, TouchSound
  <2> HIDE DEF hit
  <2>4. Sound(t) /\ \A v \in Levels, k \in Int : Has(t, v, k) <=> Has(hit, v, k)
    BY <2>2, <2>3, RefreshSound
  <2> HIDE DEF t
  <2>5. Sound(Raised(x, t, l, write, served))
    BY <2>1, <2>3, <2>4, LevelNames, RaisedSound
  <2> QED
    BY <1>2, <2>5 DEF LookedUp, t, hit
<1> QED
  BY <1>1, <1>2

LEMMA AnsweredSound ==
    ASSUME run \in Workloads, NEW x, CallOk(x), NEW s, Sound(s), NEW l \in Int,
           NEW write \in BOOLEAN, NEW record \in BOOLEAN, Asked(x, l, record), NEW was
    PROVE  Sound(Answered(x, s, l, write, record, was))
<1> DEFINE r == IF write THEN [s EXCEPT !.owed = @ \cup {l}] ELSE s
           useful == Serving(s, l) # "memory"
           t == Settled(r, l, was, useful)
<1>1. Sound(r) /\ r.cache = s.cache /\ (write => l \in r.owed)
  <2>1. CASE write
    <3>1. /\ DOMAIN r = Fields /\ r.cache = s.cache /\ SameCounts(r, s)
          /\ r.owed = s.owed \cup {l} /\ r.lent = s.lent
      BY <2>1 DEF Sound, Fields, SameCounts
    <3> HIDE DEF r
    <3>2. \A v, i, set : SetSound(v, i, set, s.owed, s.lent) => SetSound(v, i, set, r.owed, r.lent)
      BY <3>1 DEF SetSound, WaySound
    <3>3. CacheSound(r)
      BY <3>1, <3>2 DEF Sound, CacheSound
    <3> QED
      BY <3>1, <3>3 DEF Sound, CountsSound, SameCounts
  <2>2. CASE ~write
    BY <2>2
  <2> QED
    BY <2>1, <2>2
<1> HIDE DEF r, useful
<1>2. Sound(t) /\ SameCache(t, r)
  BY <1>1, SettledSound
<1> HIDE DEF t
<1>3. write => l \in t.owed
  BY <1>1, <1>2 DEF SameCache
<1>4. Serving(s, l) = Serving(t, l)
  <2>1. t.cache = s.cache
    BY <1>1, <1>2 DEF SameCache
  <2>2. \A v, k : Has(t, v, k) <=> Has(s, v, k)
    BY <2>1 DEF Has, SetOf
  <2>3. (MissesAll(t, l) <=> MissesAll(s, l)) /\ (MissesPrivate(t, l) <=> MissesPrivate(s, l))
    BY <2>2 DEF MissesAll, MissesPrivate
  <2> QED
    BY <2>2, <2>3 DEF Serving
<1>5. Sound(LookedUp(x, t, l, write, record, Serving(s, l)))
  BY <1>2, <1>3, <1>4, LookedUpSound
<1> QED
  BY <1>5 DEF Answered, t, r, useful

LEMMA DemandedSound ==
    ASSUME run \in Workloads, NEW x, CallOk(x), NEW s, Sound(s), NEW l \in Int,
           NEW write \in BOOLEAN, NEW record \in BOOLEAN, Demandable(x, l, record)
    PROVE  Sound(Demanded(x, s, l, write, record))
<1> DEFINE r == IF x.run.refresh = "broadcast" /\ ~record THEN Refresh(x, s, l) ELSE s
           t == Streamed(x, r, l, record)
<1>1. Asked(x, l, record)
  BY DEF Demandable
<1>2. Sound(r)
  BY <1>1, RefreshSound DEF Asked
<1> HIDE DEF r
<1>3. Sound(t)
  BY <1>2, StreamedSound
<1> HIDE DEF t
<1>4. Sound(Answered(x, t, l, write, record, l \in s.prefetched))
  BY <1>1, <1>3, AnsweredSound
<1> QED
  BY <1>4 DEF Demanded, t, r

\* So has the one over the lines of a column.
RecordRead(x, s, l) == Demanded(x, s, l, FALSE, TRUE)

LEMMA ColumnDefined ==
    ASSUME NEW x, NEW s, NEW lines, NEW d \in Nat
    PROVE  \E f : f = [k \in 0 .. d |->
               IF k = 0 THEN s ELSE RecordRead(x, f[k - 1], lines[k])]
<1> DEFINE Value(f, k) == IF k = 0 THEN s ELSE RecordRead(x, f[k - 1], lines[k])
           Defined == {n \in Nat : \E f : f = [k \in 0 .. n |-> Value(f, k)]}
<1>1. 0 \in Defined
  <2> DEFINE g == [k \in 0 .. 0 |-> s]
  <2>1. g = [k \in 0 .. 0 |-> Value(g, k)]
    OBVIOUS
  <2> QED
    BY <2>1
<1>2. ASSUME NEW n \in Defined PROVE n + 1 \in Defined
  <2>1. PICK f : f = [k \in 0 .. n |-> Value(f, k)]
    BY <1>2
  <2> DEFINE g == [k \in 0 .. n + 1 |->
                      IF k = n + 1 THEN RecordRead(x, f[n], lines[n + 1]) ELSE f[k]]
  <2>2. n \in Nat /\ n + 1 \in Nat
    BY <1>2, SMT
  <2>3. ASSUME NEW k \in 0 .. n + 1 PROVE g[k] = Value(g, k)
    <3>1. CASE k = n + 1
      <4>1. k - 1 = n /\ k # 0 /\ n \in 0 .. n + 1 /\ n # n + 1
        BY <2>2, <3>1, SMT
      <4>2. g[n] = f[n] /\ g[k] = RecordRead(x, f[n], lines[n + 1])
        BY <3>1, <4>1
      <4> QED
        BY <3>1, <4>1, <4>2
    <3>2. CASE k # n + 1
      <4>1. k \in 0 .. n /\ (k # 0 => k - 1 \in 0 .. n + 1 /\ k - 1 # n + 1)
        BY <2>2, <3>2, SMT
      <4>2. g[k] = f[k] /\ f[k] = Value(f, k)
        BY <2>1, <3>2, <4>1
      <4>3. k # 0 => g[k - 1] = f[k - 1]
        BY <4>1
      <4> QED
        BY <4>2, <4>3
    <3> QED
      BY <3>1, <3>2
  <2>4. g = [k \in 0 .. n + 1 |-> Value(g, k)]
    BY <2>3
  <2> HIDE DEF g
  <2> QED
    BY <2>2, <2>4
<1>3. Defined = Nat
  BY <1>1, <1>2, SetInduction
<1> QED
  BY <1>3

\* What the kernel asks for the hierarchy may do, and the lines ahead of it.
LEMMA DemandAllowed ==
    ASSUME run \in Workloads, NEW x, NEW l \in Lines, NEW record \in BOOLEAN,
           \/ ~record /\ l \notin RecordLines /\ Own(x, l)
           \/ record /\ l \in RecordLines /\ x.run = run
    PROVE  Demandable(x, l, record)
<1>1. CASE ~record /\ l \notin RecordLines /\ Own(x, l)
  BY <1>1, RegionsApart DEF Demandable, Asked
<1>2. CASE record /\ l \in RecordLines /\ x.run = run
  <2>1. l \notin PropertyLines
    BY <1>2, HierarchyAssumption
  <2> QED
    BY <1>2, <2>1 DEF Demandable, Asked, Own
<1> QED
  BY <1>1, <1>2

LEMMA ColumnReadSound ==
    ASSUME run \in Workloads, NEW x, CallOk(x), x.run = run, NEW s, Sound(s),
           NEW lines \in Seq(RecordLines)
    PROVE  Sound(ColumnRead(x, s, lines))
<1> DEFINE d == Len(lines)
           f == CHOOSE g : g = [k \in 0 .. d |->
                    IF k = 0 THEN s ELSE RecordRead(x, g[k - 1], lines[k])]
<1>1. d \in Nat /\ \A k \in 1 .. d : lines[k] \in RecordLines
  OBVIOUS
<1>2. ColumnRead(x, s, lines) = f[d]
  BY DEF ColumnRead, RecordRead
<1> HIDE DEF d
<1>3. f = [k \in 0 .. d |-> IF k = 0 THEN s ELSE RecordRead(x, f[k - 1], lines[k])]
  BY <1>1, ColumnDefined
<1> HIDE DEF f
<1> DEFINE Reached == {k \in Nat : k <= d => Sound(f[k])}
<1>4. 0 \in Reached
  BY <1>1, <1>3
<1>5. ASSUME NEW k \in Reached PROVE k + 1 \in Reached
  <2> SUFFICES ASSUME k + 1 <= d PROVE Sound(f[k + 1])
    BY <1>5, SMT
  <2>1. k \in Nat /\ k <= d /\ k + 1 \in 0 .. d /\ k + 1 # 0 /\ (k + 1) - 1 = k /\ k + 1 \in 1 .. d
    BY <1>1, <1>5, SMT
  <2>2. Sound(f[k])
    BY <1>5, <2>1
  <2>3. f[k + 1] = RecordRead(x, f[k], lines[k + 1])
    BY <1>3, <2>1
  <2>4. lines[k + 1] \in Int /\ lines[k + 1] \in Lines /\ lines[k + 1] \in RecordLines
    BY <1>1, <2>1, HierarchyAssumption
  <2>5. Demandable(x, lines[k + 1], TRUE)
    BY <2>4, DemandAllowed
  <2> QED
    BY <2>2, <2>3, <2>4, <2>5, DemandedSound DEF RecordRead
<1>6. d \in Reached
  BY <1>1, <1>4, <1>5, SetInduction
<1>7. Sound(f[d])
  BY <1>1, <1>6, SMT
<1> QED
  BY <1>2, <1>7

-------------------------------------------------------------------------------
\* The state.

\* The kernel has a hint only between an edge and the next clearEdgeEpoch.
HintSound ==
    /\ hint \in Maybe
    /\ ~gathering => hint \in {NoLine, Undelivered}
    /\ gathering => run.edgeMasks

HierarchyInv ==
    /\ run \in Workloads
    /\ HintSound
    /\ vertex \in run.vertices \cup {0}
    /\ Sound(h)

\* What a call of the kernel passes along is right.
LEMMA CallsOk ==
    ASSUME HierarchyInv, NEW given \in Maybe, NEW lent,
           NEW pick \in IF run.policy = "ECG" THEN 1 .. Ways["L3"] ELSE {1}
    PROVE  LET x == Call(given, lent, pick)
           IN  CallOk(x) /\ x.run = run /\ x.hint = given /\ x.lent = lent
<1> DEFINE x == Call(given, lent, pick)
<1>1. /\ x.hint = given /\ x.vertex = vertex /\ x.pick = pick /\ x.run = run /\ x.lent = lent
      /\ DOMAIN x = {"hint", "vertex", "pick", "run", "lent"}
  BY DEF Call
<1> HIDE DEF x
<1>2. Distances(run.policy, vertex)
  BY HierarchyAssumption DEF HierarchyInv, Distances
<1>3. CallOk(x)
  BY <1>1, <1>2 DEF CallOk, HierarchyInv, HintSound
<1> QED
  BY <1>1, <1>3 DEF x

\* So is that of a call whose hint is its line's own.
LEMMA OwnCallsOk ==
    ASSUME HierarchyInv, NEW given \in Maybe,
           NEW pick \in IF run.policy = "ECG" THEN 1 .. Ways["L3"] ELSE {1}
    PROVE  LET x == Call(given, FALSE, pick)
           IN  CallOk(x) /\ x.run = run /\ x.hint = given /\ ~x.lent
<1> DEFINE x == Call(given, FALSE, pick)
<1>1. /\ x.hint = given /\ x.vertex = vertex /\ x.pick = pick /\ x.run = run /\ ~x.lent
      /\ DOMAIN x = {"hint", "vertex", "pick", "run", "lent"}
  BY DEF Call
<1> HIDE DEF x
<1>2. Distances(run.policy, vertex)
  BY HierarchyAssumption DEF HierarchyInv, Distances
<1>3. CallOk(x)
  BY <1>1, <1>2 DEF CallOk, HierarchyInv, HintSound
<1> QED
  BY <1>1, <1>3 DEF x

LEMMA SoundNext ==
    ASSUME UNCHANGED run, Sound(h')
    PROVE  Sound(h)'
<1>1. \A way, owed, lent : WaySound(way, owed, lent) <=> WaySound(way, owed, lent)'
  BY DEF WaySound, Bypassed
<1> QED
  BY <1>1 DEF Sound, CacheSound, CountsSound, SetSound

LEMMA EmptySound ==
    ASSUME NEW v \in Levels, NEW i
    PROVE  SetSound(v, i, EmptySet(Ways[v]), {}, {})
<1> DEFINE n == Ways[v]
           set == EmptySet(n)
<1>1. n \in Nat \ {0}
  BY LevelTyped
<1>2. EmptyWay \in Way
  BY SMT DEF EmptyWay, Way, Maybe
<1> HIDE DEF n
<1>3. /\ DOMAIN set = {"ways", "order"}
      /\ set.ways = [w \in 1 .. n |-> EmptyWay] /\ set.order = [w \in 1 .. n |-> w]
  BY DEF EmptySet
<1> HIDE DEF set
<1>4. SetTyped(set, n)
  <2>1. \A w \in 1 .. n : w \in Nat
    BY <1>1, SMT
  <2> QED
    BY <1>2, <1>3, <2>1 DEF SetTyped
<1>5. \A w \in 1 .. n : set.ways[w].line = NoLine /\ WaySound(set.ways[w], {}, {})
  <2>1. NoLine \notin RecordLines
    BY HierarchyAssumption
  <2> QED
    BY <1>3, <2>1 DEF EmptyWay, WaySound
<1>6. SetSound(v, i, set, {}, {})
  BY <1>4, <1>5 DEF SetSound, n
<1> QED
  BY <1>6 DEF set, n

LEMMA InitSound == Init => HierarchyInv
<1> SUFFICES ASSUME Init PROVE HierarchyInv
  OBVIOUS
<1>1. /\ DOMAIN h = Fields
      /\ h.cache = [v \in Levels |-> [s \in 0 .. Sets[v] - 1 |-> EmptySet(Ways[v])]]
      /\ h.prefetched = {} /\ h.fills = 0 /\ h.useful = 0 /\ h.unused = 0
      /\ h.owed = {} /\ h.lent = {}
  BY DEF Init, Fields
<1>2. CacheSound(h)
  <2>1. DOMAIN h.cache = Levels /\ h.owed \in SUBSET Int /\ h.lent \in SUBSET Int
    BY <1>1
  <2>2. ASSUME NEW v \in Levels
        PROVE  /\ DOMAIN h.cache[v] = 0 .. Sets[v] - 1
               /\ \A i \in 0 .. Sets[v] - 1 : h.cache[v][i] = EmptySet(Ways[v])
    BY <1>1
  <2>3. ASSUME NEW v \in Levels, NEW i \in 0 .. Sets[v] - 1
        PROVE  SetSound(v, i, h.cache[v][i], h.owed, h.lent)
    <3>1. SetSound(v, i, EmptySet(Ways[v]), {}, {})
      BY EmptySound
    <3>2. h.cache[v][i] = EmptySet(Ways[v]) /\ h.owed = {} /\ h.lent = {}
      BY <1>1, <2>2
    <3> QED
      BY <3>1, <3>2
  <2> QED
    BY <2>1, <2>2, <2>3 DEF CacheSound
<1>3. CountsSound(h)
  BY <1>1, FS_EmptySet, SMT DEF CountsSound
<1> QED
  BY <1>1, <1>2, <1>3 DEF Init, HierarchyInv, HintSound, Sound, Maybe

LEMMA HierarchyStep ==
    ASSUME HierarchyInv, [Next]_vars
    PROVE  HierarchyInv'
<1> USE DEF HierarchyInv
<1>1. /\ NoLine \in Maybe /\ hint \in Maybe
      /\ \A l \in Lines : l \in Int /\ l \in Maybe
  BY HierarchyAssumption DEF Maybe, HintSound
<1>2. /\ run.demands \subseteq (Lines \ RecordLines) \X BOOLEAN
      /\ run.edges \subseteq PropertyLines /\ run.records \subseteq RecordLines
      /\ run.prefetches \subseteq Lines \ RecordLines
      /\ run.unresolved \subseteq PropertyLines \X BOOLEAN /\ run.lookaheads \subseteq PropertyLines
  BY RunTyped
<1>3. /\ RecordLines \subseteq Lines /\ PropertyLines \subseteq Lines \ RecordLines
      /\ \A e \in Epochs : ColumnLines[e] \in Seq(RecordLines)
  BY HierarchyAssumption
<1>4. ASSUME UNCHANGED run, HintSound' \/ UNCHANGED <<hint, gathering>>,
             vertex' \in run.vertices \cup {0}, Sound(h')
      PROVE  HierarchyInv'
  BY <1>4, SoundNext DEF HintSound
<1>5. CASE UNCHANGED vars
  <2>1. UNCHANGED <<run, hint, gathering, vertex, h>>
    BY <1>5 DEF vars
  <2> QED
    BY <1>4, <2>1
<1> DEFINE picks == IF run.policy = "ECG" THEN 1 .. Ways["L3"] ELSE {1}
<1>6. ASSUME UNCHANGED run, NEW pick \in picks, NEW d \in run.demands,
             Access(d[1], d[2], pick)
      PROVE  HierarchyInv'
  <2> DEFINE x == Call(hint, FALSE, pick)  l == d[1]  write == d[2]
  <2>1. l \in Lines /\ l \notin RecordLines /\ write \in BOOLEAN
    BY <1>2
  <2>2. CallOk(x) /\ x.run = run /\ x.hint = hint /\ ~x.lent
    BY <1>1, OwnCallsOk
  <2>3. /\ hint' = hint /\ gathering' = gathering /\ vertex' = vertex
        /\ h' = Demanded(x, h, l, write, FALSE)
        /\ l \in PropertyLines /\ gathering => hint = l
    BY <1>6 DEF Access
  <2> HIDE DEF x, l, write
  <2>4. Demandable(x, l, FALSE)
    <3>1. Own(x, l)
      BY <2>1, <2>2, <2>3 DEF Own, HintSound
    <3> QED
      BY <2>1, <3>1, DemandAllowed
  <2>5. Sound(h')
    BY <1>1, <2>1, <2>2, <2>3, <2>4, DemandedSound
  <2> QED
    BY <1>4, <1>6, <2>3, <2>5
<1>7. ASSUME UNCHANGED run, NEW pick \in picks, NEW l \in run.edges, Edge(l, pick)
      PROVE  HierarchyInv'
  <2> DEFINE x == Call(l, FALSE, pick)
  <2>1. l \in Lines /\ l \notin RecordLines
    BY <1>2, <1>3, <1>7
  <2>2. CallOk(x) /\ x.run = run /\ x.hint = l /\ ~x.lent
    BY <1>1, <2>1, OwnCallsOk
  <2>3. /\ hint' = l /\ gathering' = TRUE /\ vertex' = vertex
        /\ h' = Demanded(x, h, l, FALSE, FALSE)
    BY <1>7 DEF Edge
  <2> HIDE DEF x
  <2>4. Demandable(x, l, FALSE)
    <3>1. Own(x, l)
      BY <2>2 DEF Own
    <3> QED
      BY <2>1, <3>1, DemandAllowed
  <2>5. Sound(h')
    BY <1>1, <2>1, <2>2, <2>3, <2>4, DemandedSound
  <2>6. run.edgeMasks
    BY <1>7, RunTyped DEF Edge
  <2>7. HintSound'
    BY <1>1, <1>7, <2>1, <2>3, <2>6 DEF HintSound
  <2> QED
    BY <1>4, <1>7, <2>3, <2>5, <2>7
<1>8. ASSUME UNCHANGED run, NEW pick \in picks, NEW l \in run.records, AccessStream(l, pick)
      PROVE  HierarchyInv'
  <2> DEFINE x == Call(hint, FALSE, pick)
  <2>1. l \in Lines /\ l \in RecordLines
    BY <1>2, <1>3, <1>8
  <2>2. CallOk(x) /\ x.run = run /\ x.hint = hint /\ ~x.lent
    BY <1>1, OwnCallsOk
  <2>3. /\ hint' = hint /\ gathering' = gathering /\ vertex' = vertex
        /\ h' = Demanded(x, h, l, FALSE, TRUE)
    BY <1>8 DEF AccessStream
  <2> HIDE DEF x
  <2>4. Demandable(x, l, TRUE)
    BY <2>1, <2>2, DemandAllowed
  <2>5. Sound(h')
    BY <1>1, <2>1, <2>2, <2>3, <2>4, DemandedSound
  <2> QED
    BY <1>4, <1>8, <2>3, <2>5
<1>9. ASSUME UNCHANGED run, NEW pick \in picks, NEW d \in run.unresolved,
             UnresolvedEdge(d[1], d[2], pick)
      PROVE  HierarchyInv'
  <2> DEFINE l == d[1]  write == d[2]  x == Call(hint, Foreign(l), pick)
  <2>1. l \in Lines /\ l \notin RecordLines /\ write \in BOOLEAN
    BY <1>2, <1>3
  <2>2. CallOk(x) /\ x.run = run /\ x.hint = hint /\ x.lent = Foreign(l)
    BY <1>1, CallsOk
  <2>3. /\ hint' = hint /\ gathering' = gathering /\ vertex' = vertex
        /\ h' = Demanded(x, h, l, write, FALSE)
    BY <1>9 DEF UnresolvedEdge
  <2> HIDE DEF x, l, write
  <2>4. Demandable(x, l, FALSE)
    <3>1. Own(x, l)
      BY <2>2 DEF Own, Foreign, ForOthers
    <3> QED
      BY <2>1, <3>1, DemandAllowed
  <2>5. Sound(h')
    BY <1>1, <2>1, <2>2, <2>3, <2>4, DemandedSound
  <2> QED
    BY <1>4, <1>9, <2>3, <2>5
<1>13. ASSUME UNCHANGED run, NEW pick \in picks, NEW l \in run.prefetches, Prefetch(l, pick)
      PROVE  HierarchyInv'
  <2> DEFINE x == Call(hint, Foreign(l), pick)
  <2>1. l \in Lines /\ l \notin RecordLines
    BY <1>2, <1>3, <1>13
  <2>2. CallOk(x) /\ x.run = run /\ x.hint = hint /\ x.lent = Foreign(l)
    BY <1>1, CallsOk
  <2>3. /\ hint' = hint /\ gathering' = gathering /\ vertex' = vertex
        /\ h' = Prefetched(x, h, l, FALSE)
    BY <1>13 DEF Prefetch
  <2> HIDE DEF x
  <2>4. Asked(x, l, FALSE)
    BY <2>1, <2>2 DEF Asked, Own, Foreign, ForOthers
  <2>5. Sound(h')
    BY <1>1, <2>1, <2>2, <2>3, <2>4, PrefetchedSound
  <2> QED
    BY <1>4, <1>13, <2>3, <2>5
<1>14. ASSUME UNCHANGED run, NEW pick \in picks, NEW l \in run.lookaheads, Lookahead(l, pick)
      PROVE  HierarchyInv'
  <2> DEFINE x == Call(l, FALSE, pick)
  <2>1. l \in Lines /\ l \notin RecordLines
    BY <1>2, <1>3, <1>14
  <2>2. CallOk(x) /\ x.run = run /\ x.hint = l /\ ~x.lent
    BY <1>1, <2>1, OwnCallsOk
  <2>3. /\ hint' = hint /\ gathering' = gathering /\ vertex' = vertex
        /\ h' = Prefetched(x, h, l, FALSE)
    BY <1>14 DEF Lookahead
  <2> HIDE DEF x
  <2>4. Asked(x, l, FALSE)
    BY <2>1, <2>2 DEF Asked, Own
  <2>5. Sound(h')
    BY <1>1, <2>1, <2>2, <2>3, <2>4, PrefetchedSound
  <2> QED
    BY <1>4, <1>14, <2>3, <2>5
<1>15. ASSUME UNCHANGED run, ClearEdgeEpoch PROVE HierarchyInv'
  <2>1. /\ hint' = IF run.edgeMasks THEN NoLine ELSE hint
        /\ gathering' = FALSE /\ vertex' = vertex /\ h' = h
    BY <1>15 DEF ClearEdgeEpoch
  <2>2. HintSound'
    BY <1>1, <1>15, <2>1 DEF HintSound
  <2> QED
    BY <1>4, <1>15, <2>1, <2>2
<1>10. ASSUME UNCHANGED run, NEW pick \in picks, NEW v \in run.vertices, SetCurrentVertex(v, pick)
       PROVE  HierarchyInv'
  <2> DEFINE x == Call(hint, FALSE, pick)
             epoch == v \div EpochSize
             entered == [h EXCEPT !.columns[h.slot] = epoch, !.slot = 3 - @]
  <2>1. CallOk(x) /\ x.run = run
    BY <1>1, OwnCallsOk
  <2>2. /\ hint' = hint /\ gathering' = gathering /\ vertex' = v
        /\ \/ h' = h
           \/ epoch \in Epochs /\ h' = ColumnRead(x, entered, ColumnLines[epoch])
    BY <1>10 DEF SetCurrentVertex
  <2> HIDE DEF x
  <2>3. Sound(entered)
    <3>1. DOMAIN entered = Fields /\ SameCache(entered, h) /\ SameCounts(entered, h)
      BY DEF Sound, Fields, SameCache, SameCounts
    <3> HIDE DEF entered
    <3> QED
      BY <3>1, FrameSound
  <2> HIDE DEF entered, epoch
  <2>4. Sound(h')
    <3>1. CASE h' = h
      BY <3>1
    <3>2. CASE epoch \in Epochs /\ h' = ColumnRead(x, entered, ColumnLines[epoch])
      BY <1>3, <2>1, <2>3, <3>2, ColumnReadSound
    <3> QED
      BY <2>2, <3>1, <3>2
  <2> QED
    BY <1>4, <1>10, <2>2, <2>4
<1>11. ASSUME UNCHANGED run, ResetStats PROVE HierarchyInv'
  <2>1. /\ hint' = hint /\ gathering' = gathering /\ vertex' = vertex
        /\ DOMAIN h' = Fields /\ SameCache(h', h)
        /\ h'.fills = 0 /\ h'.useful = 0 /\ h'.unused = 0 /\ h'.prefetched = {}
    BY <1>11 DEF ResetStats, Sound, Fields, SameCache
  <2>2. CountsSound(h')
    BY <2>1, FS_EmptySet, SMT DEF CountsSound
  <2>3. CacheSound(h')
    BY <2>1 DEF Sound, CacheSound, SameCache
  <2>4. Sound(h')
    BY <2>1, <2>2, <2>3 DEF Sound
  <2> QED
    BY <1>4, <1>11, <2>1, <2>4
<1>12. CASE Next
  <2>1. UNCHANGED run
    BY <1>12 DEF Next
  <2>2. ASSUME NEW pick \in picks, KernelCall(pick) PROVE HierarchyInv'
    BY <1>6, <1>7, <1>8, <1>9, <1>10, <1>13, <1>14, <2>1, <2>2 DEF KernelCall
  <2> QED
    BY <1>11, <1>12, <1>15, <2>1, <2>2 DEF Next
<1> QED
  BY <1>5, <1>12

THEOREM HierarchyStaysSound == Spec => []HierarchyInv
<1>1. Init => HierarchyInv
  BY InitSound
<1>2. HierarchyInv /\ [Next]_vars => HierarchyInv'
  BY HierarchyStep
<1> QED
  BY <1>1, <1>2, PTL DEF Spec

\* No level holds a line twice, whatever prefetches, fills and promotions a call did.
THEOREM OneCopyHolds == Spec => []OneCopy
<1>1. ASSUME HierarchyInv PROVE OneCopy
  <2> SUFFICES ASSUME NEW l \in Lines, NEW v \in Levels
               PROVE  Cardinality(Copies(v, l)) <= 1
    BY DEF OneCopy
  <2>1. l \in Int /\ l # NoLine
    BY HierarchyAssumption
  <2>2. SetSound(v, l % Sets[v], SetOf(h, v, l), h.owed, h.lent)
    BY <1>1, <2>1, SetOfSound DEF HierarchyInv
  <2>3. \A w, u \in Copies(v, l) : w = u
    BY <2>1, <2>2 DEF SetSound, SetTyped, Copies, WaysOf
  <2>4. Copies(v, l) = {} \/ \E w : Copies(v, l) = {w}
    BY <2>3
  <2>5. Cardinality(Copies(v, l)) \in {0, 1}
    BY <2>4, FS_EmptySet, FS_Singleton
  <2> QED
    BY <2>5, SMT
<1> QED
  BY <1>1, HierarchyStaysSound, PTL

\* A prefetched line that was filled since the last reset is pending, useful or lost:
\* only one of the three, and once.
THEOREM PrefetchesAreSettledOnce == Spec => []PrefetchesSettledOnce
<1>1. HierarchyInv => PrefetchesSettledOnce
  BY DEF HierarchyInv, Sound, CountsSound, PrefetchesSettledOnce
<1> QED
  BY <1>1, HierarchyStaysSound, PTL

\* Records and columns stay out of the LLC in every run that does not adapt the
\* placement, and out of the flow-through leader sets in those that do.
THEOREM RecordsStayOut == Spec => []RecordsBypassLlc
<1>1. ASSUME HierarchyInv PROVE RecordsBypassLlc
  <2> SUFFICES ASSUME NEW l \in RecordLines, Bypassed(l), Has(h, "L3", l) PROVE FALSE
    BY DEF RecordsBypassLlc, Bypassed
  <2>1. l \in Int
    BY HierarchyAssumption
  <2>2. SetSound("L3", l % Sets["L3"], SetOf(h, "L3", l), h.owed, h.lent)
    BY <1>1, <2>1, LevelNames, SetOfSound DEF HierarchyInv
  <2>3. PICK w \in 1 .. Ways["L3"] : SetOf(h, "L3", l).ways[w].line = l
    BY <2>2 DEF SetSound, SetTyped, Has, Holds, WaysOf
  <2>4. WaySound(SetOf(h, "L3", l).ways[w], h.owed, h.lent)
    BY <2>2, <2>3 DEF SetSound
  <2> QED
    BY <2>3, <2>4 DEF WaySound
<1> QED
  BY <1>1, HierarchyStaysSound, PTL

\* With the mask array enabled, a line of the LLC that was not last stamped under the
\* hint of another line has no epoch, the default one or its own: no demand, refresh,
\* look-ahead, column read or eviction leaves it the epoch of the edge that is current.
THEOREM StampsAreOwn == Spec => []StampIsOwn
<1>1. ASSUME HierarchyInv PROVE StampIsOwn
  <2>1. \A i \in DOMAIN h.cache["L3"] : \A w \in 1 .. Ways["L3"] :
           WaySound(h.cache["L3"][i].ways[w], h.owed, h.lent)
    BY <1>1, LevelNames DEF HierarchyInv, Sound, CacheSound, SetSound
  <2> QED
    BY <2>1 DEF StampIsOwn, WaySound
<1> QED
  BY <1>1, HierarchyStaysSound, PTL

\* No write is counted twice as memory traffic.
THEOREM DirtyLinesAreOwed == Spec => []DirtyIsOwed
<1>1. ASSUME HierarchyInv PROVE DirtyIsOwed
  <2>1. \A i \in DOMAIN h.cache["L3"] : \A w \in 1 .. Ways["L3"] :
           WaySound(h.cache["L3"][i].ways[w], h.owed, h.lent)
    BY <1>1, LevelNames DEF HierarchyInv, Sound, CacheSound, SetSound
  <2> QED
    BY <2>1 DEF DirtyIsOwed, WaySound
<1> QED
  BY <1>1, HierarchyStaysSound, PTL
===============================================================================
