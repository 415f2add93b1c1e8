---------------------------- MODULE MultiCore_proof ----------------------------
(***************************************************************************)
(* The copies of a line in a cache, and the fills of it still to come, are *)
(* never more than the threads that use the cache, and the statistics add  *)
(* up: for any number of threads, cores, ways and calls.  A thread owes a  *)
(* fill only from the moment it has seen that no way holds the line; a     *)
(* fill replaces one way and is owed no more.  A counter and the threads   *)
(* about to count again change together.                                   *)
(***************************************************************************)
EXTENDS MultiCore, Sums

Places ==
    {"idle", "loadAccess", "storeAccess", "L1", "L2", "L3", "memory",
     "loadMemory", "storeMemory", "fillL3", "fillL2", "fillL1"}

RequestLines == {r[1] : r \in Requests}

\* The ways of a set of n: each has a line.
HasWays(set, n) ==
    /\ DOMAIN set.ways = 1 .. n
    /\ \A w \in 1 .. n : "line" \in DOMAIN set.ways[w]

Shapes ==
    /\ pc \in [Threads -> Places]
    /\ DOMAIN request = Threads
    /\ DOMAIN cache = Caches
    /\ \A c \in Caches : HasWays(cache[c], Ways[c[1]])

\* CopiesBounded for one cache and one line.
Bounded(c, l) ==
    Cardinality(WaysOf(cache[c], l)) + Cardinality(Filling(c, l)) <= Cardinality(Users(c))

CopiesInv == Shapes /\ \A c \in Caches : \A l \in RequestLines : Bounded(c, l)

-------------------------------------------------------------------------------
\* What a level does to its ways.

LEMMA AfterHitKeepsLines ==
    ASSUME NEW set, NEW n, HasWays(set, n), NEW l, NEW write
    PROVE  LET new == AfterHit("LRU", set, l, write, NoLine)
           IN  HasWays(new, n) /\ \A k : WaysOf(new, k) = WaysOf(set, k)
<1> DEFINE w == First(WaysOf(set, l))
           way == set.ways[w]
           hit == [way EXCEPT !.rrpv = HitRrpv("LRU", way), !.dirty = @ \/ write]
           new == AfterHit("LRU", set, l, write, NoLine)
<1>1. new.ways = [set.ways EXCEPT ![w] = hit]
  BY DEF AfterHit
<1>2. w \in 1 .. n => "line" \in DOMAIN hit /\ hit.line = way.line
  BY DEF HasWays
<1> HIDE DEF new, hit, w
<1>3. /\ DOMAIN new.ways = 1 .. n
      /\ \A v \in 1 .. n : "line" \in DOMAIN new.ways[v] /\ new.ways[v].line = set.ways[v].line
  BY <1>1, <1>2 DEF HasWays
<1>4. HasWays(new, n) /\ \A k : WaysOf(new, k) = WaysOf(set, k)
  BY <1>3 DEF HasWays, WaysOf
<1> QED
  BY <1>4 DEF new

LruFilled(set, l, write) == Inserted("LRU", set, l, write, NoLine, TRUE, 0, 1).set

\* A fill takes the line to one way and away from none but that one.
LEMMA InsertedAddsOne ==
    ASSUME NEW set, NEW n, HasWays(set, n), NEW l, NEW write
    PROVE  LET new == LruFilled(set, l, write)
           IN  /\ HasWays(new, n)
               /\ \E w : WaysOf(new, l) \subseteq WaysOf(set, l) \cup {w}
               /\ \A k : k # l => WaysOf(new, k) \subseteq WaysOf(set, k)
<1> DEFINE victim == Victim("LRU", set, 0, 1)
           v == victim.way
           new == LruFilled(set, l, write)
           line == Filled("LRU", l, write, NoLine, TRUE, set.ways[v])
<1>1. victim.set = set
  BY DEF Victim
<1>2. \/ new = set
      \/ new.ways = [set.ways EXCEPT ![v] = line]
  BY <1>1 DEF LruFilled, Inserted
<1>3. "line" \in DOMAIN line /\ line.line = l
  BY DEF Filled
<1> HIDE DEF victim, v, new, line
<1>4. CASE new = set
  BY <1>4 DEF new
<1>5. CASE new.ways = [set.ways EXCEPT ![v] = line]
  <2>1. /\ DOMAIN new.ways = 1 .. n
        /\ \A w \in 1 .. n : /\ "line" \in DOMAIN new.ways[w]
                             /\ w # v => new.ways[w].line = set.ways[w].line
                             /\ w = v => new.ways[w].line = l
    BY <1>3, <1>5 DEF HasWays
  <2>2. /\ HasWays(new, n)
        /\ WaysOf(new, l) \subseteq WaysOf(set, l) \cup {v}
        /\ \A k : k # l => WaysOf(new, k) \subseteq WaysOf(set, k)
    BY <2>1 DEF HasWays, WaysOf
  <2> QED
    BY <2>2 DEF new
<1> QED
  BY <1>2, <1>4, <1>5

-------------------------------------------------------------------------------
LEMMA Constants ==
    /\ \A t \in Threads : t \in Nat /\ CoreOf(t) \in Cores
    /\ \A t \in Threads, level \in {"L1", "L2", "L3"} :
          CacheAt(t, level) \in Caches /\ CacheAt(t, level)[1] = level
    /\ \A c \in Caches : c[1] \in {"L1", "L2", "L3"} /\ Ways[c[1]] \in Nat
<1>1. \A t \in Threads : t \in Nat /\ CoreOf(t) \in Cores
  BY MultiCoreAssumption DEF CoreOf, Cores
<1>2. \A c \in Caches : c[1] \in {"L1", "L2", "L3"}
  BY DEF Caches, Private, Shared
<1> QED
  BY <1>1, <1>2, MultiCoreAssumption DEF CacheAt, Caches, Private, Shared

LEMMA Finite ==
    ASSUME Shapes, NEW c \in Caches, NEW l
    PROVE  /\ IsFiniteSet(Users(c)) /\ IsFiniteSet(Filling(c, l)) /\ IsFiniteSet(WaysOf(cache[c], l))
           /\ Cardinality(Users(c)) \in Nat /\ Cardinality(Filling(c, l)) \in Nat
           /\ Cardinality(WaysOf(cache[c], l)) \in Nat
<1>1. IsFiniteSet(Threads)
  BY MultiCoreAssumption
<1>2. Users(c) \subseteq Threads /\ Filling(c, l) \subseteq Threads
  BY DEF Users, Filling
<1>3. WaysOf(cache[c], l) \subseteq 1 .. Ways[c[1]]
  BY DEF Shapes, HasWays, WaysOf
<1>4. IsFiniteSet(1 .. Ways[c[1]])
  BY Constants, FS_Interval
<1>5. /\ IsFiniteSet(Users(c)) /\ IsFiniteSet(Filling(c, l)) /\ IsFiniteSet(WaysOf(cache[c], l))
  BY <1>1, <1>2, <1>3, <1>4, FS_Subset
<1> QED
  BY <1>5, FS_CardinalityType

\* The same after a step.
LEMMA FiniteNext ==
    ASSUME Shapes', NEW c \in Caches, NEW l
    PROVE  /\ IsFiniteSet(Filling(c, l)') /\ IsFiniteSet(WaysOf(cache'[c], l))
           /\ IsFiniteSet(Users(c)) /\ Cardinality(Users(c)) \in Nat
           /\ Cardinality(Filling(c, l)') \in Nat /\ Cardinality(WaysOf(cache'[c], l)) \in Nat
<1>1. IsFiniteSet(Threads)
  BY MultiCoreAssumption
<1>2. Users(c) \subseteq Threads /\ Filling(c, l)' \subseteq Threads
  BY DEF Users, Filling
<1>3. WaysOf(cache'[c], l) \subseteq 1 .. Ways[c[1]]
  BY DEF Shapes, HasWays, WaysOf
<1>4. IsFiniteSet(1 .. Ways[c[1]])
  BY Constants, FS_Interval
<1>5. IsFiniteSet(Filling(c, l)') /\ IsFiniteSet(WaysOf(cache'[c], l)) /\ IsFiniteSet(Users(c))
  BY <1>1, <1>2, <1>3, <1>4, FS_Subset
<1> QED
  BY <1>5, FS_CardinalityType

\* No copy and no fill more.
LEMMA KeptBounded ==
    ASSUME Shapes, Shapes', NEW c \in Caches, NEW l, Bounded(c, l),
           WaysOf(cache'[c], l) \subseteq WaysOf(cache[c], l),
           Filling(c, l)' \subseteq Filling(c, l)
    PROVE  Bounded(c, l)'
<1>1. /\ Cardinality(WaysOf(cache'[c], l)) <= Cardinality(WaysOf(cache[c], l))
      /\ Cardinality(Filling(c, l)') <= Cardinality(Filling(c, l))
  BY Finite, FS_Subset
<1>2. /\ Cardinality(WaysOf(cache'[c], l)) \in Nat /\ Cardinality(Filling(c, l)') \in Nat
      /\ Cardinality(WaysOf(cache[c], l)) \in Nat /\ Cardinality(Filling(c, l)) \in Nat
      /\ Cardinality(Users(c)) \in Nat
  BY Finite, FiniteNext
<1> QED
  BY <1>1, <1>2 DEF Bounded

\* No copy: the fills are owed by users of the cache.
LEMMA MissedBounded ==
    ASSUME Shapes', NEW c \in Caches, NEW l, WaysOf(cache'[c], l) = {}
    PROVE  Bounded(c, l)'
<1>1. Filling(c, l)' \subseteq Users(c)
  BY DEF Filling
<1>2. Cardinality(Filling(c, l)') <= Cardinality(Users(c))
  BY <1>1, FiniteNext, FS_Subset
<1>3. Cardinality(WaysOf(cache'[c], l)) = 0
  BY FS_EmptySet
<1> QED
  BY <1>2, <1>3, FiniteNext DEF Bounded

\* One copy more, and one fill that is owed no more.
LEMMA FilledBounded ==
    ASSUME Shapes, Shapes', NEW c \in Caches, NEW l, Bounded(c, l),
           NEW t \in Filling(c, l), NEW w,
           WaysOf(cache'[c], l) \subseteq WaysOf(cache[c], l) \cup {w},
           Filling(c, l)' \subseteq Filling(c, l) \ {t}
    PROVE  Bounded(c, l)'
<1>1. Cardinality(WaysOf(cache'[c], l)) <= Cardinality(WaysOf(cache[c], l)) + 1
  <2>1. IsFiniteSet(WaysOf(cache[c], l))
    BY Finite
  <2>2. /\ IsFiniteSet(WaysOf(cache[c], l) \cup {w})
        /\ Cardinality(WaysOf(cache[c], l) \cup {w}) <= Cardinality(WaysOf(cache[c], l)) + 1
    BY <2>1, Finite, FS_AddElement
  <2> QED
    BY <2>2, Finite, FS_Subset, FS_CardinalityType
<1>2. Cardinality(Filling(c, l)') <= Cardinality(Filling(c, l)) - 1
  <2>1. IsFiniteSet(Filling(c, l))
    BY Finite
  <2>2. /\ IsFiniteSet(Filling(c, l) \ {t})
        /\ Cardinality(Filling(c, l) \ {t}) = Cardinality(Filling(c, l)) - 1
    BY <2>1, FS_RemoveElement
  <2> QED
    BY <2>2, FS_Subset
<1>3. /\ Cardinality(WaysOf(cache'[c], l)) \in Nat /\ Cardinality(Filling(c, l)') \in Nat
      /\ Cardinality(WaysOf(cache[c], l)) \in Nat /\ Cardinality(Filling(c, l)) \in Nat
      /\ Cardinality(Users(c)) \in Nat
  BY Finite, FiniteNext
<1> QED
  BY <1>1, <1>2, <1>3 DEF Bounded
-------------------------------------------------------------------------------
\* The steps.

\* The places at which a thread owes a fill of a level.
LEMMA OwesByLevel ==
    \A v \in {"L1", "L2", "L3"} :
        /\ "idle" \notin Owes[v] /\ "loadAccess" \notin Owes[v]
        /\ "storeAccess" \notin Owes[v] /\ "L1" \notin Owes[v]
        /\ "memory" \in Owes[v] /\ "loadMemory" \in Owes[v]
        /\ "storeMemory" \in Owes[v] /\ "fillL3" \in Owes[v]
        /\ "L2" \in Owes[v] <=> v = "L1"
        /\ "fillL1" \in Owes[v] <=> v = "L1"
        /\ "L3" \in Owes[v] <=> v # "L3"
        /\ "fillL2" \in Owes[v] <=> v # "L3"
<1>1. /\ Owes["L1"] = {"L2", "L3", "fillL2", "fillL1"} \cup Memory
      /\ Owes["L2"] = {"L3", "fillL2"} \cup Memory
      /\ Owes["L3"] = Memory
  BY DEF Owes
<1> TAKE v \in {"L1", "L2", "L3"}
<1>2. CASE v = "L1"
  BY <1>1, <1>2 DEF Memory
<1>3. CASE v = "L2"
  BY <1>1, <1>3 DEF Memory
<1>4. CASE v = "L3"
  BY <1>1, <1>4 DEF Memory
<1> QED
  BY <1>2, <1>3, <1>4

\* Where the thread that moves owes no more than before, nor does anyone.
LEMMA FillingShrinks ==
    ASSUME Shapes, NEW t \in Threads, NEW to \in Places, NEW c \in Caches, NEW l,
           pc' = [pc EXCEPT ![t] = to],
           \A u \in Threads \ {t} : request'[u] = request[u],
           t \in Users(c) /\ to \in Owes[c[1]] /\ request'[t][1] = l
               => pc[t] \in Owes[c[1]] /\ request[t][1] = l
    PROVE  Filling(c, l)' \subseteq Filling(c, l)
<1>1. \A u \in Threads : pc'[u] = IF u = t THEN to ELSE pc[u]
  BY DEF Shapes
<1>2. SUFFICES ASSUME NEW u \in Users(c), pc'[u] \in Owes[c[1]], request'[u][1] = l
               PROVE  pc[u] \in Owes[c[1]] /\ request[u][1] = l
  BY DEF Filling
<1>3. u \in Threads
  BY DEF Users
<1>4. CASE u = t
  BY <1>1, <1>2, <1>3, <1>4
<1>5. CASE u # t
  BY <1>1, <1>2, <1>3, <1>5
<1> QED
  BY <1>4, <1>5

\* A step that leaves the caches alone and by which no thread owes more.
LEMMA QuietStep ==
    ASSUME CopiesInv, NEW t \in Threads, NEW to \in Places,
           pc' = [pc EXCEPT ![t] = to], cache' = cache, DOMAIN request' = Threads,
           \A u \in Threads \ {t} : request'[u] = request[u],
           \A level \in {"L1", "L2", "L3"} :
               to \in Owes[level] => pc[t] \in Owes[level] /\ request'[t] = request[t]
    PROVE  CopiesInv'
<1>1. Shapes /\ Shapes'
  BY DEF CopiesInv, Shapes
<1>2. ASSUME NEW c \in Caches, NEW l \in RequestLines
      PROVE  Bounded(c, l)'
  <2>1. c[1] \in {"L1", "L2", "L3"} /\ Bounded(c, l)
    BY Constants DEF CopiesInv
  <2>2. to \in Owes[c[1]] => pc[t] \in Owes[c[1]] /\ request'[t] = request[t]
    BY <2>1
  <2>3. Filling(c, l)' \subseteq Filling(c, l)
    BY <1>1, <2>2, FillingShrinks
  <2>4. WaysOf(cache'[c], l) = WaysOf(cache[c], l)
    OBVIOUS
  <2> QED
    BY <1>1, <2>1, <2>3, <2>4, KeptBounded
<1> QED
  BY <1>1, <1>2 DEF CopiesInv, RequestLines

\* A lookup that hits ends what its level had been asked for, and owes no more.
LEMMA HitStep ==
    ASSUME CopiesInv, NEW t \in Threads, NEW level \in {"L1", "L2", "L3"}, NEW to \in Places,
           NEW l0, NEW write,
           pc' = [pc EXCEPT ![t] = to], request' = request,
           cache' = [cache EXCEPT ![CacheAt(t, level)] = AfterHit("LRU", @, l0, write, NoLine)],
           \A v \in {"L1", "L2", "L3"} : to \in Owes[v] => pc[t] \in Owes[v]
    PROVE  CopiesInv'
<1> DEFINE d == CacheAt(t, level)
<1>1. Shapes
  BY DEF CopiesInv
<1>2. d \in Caches
  BY Constants
<1> HIDE DEF d
<1>3. /\ HasWays(cache'[d], Ways[d[1]])
      /\ \A k : WaysOf(cache'[d], k) = WaysOf(cache[d], k)
  <2>1. HasWays(cache[d], Ways[d[1]])
    BY <1>1, <1>2 DEF Shapes
  <2>2. cache'[d] = AfterHit("LRU", cache[d], l0, write, NoLine)
    BY <1>1, <1>2 DEF Shapes, d
  <2> QED
    BY <2>1, <2>2, AfterHitKeepsLines
<1>4. \A c \in Caches \ {d} : cache'[c] = cache[c]
  BY <1>1, <1>2 DEF Shapes, d
<1>5. Shapes'
  BY <1>1, <1>2, <1>3, <1>4 DEF Shapes
<1>6. ASSUME NEW c \in Caches, NEW l \in RequestLines
      PROVE  Bounded(c, l)'
  <2>1. c[1] \in {"L1", "L2", "L3"} /\ Bounded(c, l)
    BY Constants DEF CopiesInv
  <2>2. Filling(c, l)' \subseteq Filling(c, l)
    BY <1>1, <2>1, FillingShrinks
  <2>3. WaysOf(cache'[c], l) = WaysOf(cache[c], l)
    BY <1>3, <1>4
  <2> QED
    BY <1>1, <1>5, <2>1, <2>2, <2>3, KeptBounded
<1> QED
  BY <1>5, <1>6 DEF CopiesInv

\* A lookup that misses owes a fill of a cache that holds no copy.
LEMMA MissStep ==
    ASSUME CopiesInv, NEW t \in Threads, NEW level \in {"L1", "L2", "L3"}, NEW to \in Places,
           pc' = [pc EXCEPT ![t] = to], request' = request, cache' = cache,
           Missed(CacheAt(t, level), request[t][1]),
           \A v \in {"L1", "L2", "L3"} \ {level} : to \in Owes[v] => pc[t] \in Owes[v]
    PROVE  CopiesInv'
<1>1. Shapes /\ Shapes'
  BY DEF CopiesInv, Shapes
<1>2. ASSUME NEW c \in Caches, NEW l \in RequestLines
      PROVE  Bounded(c, l)'
  <2>1. c[1] \in {"L1", "L2", "L3"} /\ Bounded(c, l)
    BY Constants DEF CopiesInv
  <2>2. CASE c = CacheAt(t, level) /\ l = request[t][1]
    <3>1. WaysOf(cache'[c], l) = {}
      BY <2>2 DEF Missed, Holds
    <3> QED
      BY <1>1, <3>1, MissedBounded
  <2>3. CASE ~(c = CacheAt(t, level) /\ l = request[t][1])
    <3>1. t \in Users(c) /\ to \in Owes[c[1]] /\ request'[t][1] = l
              => pc[t] \in Owes[c[1]] /\ request[t][1] = l
      BY <2>1, <2>3 DEF Users
    <3>2. Filling(c, l)' \subseteq Filling(c, l)
      BY <1>1, <3>1, FillingShrinks
    <3>3. WaysOf(cache'[c], l) = WaysOf(cache[c], l)
      OBVIOUS
    <3> QED
      BY <1>1, <2>1, <3>2, <3>3, KeptBounded
  <2> QED
    BY <2>2, <2>3
<1> QED
  BY <1>1, <1>2 DEF CopiesInv

\* A fill of a level: its thread owed it, and owes it no more.
LEMMA FillStep ==
    ASSUME CopiesInv, NEW t \in Threads, NEW level \in {"L1", "L2", "L3"}, NEW to \in Places,
           Fill(t, level, pc[t], to), pc[t] \in Owes[level], to \notin Owes[level],
           \A v \in {"L1", "L2", "L3"} : to \in Owes[v] => pc[t] \in Owes[v]
    PROVE  CopiesInv'
<1> DEFINE d == CacheAt(t, level)
           l0 == request[t][1]
<1>1. Shapes
  BY DEF CopiesInv
<1>2. d \in Caches /\ d[1] = level
  BY Constants
<1>3. /\ pc' = [pc EXCEPT ![t] = to]
      /\ request' = request
      /\ cache' = [cache EXCEPT ![d] =
            LruFilled(@, l0, request[t][2])]
  BY DEF Fill, Goto, LruFilled
<1> HIDE DEF d, l0
<1>4. /\ HasWays(cache'[d], Ways[d[1]])
      /\ \E w : WaysOf(cache'[d], l0) \subseteq WaysOf(cache[d], l0) \cup {w}
      /\ \A k : k # l0 => WaysOf(cache'[d], k) \subseteq WaysOf(cache[d], k)
  <2>1. HasWays(cache[d], Ways[d[1]])
    BY <1>1, <1>2 DEF Shapes
  <2>2. cache'[d] = LruFilled(cache[d], l0, request[t][2])
    BY <1>1, <1>2, <1>3 DEF Shapes
  <2> QED
    BY <2>1, <2>2, InsertedAddsOne
<1>5. \A c \in Caches \ {d} : cache'[c] = cache[c]
  BY <1>1, <1>2, <1>3 DEF Shapes
<1>6. Shapes'
  BY <1>1, <1>2, <1>3, <1>4, <1>5 DEF Shapes
<1>7. ASSUME NEW c \in Caches, NEW l \in RequestLines
      PROVE  Bounded(c, l)'
  <2>1. c[1] \in {"L1", "L2", "L3"} /\ Bounded(c, l)
    BY Constants DEF CopiesInv
  <2>2. Filling(c, l)' \subseteq Filling(c, l)
    BY <1>1, <1>3, <2>1, FillingShrinks
  <2>3. CASE c = d /\ l = l0
    <3>1. t \in Filling(c, l) /\ t \notin Filling(c, l)'
      BY <1>1, <1>2, <1>3, <2>3 DEF Filling, Users, Shapes, d, l0
    <3>2. PICK w : WaysOf(cache'[c], l) \subseteq WaysOf(cache[c], l) \cup {w}
      BY <1>4, <2>3
    <3> QED
      BY <1>1, <1>6, <2>1, <2>2, <3>1, <3>2, FilledBounded
  <2>4. CASE ~(c = d /\ l = l0)
    <3>1. WaysOf(cache'[c], l) \subseteq WaysOf(cache[c], l)
      BY <1>4, <1>5, <2>4
    <3> QED
      BY <1>1, <1>6, <2>1, <2>2, <3>1, KeptBounded
  <2> QED
    BY <2>3, <2>4
<1> QED
  BY <1>6, <1>7 DEF CopiesInv

LEMMA CopiesInit == Init => CopiesInv
<1> SUFFICES ASSUME Init
             PROVE  CopiesInv
  OBVIOUS
<1>1. \A c \in Caches : HasWays(cache[c], Ways[c[1]])
  BY Constants DEF Init, HasWays, EmptySet, EmptyWay
<1>2. Shapes
  BY <1>1 DEF Init, Shapes, Places
<1>3. ASSUME NEW c \in Caches, NEW l \in RequestLines
      PROVE  Bounded(c, l)
  <2>1. l # NoLine
    BY MultiCoreAssumption DEF RequestLines
  <2>2. WaysOf(cache[c], l) = {}
    BY <2>1 DEF Init, WaysOf, EmptySet, EmptyWay
  <2>3. Filling(c, l) \subseteq Users(c)
    BY DEF Filling
  <2>4. Cardinality(Filling(c, l)) <= Cardinality(Users(c))
    BY <1>2, <2>3, Finite, FS_Subset
  <2>5. Cardinality(WaysOf(cache[c], l)) = 0
    BY <2>2, FS_EmptySet
  <2> QED
    BY <1>2, <2>4, <2>5, Finite DEF Bounded
<1> QED
  BY <1>2, <1>3 DEF CopiesInv

LEMMA CopiesStep ==
    ASSUME CopiesInv, [Next]_vars
    PROVE  CopiesInv'
<1>1. CASE UNCHANGED vars
  BY <1>1 DEF CopiesInv, Shapes, Bounded, Filling, vars
<1>2. ASSUME NEW t \in Threads, Step(t)
      PROVE  CopiesInv'
  <2> USE OwesByLevel
  <2>1. DOMAIN request = Threads /\ pc[t] \in Places
    BY DEF CopiesInv, Shapes
  <2>2. CASE Start(t)
    <3>1. PICK r \in Requests : request' = [request EXCEPT ![t] = r]
      BY <2>2 DEF Start
    <3>2. pc' = [pc EXCEPT ![t] = "loadAccess"] /\ cache' = cache
      BY <2>2 DEF Start, Goto, KeepCaches
    <3>3. \A level \in {"L1", "L2", "L3"} : "loadAccess" \notin Owes[level]
      OBVIOUS
    <3>4. DOMAIN request' = Threads /\ \A u \in Threads \ {t} : request'[u] = request[u]
      BY <2>1, <3>1
    <3>5. "loadAccess" \in Places
      BY DEF Places
    <3> QED
      BY <3>2, <3>3, <3>4, <3>5, QuietStep
  <2>3. ASSUME NEW to \in Places,
               pc' = [pc EXCEPT ![t] = to], UNCHANGED <<cache, request>>,
               \A level \in {"L1", "L2", "L3"} : to \in Owes[level] => pc[t] \in Owes[level]
        PROVE  CopiesInv'
    BY <2>1, <2>3, QuietStep
  <2>4. CASE LoadCount(t, "access", "loadAccess", "storeAccess")
    <3>1. /\ pc[t] = "loadAccess" /\ pc' = [pc EXCEPT ![t] = "storeAccess"]
          /\ UNCHANGED <<cache, request>>
      BY <2>4 DEF LoadCount, Goto, KeepCaches
    <3>2. "storeAccess" \in Places
      BY DEF Places
    <3> QED
      BY <2>3, <3>1, <3>2
  <2>5. CASE StoreCount(t, "access", "storeAccess", "L1")
    <3>1. /\ pc[t] = "storeAccess" /\ pc' = [pc EXCEPT ![t] = "L1"]
          /\ UNCHANGED <<cache, request>>
      BY <2>5 DEF StoreCount, Goto, KeepCaches
    <3>2. "L1" \in Places
      BY DEF Places
    <3> QED
      BY <2>3, <3>1, <3>2
  <2>6. CASE FetchMemory(t)
    <3>1. /\ pc[t] = "memory" /\ pc' = [pc EXCEPT ![t] = "loadMemory"]
          /\ UNCHANGED <<cache, request>>
      BY <2>6 DEF FetchMemory, Goto, KeepCaches
    <3>2. "loadMemory" \in Places
      BY DEF Places
    <3> QED
      BY <2>3, <3>1, <3>2
  <2>7. CASE LoadCount(t, "memory", "loadMemory", "storeMemory")
    <3>1. /\ pc[t] = "loadMemory" /\ pc' = [pc EXCEPT ![t] = "storeMemory"]
          /\ UNCHANGED <<cache, request>>
      BY <2>7 DEF LoadCount, Goto, KeepCaches
    <3>2. "storeMemory" \in Places
      BY DEF Places
    <3> QED
      BY <2>3, <3>1, <3>2
  <2>8. CASE StoreCount(t, "memory", "storeMemory", "fillL3")
    <3>1. /\ pc[t] = "storeMemory" /\ pc' = [pc EXCEPT ![t] = "fillL3"]
          /\ UNCHANGED <<cache, request>>
      BY <2>8 DEF StoreCount, Goto, KeepCaches
    <3>2. "fillL3" \in Places
      BY DEF Places
    <3> QED
      BY <2>3, <3>1, <3>2
  <2>9. CASE Lookup(t, "L1", "idle", "L2")
    <3>1. request' = request /\ pc[t] = "L1"
      BY <2>9 DEF Lookup, Goto
    <3>2. CASE pc' = [pc EXCEPT ![t] = "L2"] /\ Missed(CacheAt(t, "L1"), request[t][1])
               /\ cache' = cache
      <4>1. \A v \in {"L1", "L2", "L3"} \ {"L1"} : "L2" \in Owes[v] => pc[t] \in Owes[v]
        BY <3>1
      <4>2. "L2" \in Places
        BY DEF Places
      <4> QED
        BY <3>1, <3>2, <4>1, <4>2, MissStep
    <3>3. CASE pc' = [pc EXCEPT ![t] = "idle"]
               /\ cache' = [cache EXCEPT ![CacheAt(t, "L1")] =
                     AfterHit("LRU", @, request[t][1], request[t][2], NoLine)]
      <4>1. \A v \in {"L1", "L2", "L3"} : "idle" \in Owes[v] => pc[t] \in Owes[v]
        BY <3>1
      <4>2. "idle" \in Places
        BY DEF Places
      <4> QED
        BY <3>1, <3>3, <4>1, <4>2, HitStep
    <3> QED
      BY <2>9, <3>2, <3>3 DEF Lookup, Goto
  <2>10. CASE Lookup(t, "L2", "fillL1", "L3")
    <3>1. request' = request /\ pc[t] = "L2"
      BY <2>10 DEF Lookup, Goto
    <3>2. CASE pc' = [pc EXCEPT ![t] = "L3"] /\ Missed(CacheAt(t, "L2"), request[t][1])
               /\ cache' = cache
      <4>1. \A v \in {"L1", "L2", "L3"} \ {"L2"} : "L3" \in Owes[v] => pc[t] \in Owes[v]
        BY <3>1
      <4>2. "L3" \in Places
        BY DEF Places
      <4> QED
        BY <3>1, <3>2, <4>1, <4>2, MissStep
    <3>3. CASE pc' = [pc EXCEPT ![t] = "fillL1"]
               /\ cache' = [cache EXCEPT ![CacheAt(t, "L2")] =
                     AfterHit("LRU", @, request[t][1], request[t][2], NoLine)]
      <4>1. \A v \in {"L1", "L2", "L3"} : "fillL1" \in Owes[v] => pc[t] \in Owes[v]
        BY <3>1
      <4>2. "fillL1" \in Places
        BY DEF Places
      <4> QED
        BY <3>1, <3>3, <4>1, <4>2, HitStep
    <3> QED
      BY <2>10, <3>2, <3>3 DEF Lookup, Goto
  <2>11. CASE Lookup(t, "L3", "fillL2", "memory")
    <3>1. request' = request /\ pc[t] = "L3"
      BY <2>11 DEF Lookup, Goto
    <3>2. CASE pc' = [pc EXCEPT ![t] = "memory"] /\ Missed(CacheAt(t, "L3"), request[t][1])
               /\ cache' = cache
      <4>1. \A v \in {"L1", "L2", "L3"} \ {"L3"} : "memory" \in Owes[v] => pc[t] \in Owes[v]
        BY <3>1
      <4>2. "memory" \in Places
        BY DEF Places
      <4> QED
        BY <3>1, <3>2, <4>1, <4>2, MissStep
    <3>3. CASE pc' = [pc EXCEPT ![t] = "fillL2"]
               /\ cache' = [cache EXCEPT ![CacheAt(t, "L3")] =
                     AfterHit("LRU", @, request[t][1], request[t][2], NoLine)]
      <4>1. \A v \in {"L1", "L2", "L3"} : "fillL2" \in Owes[v] => pc[t] \in Owes[v]
        BY <3>1
      <4>2. "fillL2" \in Places
        BY DEF Places
      <4> QED
        BY <3>1, <3>3, <4>1, <4>2, HitStep
    <3> QED
      BY <2>11, <3>2, <3>3 DEF Lookup, Goto
  <2>12. CASE Fill(t, "L3", "fillL3", "fillL2")
    <3>1. pc[t] = "fillL3"
      BY <2>12 DEF Fill, Goto
    <3>2. /\ pc[t] \in Owes["L3"] /\ "fillL2" \notin Owes["L3"]
          /\ \A v \in {"L1", "L2", "L3"} : "fillL2" \in Owes[v] => pc[t] \in Owes[v]
      BY <3>1
    <3>3. "fillL2" \in Places
      BY DEF Places
    <3> QED
      BY <2>12, <3>1, <3>2, <3>3, FillStep
  <2>13. CASE Fill(t, "L2", "fillL2", "fillL1")
    <3>1. pc[t] = "fillL2"
      BY <2>13 DEF Fill, Goto
    <3>2. /\ pc[t] \in Owes["L2"] /\ "fillL1" \notin Owes["L2"]
          /\ \A v \in {"L1", "L2", "L3"} : "fillL1" \in Owes[v] => pc[t] \in Owes[v]
      BY <3>1
    <3>3. "fillL1" \in Places
      BY DEF Places
    <3> QED
      BY <2>13, <3>1, <3>2, <3>3, FillStep
  <2>14. CASE Fill(t, "L1", "fillL1", "idle")
    <3>1. pc[t] = "fillL1"
      BY <2>14 DEF Fill, Goto
    <3>2. /\ pc[t] \in Owes["L1"] /\ "idle" \notin Owes["L1"]
          /\ \A v \in {"L1", "L2", "L3"} : "idle" \in Owes[v] => pc[t] \in Owes[v]
      BY <3>1
    <3>3. "idle" \in Places
      BY DEF Places
    <3> QED
      BY <2>14, <3>1, <3>2, <3>3, FillStep
  <2> QED
    BY <1>2, <2>2, <2>4, <2>5, <2>6, <2>7, <2>8, <2>9, <2>10, <2>11, <2>12, <2>13, <2>14
       DEF Step
<1> QED
  BY <1>1, <1>2 DEF Next

\* The shapes of the variables and the bound, in every reachable state.
THEOREM Invariance == Spec => []CopiesInv
<1>1. CopiesInv /\ [Next]_vars => CopiesInv'
  BY CopiesStep
<1> QED
  BY CopiesInit, <1>1, PTL DEF Spec

\* Threads that miss a line together fill at most one copy each, and a cache that one
\* thread uses never holds a line twice, although lookup and fill are two sections.
THEOREM CopiesHold == Spec => []CopiesBounded
<1>1. CopiesInv => CopiesBounded
  BY DEF CopiesInv, Bounded, CopiesBounded, RequestLines
<1> QED
  BY <1>1, Invariance, PTL
-------------------------------------------------------------------------------
\* The statistics.  Each equation counts the threads at certain places: a step moves
\* one thread, and what it counts is what it moves.

Counters ==
    /\ pc \in [Threads -> Places] /\ loaded \in [Threads -> Nat]
    /\ lookups \in [Caches -> Nat] /\ misses \in [Caches -> Nat]
    /\ memory \in Nat /\ calls \in Nat
    /\ counted \in [Cores -> [access : Nat, memory : Nat]]

\* The threads of U that are at the places of S, where p says each one is.
Here(p, S, U) == {t \in U : p[t] \in S}

Entering == {"loadAccess", "storeAccess", "L1"}
OfLevel(counter, level) == [c \in Cores |-> counter[<<level, c>>]]

CallsAdd ==
    calls = SumFunctionOnSet(OfLevel(lookups, "L1"), Cores)
               + Cardinality(Here(pc, Entering, Threads))
L1Adds(c) ==
    misses[<<"L1", c>>] = lookups[<<"L2", c>>] + Cardinality(Here(pc, {"L2"}, Users(<<"L2", c>>)))
L2Adds ==
    SumFunctionOnSet(OfLevel(misses, "L2"), Cores)
        = lookups[Shared] + Cardinality(Here(pc, {"L3"}, Threads))
L3Adds == misses[Shared] = memory + Cardinality(Here(pc, {"memory"}, Threads))

\* The count of a core with one thread, through the load and the store of ++.
Exact(t) ==
    Users(<<"L1", CoreOf(t)>>) = {t} =>
        /\ counted[CoreOf(t)].access =
              IF pc[t] = "L1" THEN lookups[<<"L1", CoreOf(t)>>] + 1
                              ELSE lookups[<<"L1", CoreOf(t)>>]
        /\ pc[t] = "storeAccess" => loaded[t] = counted[CoreOf(t)].access

StatisticsInv ==
    /\ Counters
    /\ CallsAdd /\ (\A c \in Cores : L1Adds(c)) /\ L2Adds /\ L3Adds
    /\ \A t \in Threads : Exact(t)

LEMMA HereCounted ==
    ASSUME NEW p, NEW S, NEW U \in SUBSET Threads
    PROVE  IsFiniteSet(Here(p, S, U)) /\ Cardinality(Here(p, S, U)) \in Nat
<1>1. Here(p, S, U) \subseteq Threads /\ IsFiniteSet(Threads)
  BY MultiCoreAssumption DEF Here
<1> QED
  BY <1>1, FS_Subset, FS_CardinalityType

Moved(p, q, t, to) == q = [p EXCEPT ![t] = to]

\* A thread moves: it is counted where it comes to and no more where it leaves.
LEMMA HereMoves ==
    ASSUME NEW p \in [Threads -> Places], NEW S, NEW U \in SUBSET Threads,
           NEW t \in Threads, NEW to \in Places, NEW q, Moved(p, q, t, to)
    PROVE  /\ t \notin U \/ (p[t] \in S <=> to \in S) =>
                 Cardinality(Here(q, S, U)) = Cardinality(Here(p, S, U))
           /\ t \in U /\ p[t] \notin S /\ to \in S =>
                 Cardinality(Here(q, S, U)) = Cardinality(Here(p, S, U)) + 1
           /\ t \in U /\ p[t] \in S /\ to \notin S =>
                 Cardinality(Here(q, S, U)) = Cardinality(Here(p, S, U)) - 1
<1>1. IsFiniteSet(Here(p, S, U)) /\ Cardinality(Here(p, S, U)) \in Nat
  BY HereCounted
<1>2. \A u \in U : q[u] = IF u = t THEN to ELSE p[u]
  BY DEF Moved
<1>3. CASE t \notin U \/ (p[t] \in S <=> to \in S)
  <2>1. Here(q, S, U) = Here(p, S, U)
    BY <1>2, <1>3 DEF Here
  <2> QED
    BY <1>3, <2>1
<1>4. CASE t \in U /\ p[t] \notin S /\ to \in S
  <2>1. Here(q, S, U) = Here(p, S, U) \cup {t} /\ t \notin Here(p, S, U)
    BY <1>2, <1>4 DEF Here
  <2>2. Cardinality(Here(q, S, U)) = Cardinality(Here(p, S, U)) + 1
    BY <1>1, <2>1, FS_AddElement
  <2> QED
    BY <1>4, <2>2
<1>5. CASE t \in U /\ p[t] \in S /\ to \notin S
  <2>1. Here(q, S, U) = Here(p, S, U) \ {t} /\ t \in Here(p, S, U)
    BY <1>2, <1>5 DEF Here
  <2>2. Cardinality(Here(q, S, U)) = Cardinality(Here(p, S, U)) - 1
    BY <1>1, <2>1, SmallerSet
  <2> QED
    BY <1>5, <2>2
<1> QED
  BY <1>3, <1>4, <1>5

LEMMA SumOfLevel ==
    ASSUME NEW counter \in [Caches -> Nat], NEW level \in {"L1", "L2"}
    PROVE  /\ SumFunctionOnSet(OfLevel(counter, level), Cores) \in Nat
           /\ \A c \in Cores : <<level, c>> \in Caches /\ OfLevel(counter, level)[c] \in Nat
           /\ \A c \in Cores : OfLevel(counter, level)[c] = counter[<<level, c>>]
<1>1. IsFiniteSet(Cores)
  BY MultiCoreAssumption, FS_Interval DEF Cores
<1>2. \A c \in Cores : /\ <<level, c>> \in Caches /\ OfLevel(counter, level)[c] \in Nat
                       /\ OfLevel(counter, level)[c] = counter[<<level, c>>]
  BY DEF Caches, Private, OfLevel
<1> QED
  BY <1>1, <1>2, SumIsNatural

\* A counter of one cache is one more.
OneMore(counter, new, d) == new = [counter EXCEPT ![d] = @ + 1]

LEMMA OneMoreOf ==
    ASSUME NEW counter \in [Caches -> Nat], NEW d \in Caches, NEW new, OneMore(counter, new, d)
    PROVE  /\ new \in [Caches -> Nat] /\ new[d] = counter[d] + 1
           /\ \A c \in Caches \ {d} : new[c] = counter[c]
BY DEF OneMore

LEMMA SumOfLevelGrows ==
    ASSUME NEW counter \in [Caches -> Nat], NEW level \in {"L1", "L2"}, NEW core \in Cores,
           NEW new, OneMore(counter, new, <<level, core>>)
    PROVE  SumFunctionOnSet(OfLevel(new, level), Cores)
               = SumFunctionOnSet(OfLevel(counter, level), Cores) + 1
<1>1. <<level, core>> \in Caches
  BY DEF Caches, Private
<1>2. new \in [Caches -> Nat] /\ new[<<level, core>>] = counter[<<level, core>>] + 1
  BY <1>1 DEF OneMore
<1> DEFINE f == OfLevel(counter, level)
           g == OfLevel(new, level)
<1>3. \A c \in Cores : f[c] \in Nat /\ g[c] \in Nat
  BY <1>2, SumOfLevel
<1>4. g[core] = f[core] + 1
  <2>1. f[core] = counter[<<level, core>>] /\ g[core] = new[<<level, core>>]
    BY DEF OfLevel
  <2> QED
    BY <1>2, <2>1
<1>5. \A c \in Cores \ {core} : f[c] = g[c]
  <2> SUFFICES ASSUME NEW c \in Cores \ {core} PROVE f[c] = g[c]
    OBVIOUS
  <2>1. <<level, c>> # <<level, core>> /\ <<level, c>> \in Caches
    BY SumOfLevel
  <2>2. new[<<level, c>>] = counter[<<level, c>>]
    BY <2>1 DEF OneMore
  <2>3. f[c] = counter[<<level, c>>] /\ g[c] = new[<<level, c>>]
    BY DEF OfLevel
  <2> QED
    BY <2>2, <2>3
<1>6. IsFiniteSet(Cores)
  BY MultiCoreAssumption, FS_Interval DEF Cores
<1>7. SumFunctionOnSet(f, Cores) \in Nat
  BY SumOfLevel
<1> HIDE DEF f, g
<1>8. SumFunctionOnSet(g, Cores) = SumFunctionOnSet(f, Cores) - f[core] + g[core]
  BY <1>3, <1>5, <1>6, SumOfChanged
<1> QED
  BY <1>3, <1>4, <1>7, <1>8 DEF f, g

\* A counter of another cache.
LEMMA SumOfLevelKept ==
    ASSUME NEW counter \in [Caches -> Nat], NEW level \in {"L1", "L2"},
           NEW d \in Caches, d[1] # level,
           NEW new, OneMore(counter, new, d)
    PROVE  OfLevel(new, level) = OfLevel(counter, level)
<1>1. \A c \in Cores : <<level, c>> # d /\ <<level, c>> \in Caches
  BY DEF Caches, Private
<1> QED
  BY <1>1 DEF OfLevel, OneMore

-------------------------------------------------------------------------------
\* What a step that moves a thread does to the four counts of threads.

Equations == CallsAdd /\ (\A c \in Cores : L1Adds(c)) /\ L2Adds /\ L3Adds
Level2(c) == Users(<<"L2", c>>)

LEMMA Level2Users ==
    /\ \A c \in Cores : Level2(c) \in SUBSET Threads
    /\ \A t \in Threads, c \in Cores : t \in Level2(c) <=> c = CoreOf(t)
BY DEF Level2, Users, CacheAt

\* None of the counts changes where the thread is on the same side of each.
LEMMA PlainMove ==
    ASSUME StatisticsInv, NEW t \in Threads, NEW to \in Places,
           pc' = [pc EXCEPT ![t] = to], UNCHANGED <<lookups, misses, memory, calls>>,
           pc[t] \in Entering <=> to \in Entering,
           pc[t] # "L2" /\ pc[t] # "L3" /\ pc[t] # "memory",
           to # "L2" /\ to # "L3" /\ to # "memory"
    PROVE  Equations'
<1>1. pc \in [Threads -> Places] /\ CallsAdd /\ (\A c \in Cores : L1Adds(c)) /\ L2Adds /\ L3Adds
  BY DEF StatisticsInv, Counters
<1>0. Moved(pc, pc', t, to)
  BY DEF Moved
<1>2. Cardinality(Here(pc', Entering, Threads)) = Cardinality(Here(pc, Entering, Threads))
  BY <1>0, <1>1, HereMoves
<1>3. \A c \in Cores : Cardinality(Here(pc', {"L2"}, Level2(c))) = Cardinality(Here(pc, {"L2"}, Level2(c)))
  <2> SUFFICES ASSUME NEW c \in Cores
               PROVE  Cardinality(Here(pc', {"L2"}, Level2(c))) = Cardinality(Here(pc, {"L2"}, Level2(c)))
    OBVIOUS
  <2>1. Level2(c) \in SUBSET Threads /\ (pc[t] \in {"L2"} <=> to \in {"L2"})
    BY Level2Users
  <2> QED
    BY <1>0, <1>1, <2>1, HereMoves
<1>4. Cardinality(Here(pc', {"L3"}, Threads)) = Cardinality(Here(pc, {"L3"}, Threads))
  <2>1. pc[t] \in {"L3"} <=> to \in {"L3"}
    OBVIOUS
  <2> QED
    BY <1>0, <1>1, <2>1, HereMoves
<1>5. Cardinality(Here(pc', {"memory"}, Threads)) = Cardinality(Here(pc, {"memory"}, Threads))
  <2>1. pc[t] \in {"memory"} <=> to \in {"memory"}
    OBVIOUS
  <2> QED
    BY <1>0, <1>1, <2>1, HereMoves
<1>6. CallsAdd'
  BY <1>1, <1>2 DEF CallsAdd
<1>7. \A c \in Cores : L1Adds(c)'
  BY <1>1, <1>3 DEF L1Adds, Level2
<1>8. L2Adds'
  BY <1>1, <1>4 DEF L2Adds
<1>9. L3Adds'
  BY <1>1, <1>5 DEF L3Adds
<1> QED
  BY <1>6, <1>7, <1>8, <1>9 DEF Equations

\* A thread alone on its core is not disturbed by the others.
LEMMA OthersExact ==
    ASSUME StatisticsInv, NEW t \in Threads, NEW u \in Threads \ {t}, NEW to \in Places,
           pc' = [pc EXCEPT ![t] = to], loaded'[u] = loaded[u],
           CoreOf(u) # CoreOf(t) =>
               /\ counted'[CoreOf(u)] = counted[CoreOf(u)]
               /\ lookups'[<<"L1", CoreOf(u)>>] = lookups[<<"L1", CoreOf(u)>>]
    PROVE  Exact(u)'
<1>1. SUFFICES ASSUME Users(<<"L1", CoreOf(u)>>) = {u} PROVE Exact(u)'
  BY DEF Exact
<1>2. CoreOf(u) # CoreOf(t)
  BY <1>1 DEF Users, CacheAt
<1>3. pc'[u] = pc[u]
  BY DEF StatisticsInv, Counters
<1>4. Exact(u)
  BY DEF StatisticsInv
<1> QED
  BY <1>2, <1>3, <1>4 DEF Exact

\* One more of what a cache counts, and the places of the thread that looked it up:
\* which of them a lookup leaves and enters.
LookedUp(t, level, to) ==
    /\ pc[t] = level /\ Moved(pc, pc', t, to)
    /\ OneMore(lookups, lookups', CacheAt(t, level))
    /\ memory' = memory /\ calls' = calls /\ counted' = counted /\ loaded' = loaded

LEMMA LookupEither ==
    ASSUME NEW t, NEW level, NEW hit, NEW miss, Lookup(t, level, hit, miss)
    PROVE  \/ LookedUp(t, level, hit) /\ misses' = misses
           \/ LookedUp(t, level, miss) /\ OneMore(misses, misses', CacheAt(t, level))
BY DEF Lookup, Goto, LookedUp, Moved, OneMore

\* The caches of a thread.
LEMMA OwnCaches ==
    ASSUME NEW t \in Threads
    PROVE  /\ CoreOf(t) \in Cores
           /\ CacheAt(t, "L1") = <<"L1", CoreOf(t)>> /\ CacheAt(t, "L2") = <<"L2", CoreOf(t)>>
           /\ CacheAt(t, "L3") = Shared
           /\ \A level \in {"L1", "L2", "L3"} : CacheAt(t, level) \in Caches
           /\ Shared \in Caches /\ Shared[1] = "L3"
           /\ \A c \in Cores : /\ <<"L1", c>> \in Caches /\ <<"L2", c>> \in Caches
                               /\ <<"L1", c>> # Shared /\ <<"L2", c>> # Shared
                               /\ \A e \in Cores : <<"L1", c>> # <<"L2", e>>
BY Constants DEF CacheAt, Shared, Caches, Private

LEMMA L1Looked ==
    ASSUME StatisticsInv, NEW t \in Threads, NEW to \in {"idle", "L2"}, LookedUp(t, "L1", to),
           \/ to = "idle" /\ misses' = misses
           \/ to = "L2" /\ OneMore(misses, misses', CacheAt(t, "L1"))
    PROVE  Equations'
<1> DEFINE core == CoreOf(t)
           d == <<"L1", core>>
<1>0. /\ pc \in [Threads -> Places]
      /\ lookups \in [Caches -> Nat] /\ misses \in [Caches -> Nat]
  BY DEF StatisticsInv, Counters
<1>1. /\ pc \in [Threads -> Places] /\ lookups \in [Caches -> Nat] /\ misses \in [Caches -> Nat]
      /\ memory \in Nat /\ calls \in Nat
      /\ CallsAdd /\ (\A c \in Cores : L1Adds(c)) /\ L2Adds /\ L3Adds
  BY DEF StatisticsInv, Counters
<1>2. /\ pc[t] = "L1" /\ Moved(pc, pc', t, to) /\ OneMore(lookups, lookups', d)
      /\ memory' = memory /\ calls' = calls
  BY OwnCaches DEF LookedUp
<1>3. to \in Places /\ core \in Cores /\ d \in Caches /\ d[1] = "L1"
  BY OwnCaches DEF Places
<1>4. \/ to = "idle" /\ misses' = misses
      \/ to = "L2" /\ OneMore(misses, misses', d)
  BY OwnCaches
<1> HIDE DEF d, core
<1>5. lookups'[d] = lookups[d] + 1 /\ \A c \in Caches \ {d} : lookups'[c] = lookups[c]
  BY <1>0, <1>2, <1>3, OneMoreOf
<1>6. CallsAdd'
  <2>1. pc[t] \in Entering /\ to \notin Entering
    BY <1>2 DEF Entering
  <2>2. Cardinality(Here(pc', Entering, Threads)) = Cardinality(Here(pc, Entering, Threads)) - 1
    BY <1>0, <1>2, <1>3, <2>1, HereMoves
  <2>3. SumFunctionOnSet(OfLevel(lookups', "L1"), Cores) = SumFunctionOnSet(OfLevel(lookups, "L1"), Cores) + 1
    BY <1>0, <1>2, <1>3, SumOfLevelGrows DEF d
  <2>4. /\ SumFunctionOnSet(OfLevel(lookups, "L1"), Cores) \in Nat
        /\ Cardinality(Here(pc, Entering, Threads)) \in Nat
    BY <1>1, SumOfLevel, HereCounted
  <2> QED
    BY <1>1, <1>2, <2>2, <2>3, <2>4 DEF CallsAdd
<1>7. ASSUME NEW c \in Cores PROVE L1Adds(c)'
  <2>1. Level2(c) \in SUBSET Threads /\ (t \in Level2(c) <=> c = core)
    BY Level2Users DEF core
  <2>2. lookups'[<<"L2", c>>] = lookups[<<"L2", c>>]
    BY <1>5, OwnCaches DEF d
  <2>3. /\ misses[<<"L1", c>>] = lookups[<<"L2", c>>] + Cardinality(Here(pc, {"L2"}, Level2(c)))
        /\ lookups[<<"L2", c>>] \in Nat /\ Cardinality(Here(pc, {"L2"}, Level2(c))) \in Nat
    BY <1>1, <2>1, OwnCaches, HereCounted DEF L1Adds, Level2
  <2>4. misses'[<<"L1", c>>] = lookups[<<"L2", c>>] + Cardinality(Here(pc', {"L2"}, Level2(c)))
    <3>1. CASE to = "L2" /\ c = core
      <4>1. pc[t] \notin {"L2"} /\ to \in {"L2"}
        BY <1>2, <3>1
      <4>2. Cardinality(Here(pc', {"L2"}, Level2(c))) = Cardinality(Here(pc, {"L2"}, Level2(c))) + 1
        BY <1>0, <1>2, <1>3, <2>1, <3>1, <4>1, HereMoves
      <4>3. misses'[<<"L1", c>>] = misses[<<"L1", c>>] + 1
        BY <1>0, <1>3, <1>4, <3>1, OneMoreOf DEF d
      <4> QED
        BY <2>3, <4>2, <4>3
    <3>2. CASE ~(to = "L2" /\ c = core)
      <4>1. t \notin Level2(c) \/ (pc[t] \in {"L2"} <=> to \in {"L2"})
        BY <1>2, <1>4, <2>1, <3>2
      <4>2. Cardinality(Here(pc', {"L2"}, Level2(c))) = Cardinality(Here(pc, {"L2"}, Level2(c)))
        BY <1>0, <1>2, <1>3, <2>1, <4>1, HereMoves
      <4>3. misses'[<<"L1", c>>] = misses[<<"L1", c>>]
        <5>1. to = "idle" \/ <<"L1", c>> \in Caches \ {d}
          BY <1>4, <3>2, OwnCaches DEF d
        <5> QED
          BY <1>0, <1>3, <1>4, <5>1, OneMoreOf
      <4> QED
        BY <2>3, <4>2, <4>3
    <3> QED
      BY <3>1, <3>2
  <2> QED
    BY <2>2, <2>4 DEF L1Adds, Level2
<1>8. misses'[Shared] = misses[Shared] /\ lookups'[Shared] = lookups[Shared]
  <2>1. Shared \in Caches \ {d}
    BY <1>3, OwnCaches DEF d
  <2> QED
    BY <1>0, <1>3, <1>4, <1>5, <2>1, OneMoreOf
<1>9. L2Adds'
  <2>1. OfLevel(misses', "L2") = OfLevel(misses, "L2")
    BY <1>0, <1>3, <1>4, SumOfLevelKept
  <2>2. pc[t] \in {"L3"} <=> to \in {"L3"}
    BY <1>2, <1>4
  <2>3. Cardinality(Here(pc', {"L3"}, Threads)) = Cardinality(Here(pc, {"L3"}, Threads))
    BY <1>0, <1>2, <1>3, <2>2, HereMoves
  <2> QED
    BY <1>1, <1>8, <2>1, <2>3 DEF L2Adds
<1>10. L3Adds'
  <2>1. pc[t] \in {"memory"} <=> to \in {"memory"}
    BY <1>2, <1>4
  <2>2. Cardinality(Here(pc', {"memory"}, Threads)) = Cardinality(Here(pc, {"memory"}, Threads))
    BY <1>0, <1>2, <1>3, <2>1, HereMoves
  <2> QED
    BY <1>1, <1>2, <1>8, <2>2 DEF L3Adds
<1> QED
  BY <1>6, <1>7, <1>9, <1>10 DEF Equations

LEMMA L2Looked ==
    ASSUME StatisticsInv, NEW t \in Threads, NEW to \in {"fillL1", "L3"}, LookedUp(t, "L2", to),
           \/ to = "fillL1" /\ misses' = misses
           \/ to = "L3" /\ OneMore(misses, misses', CacheAt(t, "L2"))
    PROVE  Equations'
<1> DEFINE core == CoreOf(t)
           d == <<"L2", core>>
<1>0. /\ pc \in [Threads -> Places]
      /\ lookups \in [Caches -> Nat] /\ misses \in [Caches -> Nat]
  BY DEF StatisticsInv, Counters
<1>1. /\ pc \in [Threads -> Places] /\ lookups \in [Caches -> Nat] /\ misses \in [Caches -> Nat]
      /\ memory \in Nat /\ calls \in Nat
      /\ CallsAdd /\ (\A c \in Cores : L1Adds(c)) /\ L2Adds /\ L3Adds
  BY DEF StatisticsInv, Counters
<1>2. /\ pc[t] = "L2" /\ Moved(pc, pc', t, to) /\ OneMore(lookups, lookups', d)
      /\ memory' = memory /\ calls' = calls
  BY OwnCaches DEF LookedUp
<1>3. to \in Places /\ core \in Cores /\ d \in Caches /\ d[1] = "L2"
  BY OwnCaches DEF Places
<1>4. \/ to = "fillL1" /\ misses' = misses
      \/ to = "L3" /\ OneMore(misses, misses', d)
  BY OwnCaches
<1> HIDE DEF d, core
<1>5. lookups'[d] = lookups[d] + 1 /\ \A c \in Caches \ {d} : lookups'[c] = lookups[c]
  BY <1>0, <1>2, <1>3, OneMoreOf
<1>6. CallsAdd'
  <2>1. pc[t] \in Entering <=> to \in Entering
    BY <1>2, <1>4 DEF Entering
  <2>2. Cardinality(Here(pc', Entering, Threads)) = Cardinality(Here(pc, Entering, Threads))
    BY <1>0, <1>2, <1>3, <2>1, HereMoves
  <2>3. OfLevel(lookups', "L1") = OfLevel(lookups, "L1")
    BY <1>0, <1>2, <1>3, SumOfLevelKept
  <2> QED
    BY <1>1, <1>2, <2>2, <2>3 DEF CallsAdd
<1>7. ASSUME NEW c \in Cores PROVE L1Adds(c)'
  <2>1. Level2(c) \in SUBSET Threads /\ (t \in Level2(c) <=> c = core)
    BY Level2Users DEF core
  <2>2. misses'[<<"L1", c>>] = misses[<<"L1", c>>]
    <3>1. <<"L1", c>> \in Caches \ {d}
      BY <1>3, OwnCaches DEF d
    <3> QED
      BY <1>0, <1>3, <1>4, <3>1, OneMoreOf
  <2>3. /\ misses[<<"L1", c>>] = lookups[<<"L2", c>>] + Cardinality(Here(pc, {"L2"}, Level2(c)))
        /\ lookups[<<"L2", c>>] \in Nat /\ Cardinality(Here(pc, {"L2"}, Level2(c))) \in Nat
    BY <1>1, <2>1, OwnCaches, HereCounted DEF L1Adds, Level2
  <2>4. misses[<<"L1", c>>] = lookups'[<<"L2", c>>] + Cardinality(Here(pc', {"L2"}, Level2(c)))
    <3>1. CASE c = core
      <4>1. pc[t] \in {"L2"} /\ to \notin {"L2"}
        BY <1>2, <1>4
      <4>2. Cardinality(Here(pc', {"L2"}, Level2(c))) = Cardinality(Here(pc, {"L2"}, Level2(c))) - 1
        BY <1>0, <1>2, <1>3, <2>1, <3>1, <4>1, HereMoves
      <4>3. lookups'[<<"L2", c>>] = lookups[<<"L2", c>>] + 1
        BY <1>5, <3>1 DEF d
      <4> QED
        BY <2>3, <4>2, <4>3
    <3>2. CASE c # core
      <4>1. Cardinality(Here(pc', {"L2"}, Level2(c))) = Cardinality(Here(pc, {"L2"}, Level2(c)))
        BY <1>0, <1>2, <1>3, <2>1, <3>2, HereMoves
      <4>2. lookups'[<<"L2", c>>] = lookups[<<"L2", c>>]
        BY <1>5, <3>2, OwnCaches DEF d
      <4> QED
        BY <2>3, <4>1, <4>2
    <3> QED
      BY <3>1, <3>2
  <2> QED
    BY <2>2, <2>4 DEF L1Adds, Level2
<1>8. misses'[Shared] = misses[Shared] /\ lookups'[Shared] = lookups[Shared]
  <2>1. Shared \in Caches \ {d}
    BY <1>3, OwnCaches DEF d
  <2> QED
    BY <1>0, <1>3, <1>4, <1>5, <2>1, OneMoreOf
<1>9. L2Adds'
  <2>1. /\ SumFunctionOnSet(OfLevel(misses, "L2"), Cores)
               = lookups[Shared] + Cardinality(Here(pc, {"L3"}, Threads))
        /\ lookups[Shared] \in Nat /\ Cardinality(Here(pc, {"L3"}, Threads)) \in Nat
    BY <1>1, OwnCaches, HereCounted DEF L2Adds
  <2>2. SumFunctionOnSet(OfLevel(misses', "L2"), Cores)
            = lookups[Shared] + Cardinality(Here(pc', {"L3"}, Threads))
    <3>1. CASE to = "fillL1"
      <4>1. pc[t] \in {"L3"} <=> to \in {"L3"}
        BY <1>2, <3>1
      <4>2. Cardinality(Here(pc', {"L3"}, Threads)) = Cardinality(Here(pc, {"L3"}, Threads))
        BY <1>0, <1>2, <1>3, <4>1, HereMoves
      <4> QED
        BY <1>4, <2>1, <3>1, <4>2
    <3>2. CASE to = "L3"
      <4>1. pc[t] \notin {"L3"} /\ to \in {"L3"}
        BY <1>2, <3>2
      <4>2. Cardinality(Here(pc', {"L3"}, Threads)) = Cardinality(Here(pc, {"L3"}, Threads)) + 1
        BY <1>0, <1>2, <1>3, <4>1, HereMoves
      <4>3. SumFunctionOnSet(OfLevel(misses', "L2"), Cores) = SumFunctionOnSet(OfLevel(misses, "L2"), Cores) + 1
        BY <1>0, <1>3, <1>4, <3>2, SumOfLevelGrows DEF d
      <4> QED
        BY <2>1, <4>2, <4>3
    <3> QED
      BY <3>1, <3>2
  <2> QED
    BY <1>8, <2>2 DEF L2Adds
<1>10. L3Adds'
  <2>1. pc[t] \in {"memory"} <=> to \in {"memory"}
    BY <1>2, <1>4
  <2>2. Cardinality(Here(pc', {"memory"}, Threads)) = Cardinality(Here(pc, {"memory"}, Threads))
    BY <1>0, <1>2, <1>3, <2>1, HereMoves
  <2> QED
    BY <1>1, <1>2, <1>8, <2>2 DEF L3Adds
<1> QED
  BY <1>6, <1>7, <1>9, <1>10 DEF Equations

LEMMA L3Looked ==
    ASSUME StatisticsInv, NEW t \in Threads, NEW to \in {"fillL2", "memory"}, LookedUp(t, "L3", to),
           \/ to = "fillL2" /\ misses' = misses
           \/ to = "memory" /\ OneMore(misses, misses', CacheAt(t, "L3"))
    PROVE  Equations'
<1>0. pc \in [Threads -> Places] /\ lookups \in [Caches -> Nat] /\ misses \in [Caches -> Nat]
  BY DEF StatisticsInv, Counters
<1>1. /\ memory \in Nat /\ calls \in Nat
      /\ CallsAdd /\ (\A c \in Cores : L1Adds(c)) /\ L2Adds /\ L3Adds
  BY DEF StatisticsInv, Counters
<1>2. /\ pc[t] = "L3" /\ Moved(pc, pc', t, to) /\ OneMore(lookups, lookups', Shared)
      /\ memory' = memory /\ calls' = calls
  BY OwnCaches DEF LookedUp
<1>3. to \in Places /\ Shared \in Caches /\ Shared[1] = "L3"
  BY OwnCaches DEF Places
<1>4. \/ to = "fillL2" /\ misses' = misses
      \/ to = "memory" /\ OneMore(misses, misses', Shared)
  BY OwnCaches
<1>5. lookups'[Shared] = lookups[Shared] + 1 /\ \A c \in Caches \ {Shared} : lookups'[c] = lookups[c]
  BY <1>0, <1>2, <1>3, OneMoreOf
<1>6. CallsAdd'
  <2>1. pc[t] \in Entering <=> to \in Entering
    BY <1>2, <1>4 DEF Entering
  <2>2. Cardinality(Here(pc', Entering, Threads)) = Cardinality(Here(pc, Entering, Threads))
    BY <1>0, <1>2, <1>3, <2>1, HereMoves
  <2>3. OfLevel(lookups', "L1") = OfLevel(lookups, "L1")
    BY <1>0, <1>2, <1>3, SumOfLevelKept
  <2> QED
    BY <1>1, <1>2, <2>2, <2>3 DEF CallsAdd
<1>7. ASSUME NEW c \in Cores PROVE L1Adds(c)'
  <2>1. Level2(c) \in SUBSET Threads /\ (pc[t] \in {"L2"} <=> to \in {"L2"})
    BY <1>2, <1>4, Level2Users
  <2>2. misses'[<<"L1", c>>] = misses[<<"L1", c>>]
    <3>1. <<"L1", c>> \in Caches \ {Shared}
      BY OwnCaches
    <3> QED
      BY <1>0, <1>3, <1>4, <3>1, OneMoreOf
  <2>3. lookups'[<<"L2", c>>] = lookups[<<"L2", c>>]
    BY <1>5, OwnCaches
  <2>4. Cardinality(Here(pc', {"L2"}, Level2(c))) = Cardinality(Here(pc, {"L2"}, Level2(c)))
    BY <1>0, <1>2, <1>3, <2>1, HereMoves
  <2> QED
    BY <1>1, <2>2, <2>3, <2>4 DEF L1Adds, Level2
<1>8. L2Adds'
  <2>1. /\ SumFunctionOnSet(OfLevel(misses, "L2"), Cores)
               = lookups[Shared] + Cardinality(Here(pc, {"L3"}, Threads))
        /\ lookups[Shared] \in Nat /\ Cardinality(Here(pc, {"L3"}, Threads)) \in Nat
    BY <1>0, <1>1, OwnCaches, HereCounted DEF L2Adds
  <2>2. OfLevel(misses', "L2") = OfLevel(misses, "L2")
    BY <1>0, <1>3, <1>4, SumOfLevelKept
  <2>3. pc[t] \in {"L3"} /\ to \notin {"L3"}
    BY <1>2, <1>4
  <2>4. Cardinality(Here(pc', {"L3"}, Threads)) = Cardinality(Here(pc, {"L3"}, Threads)) - 1
    BY <1>0, <1>2, <1>3, <2>3, HereMoves
  <2> QED
    BY <1>5, <2>1, <2>2, <2>4 DEF L2Adds
<1>9. L3Adds'
  <2>1. /\ misses[Shared] = memory + Cardinality(Here(pc, {"memory"}, Threads))
        /\ Cardinality(Here(pc, {"memory"}, Threads)) \in Nat
    BY <1>1, HereCounted DEF L3Adds
  <2>2. misses'[Shared] = memory + Cardinality(Here(pc', {"memory"}, Threads))
    <3>1. CASE to = "fillL2"
      <4>1. pc[t] \in {"memory"} <=> to \in {"memory"}
        BY <1>2, <3>1
      <4>2. Cardinality(Here(pc', {"memory"}, Threads)) = Cardinality(Here(pc, {"memory"}, Threads))
        BY <1>0, <1>2, <1>3, <4>1, HereMoves
      <4> QED
        BY <1>4, <2>1, <3>1, <4>2
    <3>2. CASE to = "memory"
      <4>1. pc[t] \notin {"memory"} /\ to \in {"memory"}
        BY <1>2, <3>2
      <4>2. Cardinality(Here(pc', {"memory"}, Threads)) = Cardinality(Here(pc, {"memory"}, Threads)) + 1
        BY <1>0, <1>2, <1>3, <4>1, HereMoves
      <4>3. misses'[Shared] = misses[Shared] + 1
        BY <1>0, <1>3, <1>4, <3>2, OneMoreOf
      <4> QED
        BY <1>1, <2>1, <4>2, <4>3
    <3> QED
      BY <3>1, <3>2
  <2> QED
    BY <1>2, <2>2 DEF L3Adds
<1> QED
  BY <1>6, <1>7, <1>8, <1>9 DEF Equations

LEMMA FetchAdds ==
    ASSUME StatisticsInv, NEW t \in Threads, FetchMemory(t)
    PROVE  Equations'
<1>0. pc \in [Threads -> Places] /\ memory \in Nat
  BY DEF StatisticsInv, Counters
<1>1. CallsAdd /\ (\A c \in Cores : L1Adds(c)) /\ L2Adds /\ L3Adds
  BY DEF StatisticsInv
<1>2. /\ pc[t] = "memory" /\ Moved(pc, pc', t, "loadMemory")
      /\ memory' = memory + 1 /\ calls' = calls /\ lookups' = lookups /\ misses' = misses
  BY DEF FetchMemory, Goto, Moved, KeepCaches
<1>3. "loadMemory" \in Places
  BY DEF Places
<1>4. CallsAdd'
  <2>1. pc[t] \in Entering <=> "loadMemory" \in Entering
    BY <1>2 DEF Entering
  <2>2. Cardinality(Here(pc', Entering, Threads)) = Cardinality(Here(pc, Entering, Threads))
    BY <1>0, <1>2, <1>3, <2>1, HereMoves
  <2> QED
    BY <1>1, <1>2, <2>2 DEF CallsAdd
<1>5. ASSUME NEW c \in Cores PROVE L1Adds(c)'
  <2>1. Level2(c) \in SUBSET Threads /\ (pc[t] \in {"L2"} <=> "loadMemory" \in {"L2"})
    BY <1>2, Level2Users
  <2>2. Cardinality(Here(pc', {"L2"}, Level2(c))) = Cardinality(Here(pc, {"L2"}, Level2(c)))
    BY <1>0, <1>2, <1>3, <2>1, HereMoves
  <2> QED
    BY <1>1, <1>2, <2>2 DEF L1Adds, Level2
<1>6. L2Adds'
  <2>1. pc[t] \in {"L3"} <=> "loadMemory" \in {"L3"}
    BY <1>2
  <2>2. Cardinality(Here(pc', {"L3"}, Threads)) = Cardinality(Here(pc, {"L3"}, Threads))
    BY <1>0, <1>2, <1>3, <2>1, HereMoves
  <2> QED
    BY <1>1, <1>2, <2>2 DEF L2Adds
<1>7. L3Adds'
  <2>1. pc[t] \in {"memory"} /\ "loadMemory" \notin {"memory"}
    BY <1>2
  <2>2. Cardinality(Here(pc', {"memory"}, Threads)) = Cardinality(Here(pc, {"memory"}, Threads)) - 1
    BY <1>0, <1>2, <1>3, <2>1, HereMoves
  <2>3. Cardinality(Here(pc, {"memory"}, Threads)) \in Nat
    BY HereCounted
  <2> QED
    BY <1>0, <1>1, <1>2, <2>2, <2>3 DEF L3Adds
<1> QED
  BY <1>4, <1>5, <1>6, <1>7 DEF Equations

LEMMA StartAdds ==
    ASSUME StatisticsInv, NEW t \in Threads, Start(t)
    PROVE  Equations'
<1>0. pc \in [Threads -> Places] /\ calls \in Nat /\ lookups \in [Caches -> Nat]
  BY DEF StatisticsInv, Counters
<1>1. CallsAdd /\ (\A c \in Cores : L1Adds(c)) /\ L2Adds /\ L3Adds
  BY DEF StatisticsInv
<1>2. /\ pc[t] = "idle" /\ Moved(pc, pc', t, "loadAccess")
      /\ memory' = memory /\ calls' = calls + 1 /\ lookups' = lookups /\ misses' = misses
  BY DEF Start, Goto, Moved, KeepCaches
<1>3. "loadAccess" \in Places
  BY DEF Places
<1>4. CallsAdd'
  <2>1. pc[t] \notin Entering /\ "loadAccess" \in Entering
    BY <1>2 DEF Entering
  <2>2. Cardinality(Here(pc', Entering, Threads)) = Cardinality(Here(pc, Entering, Threads)) + 1
    BY <1>0, <1>2, <1>3, <2>1, HereMoves
  <2>3. /\ Cardinality(Here(pc, Entering, Threads)) \in Nat
        /\ SumFunctionOnSet(OfLevel(lookups, "L1"), Cores) \in Nat
    BY <1>0, HereCounted, SumOfLevel
  <2> QED
    BY <1>0, <1>1, <1>2, <2>2, <2>3 DEF CallsAdd
<1>5. ASSUME NEW c \in Cores PROVE L1Adds(c)'
  <2>1. Level2(c) \in SUBSET Threads /\ (pc[t] \in {"L2"} <=> "loadAccess" \in {"L2"})
    BY <1>2, Level2Users
  <2>2. Cardinality(Here(pc', {"L2"}, Level2(c))) = Cardinality(Here(pc, {"L2"}, Level2(c)))
    BY <1>0, <1>2, <1>3, <2>1, HereMoves
  <2> QED
    BY <1>1, <1>2, <2>2 DEF L1Adds, Level2
<1>6. L2Adds'
  <2>1. pc[t] \in {"L3"} <=> "loadAccess" \in {"L3"}
    BY <1>2
  <2>2. Cardinality(Here(pc', {"L3"}, Threads)) = Cardinality(Here(pc, {"L3"}, Threads))
    BY <1>0, <1>2, <1>3, <2>1, HereMoves
  <2> QED
    BY <1>1, <1>2, <2>2 DEF L2Adds
<1>7. L3Adds'
  <2>1. pc[t] \in {"memory"} <=> "loadAccess" \in {"memory"}
    BY <1>2
  <2>2. Cardinality(Here(pc', {"memory"}, Threads)) = Cardinality(Here(pc, {"memory"}, Threads))
    BY <1>0, <1>2, <1>3, <2>1, HereMoves
  <2> QED
    BY <1>1, <1>2, <2>2 DEF L3Adds
<1> QED
  BY <1>4, <1>5, <1>6, <1>7 DEF Equations

\* What is left of a step: types, and the count of the core of the thread that moves.
LEMMA StepDone ==
    ASSUME StatisticsInv, NEW t \in Threads, NEW to \in Places, Moved(pc, pc', t, to),
           Counters', Equations', Exact(t)',
           \A u \in Threads \ {t} : loaded'[u] = loaded[u],
           \A c \in Cores \ {CoreOf(t)} :
               counted'[c] = counted[c] /\ lookups'[<<"L1", c>>] = lookups[<<"L1", c>>]
    PROVE  StatisticsInv'
<1>1. pc' = [pc EXCEPT ![t] = to]
  BY DEF Moved
<1>2. ASSUME NEW u \in Threads \ {t} PROVE Exact(u)'
  <2>1. CoreOf(u) # CoreOf(t) =>
               /\ counted'[CoreOf(u)] = counted[CoreOf(u)]
               /\ lookups'[<<"L1", CoreOf(u)>>] = lookups[<<"L1", CoreOf(u)>>]
    BY OwnCaches
  <2>2. loaded'[u] = loaded[u]
    OBVIOUS
  <2> QED
    BY <1>1, <2>1, <2>2, OthersExact
<1>3. \A u \in Threads : Exact(u)'
  BY <1>2
<1> QED
  BY <1>3 DEF StatisticsInv, Equations

LEMMA LookupKeeps ==
    ASSUME StatisticsInv, NEW t \in Threads, NEW level \in {"L1", "L2", "L3"}, NEW to \in Places,
           to # "L1", to # "storeAccess", LookedUp(t, level, to), Equations',
           misses' = misses \/ OneMore(misses, misses', CacheAt(t, level))
    PROVE  StatisticsInv'
<1> DEFINE d == CacheAt(t, level)
<1>1. Counters /\ Exact(t)
  BY DEF StatisticsInv
<1>2. /\ pc \in [Threads -> Places] /\ loaded \in [Threads -> Nat]
      /\ lookups \in [Caches -> Nat] /\ misses \in [Caches -> Nat]
      /\ memory \in Nat /\ calls \in Nat /\ counted \in [Cores -> [access : Nat, memory : Nat]]
  BY <1>1 DEF Counters
<1>3. /\ pc[t] = level /\ Moved(pc, pc', t, to) /\ OneMore(lookups, lookups', d)
      /\ memory' = memory /\ calls' = calls /\ counted' = counted /\ loaded' = loaded
  BY DEF LookedUp
<1>4. d \in Caches /\ (d = <<"L1", CoreOf(t)>> <=> level = "L1")
      /\ \A c \in Cores \ {CoreOf(t)} : <<"L1", c>> \in Caches \ {d}
  <2>1. CoreOf(t) \in Cores /\ d \in Caches
    BY OwnCaches
  <2>2. d[1] = level
    BY Constants
  <2>3. level = "L1" => d = <<"L1", CoreOf(t)>>
    BY OwnCaches
  <2> HIDE DEF d
  <2>4. d = <<"L1", CoreOf(t)>> => level = "L1"
    BY <2>2
  <2>5. ASSUME NEW c \in Cores \ {CoreOf(t)} PROVE <<"L1", c>> \in Caches \ {d}
    <3>1. <<"L1", c>> \in Caches
      BY DEF Caches, Private
    <3>2. <<"L1", c>> = d => level = "L1"
      BY <2>2
    <3>3. <<"L1", c>> # <<"L1", CoreOf(t)>>
      OBVIOUS
    <3> QED
      BY <2>3, <3>1, <3>2, <3>3
  <2> QED
    BY <2>1, <2>3, <2>4, <2>5
<1>5. misses' = misses \/ OneMore(misses, misses', d)
  OBVIOUS
<1> HIDE DEF d
<1>6. /\ lookups' \in [Caches -> Nat] /\ lookups'[d] = lookups[d] + 1
      /\ \A c \in Caches \ {d} : lookups'[c] = lookups[c]
  BY <1>2, <1>3, <1>4, OneMoreOf
<1>7. misses' \in [Caches -> Nat]
  BY <1>2, <1>4, <1>5, OneMoreOf
<1>8. pc' \in [Threads -> Places] /\ pc'[t] = to
  BY <1>2, <1>3 DEF Moved
<1>9. Counters'
  BY <1>2, <1>3, <1>6, <1>7, <1>8 DEF Counters
<1>10. Exact(t)'
  <2>1. SUFFICES ASSUME Users(<<"L1", CoreOf(t)>>) = {t}
                 PROVE  counted[CoreOf(t)].access = lookups'[<<"L1", CoreOf(t)>>]
    BY <1>3, <1>8 DEF Exact
  <2>2. counted[CoreOf(t)].access =
            IF level = "L1" THEN lookups[<<"L1", CoreOf(t)>>] + 1 ELSE lookups[<<"L1", CoreOf(t)>>]
    BY <1>1, <1>3, <2>1 DEF Exact
  <2>3. CASE level = "L1"
    BY <1>4, <1>6, <2>2, <2>3
  <2>4. CASE level # "L1"
    <3>1. <<"L1", CoreOf(t)>> \in Caches \ {d}
      BY <1>4, <2>4, OwnCaches
    <3> QED
      BY <1>6, <2>2, <2>4, <3>1
  <2> QED
    BY <2>3, <2>4
<1>11. \A u \in Threads \ {t} : loaded'[u] = loaded[u]
  BY <1>3
<1>12. \A c \in Cores \ {CoreOf(t)} :
           counted'[c] = counted[c] /\ lookups'[<<"L1", c>>] = lookups[<<"L1", c>>]
  BY <1>3, <1>4, <1>6
<1> QED
  BY <1>3, <1>9, <1>10, <1>11, <1>12, StepDone

\* A step that touches neither the counters of the caches nor those of the core.
LEMMA PassKeeps ==
    ASSUME StatisticsInv, NEW t \in Threads, NEW to \in Places, Moved(pc, pc', t, to),
           UNCHANGED <<lookups, misses, counted, loaded>>, memory' \in Nat, calls' \in Nat,
           pc[t] # "L1", to # "L1", to # "storeAccess", Equations'
    PROVE  StatisticsInv'
<1>1. Counters /\ Exact(t) /\ pc \in [Threads -> Places]
  BY DEF StatisticsInv, Counters
<1>2. pc' \in [Threads -> Places] /\ pc'[t] = to
  BY <1>1 DEF Moved
<1>3. Counters'
  BY <1>1, <1>2 DEF Counters
<1>4. Exact(t)'
  BY <1>1, <1>2 DEF Exact
<1>5. \A u \in Threads \ {t} : loaded'[u] = loaded[u]
  OBVIOUS
<1>6. \A c \in Cores \ {CoreOf(t)} :
           counted'[c] = counted[c] /\ lookups'[<<"L1", c>>] = lookups[<<"L1", c>>]
  OBVIOUS
<1> QED
  BY <1>3, <1>4, <1>5, <1>6, StepDone

LEMMA LoadKeeps ==
    ASSUME StatisticsInv, NEW t \in Threads, NEW which \in {"access", "memory"},
           NEW from \in Places, NEW to \in Places, LoadCount(t, which, from, to),
           \/ which = "access" /\ from = "loadAccess" /\ to = "storeAccess"
           \/ which = "memory" /\ from = "loadMemory" /\ to = "storeMemory"
    PROVE  StatisticsInv'
<1>1. Counters /\ Exact(t)
  BY DEF StatisticsInv
<1>2. /\ pc \in [Threads -> Places] /\ loaded \in [Threads -> Nat]
      /\ counted \in [Cores -> [access : Nat, memory : Nat]] /\ CoreOf(t) \in Cores
  BY <1>1, OwnCaches DEF Counters
<1>3. /\ pc[t] = from /\ pc' = [pc EXCEPT ![t] = to]
      /\ loaded' = [loaded EXCEPT ![t] = counted[CoreOf(t)][which]]
      /\ lookups' = lookups /\ misses' = misses /\ memory' = memory
      /\ counted' = counted /\ calls' = calls
  BY DEF LoadCount, Goto, KeepCaches
<1>4. counted[CoreOf(t)][which] \in Nat
  <2>1. counted[CoreOf(t)] \in [access : Nat, memory : Nat]
    BY <1>2
  <2>2. counted[CoreOf(t)].access \in Nat /\ counted[CoreOf(t)].memory \in Nat
    BY <2>1
  <2> QED
    BY <2>2
<1>5. /\ pc' \in [Threads -> Places] /\ pc'[t] = to
      /\ loaded' \in [Threads -> Nat] /\ loaded'[t] = counted[CoreOf(t)][which]
      /\ \A u \in Threads \ {t} : loaded'[u] = loaded[u]
  BY <1>2, <1>3, <1>4
<1>6. Counters'
  BY <1>1, <1>3, <1>5 DEF Counters
<1>7. Exact(t)'
  BY <1>1, <1>3, <1>5 DEF Exact
<1>8. Equations'
  <2>1. pc[t] \in Entering <=> to \in Entering
    BY <1>3 DEF Entering
  <2> QED
    BY <1>3, <2>1, PlainMove
<1>9. \A c \in Cores \ {CoreOf(t)} :
           counted'[c] = counted[c] /\ lookups'[<<"L1", c>>] = lookups[<<"L1", c>>]
  BY <1>3
<1>10. Moved(pc, pc', t, to)
  BY <1>3 DEF Moved
<1> QED
  BY <1>5, <1>6, <1>7, <1>8, <1>9, <1>10, StepDone

LEMMA StoreKeeps ==
    ASSUME StatisticsInv, NEW t \in Threads, NEW which \in {"access", "memory"},
           NEW from \in Places, NEW to \in Places, StoreCount(t, which, from, to),
           \/ which = "access" /\ from = "storeAccess" /\ to = "L1"
           \/ which = "memory" /\ from = "storeMemory" /\ to = "fillL3"
    PROVE  StatisticsInv'
<1>1. Counters /\ Exact(t)
  BY DEF StatisticsInv
<1>2. /\ pc \in [Threads -> Places] /\ loaded \in [Threads -> Nat]
      /\ counted \in [Cores -> [access : Nat, memory : Nat]] /\ CoreOf(t) \in Cores
  BY <1>1, OwnCaches DEF Counters
<1>3. /\ pc[t] = from /\ pc' = [pc EXCEPT ![t] = to]
      /\ loaded' = [loaded EXCEPT ![t] = 0]
      /\ counted' = [counted EXCEPT ![CoreOf(t)][which] = loaded[t] + 1]
      /\ lookups' = lookups /\ misses' = misses /\ memory' = memory /\ calls' = calls
  BY DEF StoreCount, Goto, KeepCaches
<1>4. loaded[t] + 1 \in Nat
  BY <1>2
<1>5. /\ pc' \in [Threads -> Places] /\ pc'[t] = to
      /\ loaded' \in [Threads -> Nat] /\ \A u \in Threads \ {t} : loaded'[u] = loaded[u]
  BY <1>2, <1>3
<1>6. /\ counted' \in [Cores -> [access : Nat, memory : Nat]]
      /\ counted'[CoreOf(t)][which] = loaded[t] + 1
      /\ which # "access" => counted'[CoreOf(t)].access = counted[CoreOf(t)].access
      /\ \A c \in Cores \ {CoreOf(t)} : counted'[c] = counted[c]
  <2>1. counted' = [counted EXCEPT ![CoreOf(t)] = [counted[CoreOf(t)] EXCEPT ![which] = loaded[t] + 1]]
    BY <1>3
  <2>2. counted[CoreOf(t)] \in [access : Nat, memory : Nat]
    BY <1>2
  <2>3. CASE which = "access"
    <3>1. [counted[CoreOf(t)] EXCEPT ![which] = loaded[t] + 1] \in [access : Nat, memory : Nat]
      BY <1>4, <2>2, <2>3
    <3> QED
      BY <1>2, <2>1, <2>2, <2>3, <3>1
  <2>4. CASE which = "memory"
    <3>1. [counted[CoreOf(t)] EXCEPT ![which] = loaded[t] + 1] \in [access : Nat, memory : Nat]
      BY <1>4, <2>2, <2>4
    <3> QED
      BY <1>2, <2>1, <2>2, <2>4, <3>1
  <2> QED
    BY <2>3, <2>4
<1>7. Counters'
  BY <1>1, <1>3, <1>5, <1>6 DEF Counters
<1>8. Exact(t)'
  BY <1>1, <1>3, <1>5, <1>6 DEF Exact
<1>9. Equations'
  <2>1. pc[t] \in Entering <=> to \in Entering
    BY <1>3 DEF Entering
  <2> QED
    BY <1>3, <2>1, PlainMove
<1>10. \A c \in Cores \ {CoreOf(t)} :
           counted'[c] = counted[c] /\ lookups'[<<"L1", c>>] = lookups[<<"L1", c>>]
  BY <1>3, <1>6
<1>11. Moved(pc, pc', t, to)
  BY <1>3 DEF Moved
<1> QED
  BY <1>5, <1>7, <1>8, <1>9, <1>10, <1>11, StepDone

LEMMA FillKeeps ==
    ASSUME StatisticsInv, NEW t \in Threads, NEW level, NEW from, NEW to,
           Fill(t, level, from, to),
           from \in {"fillL3", "fillL2", "fillL1"}, to \in {"fillL2", "fillL1", "idle"}
    PROVE  StatisticsInv'
<1>1. /\ pc[t] = from /\ pc' = [pc EXCEPT ![t] = to]
      /\ UNCHANGED <<lookups, misses, counted, loaded, memory, calls>>
  BY DEF Fill, Goto
<1>2. to \in Places /\ memory \in Nat /\ calls \in Nat
  BY DEF Places, StatisticsInv, Counters
<1>3. pc[t] \in Entering <=> to \in Entering
  BY <1>1 DEF Entering
<1>4. Equations'
  BY <1>1, <1>2, <1>3, PlainMove
<1>5. Moved(pc, pc', t, to) /\ pc[t] # "L1" /\ to # "L1" /\ to # "storeAccess"
  BY <1>1 DEF Moved
<1> QED
  BY <1>1, <1>2, <1>4, <1>5, PassKeeps

-------------------------------------------------------------------------------
LEMMA LevelCaches == \A c \in Cores : <<"L1", c>> \in Caches /\ <<"L2", c>> \in Caches
BY DEF Caches, Private

LEMMA StatisticsInit == Init => StatisticsInv
<1> SUFFICES ASSUME Init PROVE StatisticsInv
  OBVIOUS
<1>1. /\ pc = [t \in Threads |-> "idle"] /\ loaded = [t \in Threads |-> 0]
      /\ lookups = [c \in Caches |-> 0] /\ misses = [c \in Caches |-> 0]
      /\ memory = 0 /\ calls = 0 /\ counted = [c \in Cores |-> [access |-> 0, memory |-> 0]]
  BY DEF Init
<1>2. Counters
  BY <1>1 DEF Counters, Places
<1>3. \A S, U : "idle" \notin S /\ U \subseteq Threads => Cardinality(Here(pc, S, U)) = 0
  <2> SUFFICES ASSUME NEW S, NEW U \in SUBSET Threads, "idle" \notin S
               PROVE  Cardinality(Here(pc, S, U)) = 0
    OBVIOUS
  <2>1. Here(pc, S, U) = {}
    BY <1>1 DEF Here
  <2> QED
    BY <2>1, FS_EmptySet
<1>4. ASSUME NEW counter, counter = [c \in Caches |-> 0], NEW level \in {"L1", "L2"}
      PROVE  SumFunctionOnSet(OfLevel(counter, level), Cores) = 0
  <2>1. IsFiniteSet(Cores)
    BY MultiCoreAssumption, FS_Interval DEF Cores
  <2>2. \A c \in Cores : OfLevel(counter, level)[c] = 0
    BY <1>4, LevelCaches DEF OfLevel
  <2> QED
    BY <2>1, <2>2, SumOfZeros
<1>5. CallsAdd
  <2>1. Cardinality(Here(pc, Entering, Threads)) = 0
    BY <1>3 DEF Entering
  <2>2. SumFunctionOnSet(OfLevel(lookups, "L1"), Cores) = 0
    BY <1>1, <1>4
  <2> QED
    BY <1>1, <2>1, <2>2 DEF CallsAdd
<1>6. ASSUME NEW c \in Cores PROVE L1Adds(c)
  <2>1. Cardinality(Here(pc, {"L2"}, Level2(c))) = 0
    BY <1>3, Level2Users
  <2>2. misses[<<"L1", c>>] = 0 /\ lookups[<<"L2", c>>] = 0
    BY <1>1, LevelCaches
  <2> QED
    BY <2>1, <2>2 DEF L1Adds, Level2
<1>7. misses[Shared] = 0 /\ lookups[Shared] = 0
  BY <1>1 DEF Caches
<1>8. L2Adds
  <2>1. Cardinality(Here(pc, {"L3"}, Threads)) = 0
    BY <1>3
  <2>2. SumFunctionOnSet(OfLevel(misses, "L2"), Cores) = 0
    BY <1>1, <1>4
  <2> QED
    BY <1>7, <2>1, <2>2 DEF L2Adds
<1>9. L3Adds
  <2>1. Cardinality(Here(pc, {"memory"}, Threads)) = 0
    BY <1>3
  <2> QED
    BY <1>1, <1>7, <2>1 DEF L3Adds
<1>10. ASSUME NEW t \in Threads PROVE Exact(t)
  <2>1. CoreOf(t) \in Cores /\ <<"L1", CoreOf(t)>> \in Caches
    BY OwnCaches
  <2>2. /\ counted[CoreOf(t)].access = 0 /\ lookups[<<"L1", CoreOf(t)>>] = 0 /\ pc[t] = "idle"
    BY <1>1, <2>1
  <2> QED
    BY <2>2 DEF Exact
<1> QED
  BY <1>2, <1>5, <1>6, <1>8, <1>9, <1>10 DEF StatisticsInv

LEMMA StatisticsStep == StatisticsInv /\ [Next]_vars => StatisticsInv'
<1> SUFFICES ASSUME StatisticsInv, [Next]_vars PROVE StatisticsInv'
  OBVIOUS
<1>1. CASE UNCHANGED vars
  BY <1>1 DEF vars, StatisticsInv, Counters, CallsAdd, L1Adds, L2Adds, L3Adds, Exact
<1>2. CASE Next
  <2>1. PICK t \in Threads : Step(t)
    BY <1>2 DEF Next
  <2>2. memory \in Nat /\ calls \in Nat
    BY DEF StatisticsInv, Counters
  <2>3. CASE Start(t)
    <3>1. /\ pc[t] = "idle" /\ Moved(pc, pc', t, "loadAccess")
          /\ UNCHANGED <<lookups, misses, counted, loaded>>
          /\ memory' = memory /\ calls' = calls + 1
      BY <2>3 DEF Start, Goto, KeepCaches, Moved
    <3>2. "loadAccess" \in Places /\ memory' \in Nat /\ calls' \in Nat
      BY <2>2, <3>1 DEF Places
    <3> QED
      BY <2>3, <3>1, <3>2, StartAdds, PassKeeps
  <2>4. CASE FetchMemory(t)
    <3>1. /\ pc[t] = "memory" /\ Moved(pc, pc', t, "loadMemory")
          /\ UNCHANGED <<lookups, misses, counted, loaded>>
          /\ memory' = memory + 1 /\ calls' = calls
      BY <2>4 DEF FetchMemory, Goto, KeepCaches, Moved
    <3>2. "loadMemory" \in Places /\ memory' \in Nat /\ calls' \in Nat
      BY <2>2, <3>1 DEF Places
    <3> QED
      BY <2>4, <3>1, <3>2, FetchAdds, PassKeeps
  <2>5. CASE LoadCount(t, "access", "loadAccess", "storeAccess")
    BY <2>5, LoadKeeps DEF Places
  <2>6. CASE LoadCount(t, "memory", "loadMemory", "storeMemory")
    BY <2>6, LoadKeeps DEF Places
  <2>7. CASE StoreCount(t, "access", "storeAccess", "L1")
    BY <2>7, StoreKeeps DEF Places
  <2>8. CASE StoreCount(t, "memory", "storeMemory", "fillL3")
    BY <2>8, StoreKeeps DEF Places
  <2>9. CASE Lookup(t, "L1", "idle", "L2")
    <3>1. \/ LookedUp(t, "L1", "idle") /\ misses' = misses
          \/ LookedUp(t, "L1", "L2") /\ OneMore(misses, misses', CacheAt(t, "L1"))
      BY <2>9, LookupEither
    <3> QED
      BY <3>1, L1Looked, LookupKeeps DEF Places
  <2>10. CASE Lookup(t, "L2", "fillL1", "L3")
    <3>1. \/ LookedUp(t, "L2", "fillL1") /\ misses' = misses
          \/ LookedUp(t, "L2", "L3") /\ OneMore(misses, misses', CacheAt(t, "L2"))
      BY <2>10, LookupEither
    <3> QED
      BY <3>1, L2Looked, LookupKeeps DEF Places
  <2>11. CASE Lookup(t, "L3", "fillL2", "memory")
    <3>1. \/ LookedUp(t, "L3", "fillL2") /\ misses' = misses
          \/ LookedUp(t, "L3", "memory") /\ OneMore(misses, misses', CacheAt(t, "L3"))
      BY <2>11, LookupEither
    <3> QED
      BY <3>1, L3Looked, LookupKeeps DEF Places
  <2>12. CASE Fill(t, "L3", "fillL3", "fillL2")
    BY <2>12, FillKeeps
  <2>13. CASE Fill(t, "L2", "fillL2", "fillL1")
    BY <2>13, FillKeeps
  <2>14. CASE Fill(t, "L1", "fillL1", "idle")
    BY <2>14, FillKeeps
  <2> QED
    BY <2>1, <2>3, <2>4, <2>5, <2>6, <2>7, <2>8, <2>9, <2>10, <2>11, <2>12, <2>13, <2>14
       DEF Step
<1> QED
  BY <1>1, <1>2

\* The types of the counters, the equations and the counts of the cores, in every
\* reachable state.
THEOREM StatisticsInvariance == Spec => []StatisticsInv
<1>1. StatisticsInv /\ [Next]_vars => StatisticsInv'
  BY StatisticsStep
<1> QED
  BY StatisticsInit, <1>1, PTL DEF Spec

\* The statistics of the levels add up at any moment, however many threads are inside
\* accessCore, and the count of a core that one thread has to itself is exact: no lost
\* increment, although ++ is a load and a store.
THEOREM StatisticsHold == Spec => []StatisticsAddUp
<1>1. ASSUME StatisticsInv PROVE StatisticsAddUp
  <2>1. CallsAdd /\ (\A c \in Cores : L1Adds(c)) /\ L2Adds /\ L3Adds
    BY <1>1 DEF StatisticsInv
  <2>2. At(Entering) = Here(pc, Entering, Threads) /\ At({"L3"}) = Here(pc, {"L3"}, Threads)
        /\ At({"memory"}) = Here(pc, {"memory"}, Threads)
    BY DEF At, Here
  <2>3. \A c \in Cores : At({"L2"}) \cap Users(<<"L2", c>>) = Here(pc, {"L2"}, Users(<<"L2", c>>))
    BY DEF At, Here, Users
  <2>4. /\ OverCores(lookups, "L1") = SumFunctionOnSet(OfLevel(lookups, "L1"), Cores)
        /\ OverCores(misses, "L2") = SumFunctionOnSet(OfLevel(misses, "L2"), Cores)
    BY DEF OverCores, OfLevel
  <2>5. calls = OverCores(lookups, "L1") + Cardinality(At(Entering))
    BY <2>1, <2>2, <2>4 DEF CallsAdd
  <2>6. \A c \in Cores : misses[<<"L1", c>>] =
            lookups[<<"L2", c>>] + Cardinality(At({"L2"}) \cap Users(<<"L2", c>>))
    BY <2>1, <2>3 DEF L1Adds
  <2>7. OverCores(misses, "L2") = lookups[Shared] + Cardinality(At({"L3"}))
    BY <2>1, <2>2, <2>4 DEF L2Adds
  <2>8. misses[Shared] = memory + Cardinality(At({"memory"}))
    BY <2>1, <2>2 DEF L3Adds
  <2>9. ASSUME NEW t \in At({"idle"}), Users(<<"L1", CoreOf(t)>>) = {t}
        PROVE  counted[CoreOf(t)].access = lookups[<<"L1", CoreOf(t)>>]
    <3>1. t \in Threads /\ pc[t] = "idle"
      BY DEF At
    <3>2. Exact(t)
      BY <1>1, <3>1 DEF StatisticsInv
    <3> QED
      BY <2>9, <3>1, <3>2 DEF Exact
  <2> QED
    BY <2>5, <2>6, <2>7, <2>8, <2>9 DEF StatisticsAddUp, Entering
<1> QED
  BY <1>1, StatisticsInvariance, PTL
===============================================================================
