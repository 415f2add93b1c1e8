--------------------------- MODULE CacheHierarchy ---------------------------
(***************************************************************************)
(* The three levels of cache_sim with their prefetchers and ECG's          *)
(* placement: class CacheHierarchy of                                      *)
(* src/bench/include/cache_sim/cache_sim.h, called by a kernel on its one  *)
(* thread, and OnlinePlacementSelector of ecg_victim_policy.h.             *)
(*                                                                         *)
(* A call of the kernel is a step; the operators below pass the state of   *)
(* the hierarchy, a record, through the code of the call.  L1 and L2 are   *)
(* LRU, as the experiments set them.  Of the statistics the prefetch       *)
(* counts are kept.  The oracle prefetch model is left out.                *)
(***************************************************************************)
EXTENDS CacheLevel, Sequences

CONSTANTS
    Lines, RecordLines,     \* the lines; those of the packed edge records
    Undelivered,            \* the hint of a thread no epoch was delivered to: epoch 0, valid
    ColumnLines,            \* of each epoch, the lines of its matrix column
    Workloads,              \* the settings of a run and what its kernel asks for
    Sets, Ways,             \* of each level
    RegionLines, TableEntries, Confirmations, MaxInFlight,  \* the stream detector
    EpochSize,              \* popt_stream_epoch_size_
    LeaderSlots, AllocateSlot, FlowThroughSlot, WindowMisses,   \* of the placement
    MaxCalls                \* bounds the calls of a behaviour

Levels == {"L1", "L2", "L3"}
Epochs == DOMAIN ColumnLines

\* What a run may be asked for.
ASSUME HierarchyAssumption ==
    /\ NoLine \notin Int /\ Undelivered \notin Int /\ Undelivered # NoLine
    /\ Lines \subseteq Int
    /\ RecordLines \subseteq Lines
    /\ PropertyLines \subseteq Lines \ RecordLines
    /\ Sets \in [Levels -> Nat \ {0}]
    /\ Ways \in [Levels -> Nat \ {0}]
    /\ RegionLines \in Nat \ {0}
    /\ \A e \in Epochs : ColumnLines[e] \in Seq(RecordLines)
    /\ Workloads \subseteq
          [policy : Policies, degree : Nat, adaptive : BOOLEAN, refresh : {"off", "broadcast", "llc"},
           maskArray : BOOLEAN, edgeMasks : BOOLEAN,
           demands : SUBSET ((Lines \ RecordLines) \X BOOLEAN), edges : SUBSET PropertyLines,
           unresolved : SUBSET (PropertyLines \X BOOLEAN), lookaheads : SUBSET PropertyLines,
           records : SUBSET RecordLines, prefetches : SUBSET (Lines \ RecordLines),
           vertices : SUBSET Nat]
    /\ \A r \in Workloads : r.edges # {} => r.edgeMasks
    /\ \A r \in {q \in Workloads : q.policy = "POPT"} :
          \A v \in r.vertices \cup {0} : \A l \in PropertyLines : NextRef[v][l] \in Nat

\* The packed records are mapped on pages of their own.
ASSUME RegionsApart ==
    \A l \in RecordLines : \A m \in Lines \ RecordLines :
        l \div RegionLines # m \div RegionLines

VARIABLES
    run,    \* which of the Workloads
    hint,   \* hints_for_thread: the line whose epoch is delivered, Undelivered, or NoLine
    gathering,  \* of the kernel: between an edge and the next clearEdgeEpoch
    vertex, \* the vertex last set, for the P-OPT distances
    h,      \* the hierarchy
    calls   \* auxiliary: the calls so far

vars == <<run, hint, gathering, vertex, h, calls>>

Init ==
    /\ run \in Workloads
    /\ hint = Undelivered /\ gathering = FALSE /\ vertex = 0 /\ calls = 0
    /\ h = [cache |-> [v \in Levels |-> [s \in 0 .. Sets[v] - 1 |-> EmptySet(Ways[v])]],
            prefetched |-> {}, fills |-> 0, useful |-> 0, unused |-> 0,
            streams |-> [i \in 0 .. TableEntries - 1 |-> [region |-> -1, last |-> 0, seen |-> 0]],
            misses |-> [alloc |-> 0, flow |-> 0], sampled |-> 0, winner |-> "alloc",
            columns |-> <<-1, -1>>, slot |-> 1,
            owed |-> {},    \* auxiliary: written since last counted as written back
            lent |-> {}]    \* auxiliary: last stamped in the LLC under the hint of another line

\* What the code of one call reads besides the hierarchy; lent, which it does not
\* read, tells that the hint in force is the one delivered for another line.
Call(delivered, lent, pick) ==
    [hint |-> delivered, vertex |-> vertex, pick |-> pick, run |-> run, lent |-> lent]
ForOthers(delivered) == delivered \notin {NoLine, Undelivered}
Foreign(l) == hint # l /\ ForOthers(hint)
PolicyOf(x, level) == IF level = "L3" THEN x.run.policy ELSE "LRU"

SetOf(s, level, l) == s.cache[level][l % Sets[level]]
Has(s, level, l) == Holds(SetOf(s, level, l), l)

Lending(x, level, l, lent) == IF level = "L3" /\ x.lent THEN lent \cup {l} ELSE lent

Touched(x, s, level, l, write) ==
    [s EXCEPT !.cache[level][l % Sets[level]] =
                  AfterHit(PolicyOf(x, level), SetOf(s, level, l), l, write, x.hint),
              !.lent = Lending(x, level, l, @)]

\* CacheLevel::insert; the writebacks that count as memory traffic are L3's.
Put(x, s, level, l, write) ==
    LET i == Inserted(PolicyOf(x, level), SetOf(s, level, l), l, write, x.hint,
                      x.run.maskArray, x.vertex, x.pick)
    IN  [s EXCEPT !.cache[level][l % Sets[level]] = i.set,
                  !.owed = IF level = "L3" /\ i.evicted.dirty THEN @ \ {i.evicted.line} ELSE @,
                  !.lent = Lending(x, level, l, IF level = "L3" THEN @ \ {l} ELSE @)]

Refresh(x, s, l) ==
    IF x.run.policy = "ECG"
    THEN [s EXCEPT !.cache["L3"][l % Sets["L3"]] = Refreshed(SetOf(s, "L3", l), l, x.hint),
                   !.lent = Lending(x, "L3", l, @)]
    ELSE s

\* markPrefetchUseful and markPrefetchEvictedBeforeUse.
Settled(s, l, was, useful) ==
    IF was /\ l \in s.prefetched
    THEN [s EXCEPT !.prefetched = @ \ {l},
                   !.useful = @ + (IF useful THEN 1 ELSE 0),
                   !.unused = @ + (IF useful THEN 0 ELSE 1)]
    ELSE s

\* placementLeaderArm.
Leader(set) ==
    CASE set % LeaderSlots = AllocateSlot -> "alloc"
      [] set % LeaderSlots = FlowThroughSlot -> "flow"
      [] OTHER -> "none"

ShouldFlowThrough(s, set) ==
    (IF Leader(set) = "none" THEN s.winner ELSE Leader(set)) = "flow"

\* OnlinePlacementSelector::recordMiss.
PlacementMiss(s, set) ==
    IF Leader(set) = "none" THEN s
    ELSE LET counted == [s EXCEPT !.misses[Leader(set)] = @ + 1,
                                  !.sampled = (@ + 1) % WindowMisses]
         IN  IF counted.sampled # 0 THEN counted
             ELSE [counted EXCEPT
                     !.misses = [alloc |-> 0, flow |-> 0],
                     !.winner = IF counted.misses.flow < counted.misses.alloc
                                THEN "flow" ELSE "alloc"]

FilledPrivate(x, s, l, write) == Put(x, Put(x, s, "L2", l, write), "L1", l, write)

\* The fills of a miss of all three levels, once the placement has heard of it.
FilledPast(x, s, l, write, record) ==
    LET flowThrough == record /\ (x.run.adaptive => ShouldFlowThrough(s, l % Sets["L3"]))
    IN  FilledPrivate(x, IF flowThrough THEN s ELSE Put(x, s, "L3", l, write), l, write)

FilledAll(x, s, l, write, record) ==
    FilledPast(x, IF x.run.adaptive THEN PlacementMiss(s, l % Sets["L3"]) ELSE s, l, write, record)

MissesPrivate(s, l) == ~Has(s, "L1", l) /\ ~Has(s, "L2", l)
\* No level holds the line: the probes of a prefetch, and the lookups of a demand.
MissesAll(s, l) == \A v \in Levels : ~Has(s, v, l)

\* A prefetch that some level already holds is promoted; no state of that level moves.
Promoted(x, s, l) ==
    IF Has(s, "L1", l) THEN s
    ELSE Put(x, IF Has(s, "L2", l) THEN s ELSE Put(x, s, "L2", l, FALSE), "L1", l, FALSE)

Prefetched_Allocates(x, s, l, record) ==
    IF ~MissesAll(s, l) THEN Promoted(x, s, l)
    ELSE FilledAll([x EXCEPT !.run.adaptive = FALSE],
                   [s EXCEPT !.fills = @ + 1, !.prefetched = @ \cup {l}], l, FALSE, FALSE)
\* prefetch and, for a record, prefetchStream: only the latter asks the placement.
Prefetched(x, s, l, record) ==
    IF ~MissesAll(s, l) THEN Promoted(x, s, l)
    ELSE FilledAll(IF record THEN x ELSE [x EXCEPT !.run.adaptive = FALSE],
                   [s EXCEPT !.fills = @ + 1, !.prefetched = @ \cup {l}], l, FALSE, record)

\* A line further of a stream: at the end of the region, or with too many lines in
\* flight, the stream goes no further.
OneAhead(x, a, l, k, record) ==
    IF ~a.going \/ Cardinality(a.s.prefetched) >= MaxInFlight
       \/ (l + k) \div RegionLines # l \div RegionLines
    THEN [a EXCEPT !.going = FALSE]
    ELSE [a EXCEPT !.s = Prefetched(x, a.s, l + k, record)]

RunAhead(x, s, l, record) ==
    LET upTo[k \in 0 .. x.run.degree] ==
            IF k = 0 THEN [s |-> s, going |-> TRUE] ELSE OneAhead(x, upTo[k - 1], l, k, record)
    IN  upTo[x.run.degree].s

\* issueStridePrefetch: a stream is confirmed, then runs ahead by the degree, under
\* the hint of the line that confirmed it.
Streamed(x, s, l, record) ==
    LET region == l \div RegionLines
        entry == s.streams[region % TableEntries]
        seen == IF l = entry.last + 1 THEN Smaller(entry.seen + 1, Confirmations) ELSE 0
        trained(n) == [s EXCEPT !.streams[region % TableEntries] =
                          [region |-> region, last |-> l, seen |-> n]]
    IN  IF x.run.degree = 0 \/ (entry.region = region /\ l = entry.last) THEN s
        ELSE IF entry.region # region THEN trained(0)
        ELSE IF seen < Confirmations THEN trained(seen)
        ELSE RunAhead([x EXCEPT !.lent = ForOthers(x.hint)], trained(seen), l, record)

\* The level whose lookup finds the line, nearest first.
Serving(s, l) ==
    CHOOSE v \in Levels \cup {"memory"} :
        \/ v = "L1" /\ Has(s, v, l)
        \/ v = "L2" /\ Has(s, v, l) /\ ~Has(s, "L1", l)
        \/ v = "L3" /\ Has(s, v, l) /\ MissesPrivate(s, l)
        \/ v = "memory" /\ MissesAll(s, l)

\* The line reaches L1, through the levels that missed it.
Raised(x, s, l, write, served) ==
    CASE served = "L1" -> s
      [] served = "L2" -> Put(x, s, "L1", l, write)
      [] served = "L3" -> FilledPrivate(x, s, l, write)

\* The lookups of a demand, and the fills on the way back.
LookedUp(x, s, l, write, record, served) ==
    IF served = "memory" THEN FilledAll(x, s, l, write, record)
    ELSE LET hit == Touched(x, s, served, l, write)
         IN  Raised(x, IF served = "L3" /\ x.run.refresh = "llc" /\ ~record
                       THEN Refresh(x, hit, l) ELSE hit, l, write, served)

\* The demand once the stream detector has run ahead of it.
Answered(x, s, l, write, record, was) ==
    LookedUp(x, Settled(IF write THEN [s EXCEPT !.owed = @ \cup {l}] ELSE s,
                        l, was, Serving(s, l) # "memory"),
             l, write, record, Serving(s, l))

\* access and, for a record, accessNonTemporal.
Demanded(x, s, l, write, record) ==
    Answered(x,
             Streamed(x, IF x.run.refresh = "broadcast" /\ ~record THEN Refresh(x, s, l) ELSE s,
                      l, record),
             l, write, record, l \in s.prefetched)

\* A line the kernel reads or writes in order.  Property lines it accesses so once it
\* has called clearEdgeEpoch, except the one at the end of the edge it is at.
Access(l, write, pick) ==
    /\ l \in PropertyLines /\ gathering => hint = l
    /\ h' = Demanded(Call(hint, FALSE, pick), h, l, write, FALSE)
    /\ UNCHANGED <<hint, gathering, vertex>>

ClearEdgeEpoch_KeepsValid ==
    /\ gathering' = FALSE
    /\ UNCHANGED <<hint, vertex, h>>
\* clearEdgeEpoch, which does nothing in a run without edge masks.
ClearEdgeEpoch ==
    /\ hint' = IF run.edgeMasks THEN NoLine ELSE hint
    /\ gathering' = FALSE
    /\ UNCHANGED <<vertex, h>>

\* The property line at the end of an edge whose mask has delivered its epoch.
Edge(l, pick) ==
    /\ hint' = l /\ gathering' = TRUE
    /\ h' = Demanded(Call(l, FALSE, pick), h, l, FALSE, FALSE)
    /\ UNCHANGED vertex

\* The line at the end of an edge that has no mask of its own: resolveEdgeMaskAndEpoch
\* returns early and the hint of an earlier edge stays in force.
UnresolvedEdge(l, write, pick) ==
    /\ h' = Demanded(Call(hint, Foreign(l), pick), h, l, write, FALSE)
    /\ UNCHANGED <<hint, gathering, vertex>>

\* accessStream of the record of an edge.
AccessStream(l, pick) ==
    /\ h' = Demanded(Call(hint, FALSE, pick), h, l, FALSE, TRUE)
    /\ UNCHANGED <<hint, gathering, vertex>>

\* The prefetch of the target of a mask or of a frontier vertex, under the hint that is
\* in force: that of an earlier edge, as the edge's own is delivered afterwards.
Prefetch(l, pick) ==
    /\ h' = Prefetched(Call(hint, Foreign(l), pick), h, l, FALSE)
    /\ UNCHANGED <<hint, gathering, vertex>>

\* The prefetch of a later record's line under the hint of that record, after which
\* the hint of the current edge is put back.
Lookahead(l, pick) ==
    /\ h' = Prefetched(Call(l, FALSE, pick), h, l, FALSE)
    /\ UNCHANGED <<hint, gathering, vertex>>

\* The lines of a column, one record after the other.
ColumnRead(x, s, lines) ==
    LET upTo[k \in 0 .. Len(lines)] ==
            IF k = 0 THEN s ELSE Demanded(x, upTo[k - 1], lines[k], FALSE, TRUE)
    IN  upTo[Len(lines)]

\* setCurrentVertex with streamPoptMatrixIfEpochAdvanced.
SetCurrentVertex(v, pick) ==
    LET epoch == v \div EpochSize
        resident == epoch \in {h.columns[1], h.columns[2]}
        entered == [h EXCEPT !.columns[h.slot] = epoch, !.slot = 3 - @]
    IN  /\ vertex' = v
        /\ h' = IF epoch \notin Epochs \/ resident THEN h
                ELSE ColumnRead(Call(hint, FALSE, pick), entered, ColumnLines[epoch])
        /\ UNCHANGED <<hint, gathering>>

ResetStats_KeepsPending ==
    /\ h' = [h EXCEPT !.fills = 0, !.useful = 0, !.unused = 0]
    /\ UNCHANGED <<hint, gathering, vertex>>
\* resetStats.
ResetStats ==
    /\ h' = [h EXCEPT !.fills = 0, !.useful = 0, !.unused = 0, !.prefetched = {}]
    /\ UNCHANGED <<hint, gathering, vertex>>

\* What the kernel of the run asks for.
KernelCall(pick) ==
    \/ \E d \in run.demands : Access(d[1], d[2], pick)
    \/ \E d \in run.unresolved : UnresolvedEdge(d[1], d[2], pick)
    \/ \E l \in run.edges : Edge(l, pick)
    \/ \E l \in run.records : AccessStream(l, pick)
    \/ \E l \in run.prefetches : Prefetch(l, pick)
    \/ \E l \in run.lookaheads : Lookahead(l, pick)
    \/ \E v \in run.vertices : SetCurrentVertex(v, pick)

Next ==
    /\ UNCHANGED run
    /\ \/ /\ calls < MaxCalls /\ calls' = calls + 1
          /\ \/ \E pick \in IF run.policy = "ECG" THEN 1 .. Ways["L3"] ELSE {1} : KernelCall(pick)
             \/ ResetStats
       \/ ClearEdgeEpoch /\ UNCHANGED calls

Spec == Init /\ [][Next]_vars
-----------------------------------------------------------------------------
Copies(level, l) == WaysOf(SetOf(h, level, l), l)

\* No level holds a line twice: prefetches, fills and promotions insert only what
\* the level has just been seen to lack, whatever the call did in between.
OneCopy == \A l \in Lines : \A v \in Levels : Cardinality(Copies(v, l)) <= 1

\* Every prefetch that is pending, was useful or was lost is one that was filled
\* since the statistics were last reset, and is only one of the three.
PrefetchesSettledOnce ==
    h.useful + h.unused + Cardinality(h.prefetched) <= h.fills

\* ECG FlowThrough and the P-OPT column stream: in a run that does not adapt the
\* placement no record or column is ever in the LLC, whoever brought it in; in one
\* that does, none is in a flow-through leader set (the others may allocate it).
RecordsBypassLlc ==
    \A l \in RecordLines :
        (run.adaptive => Leader(l % Sets["L3"]) = "flow") => ~Has(h, "L3", l)

\* With the mask array enabled, a stamped line of the LLC carries the epoch delivered
\* for it or epoch 0, the default of a thread nothing was delivered to: never that of
\* the edge that happened to be current, however demands, refreshes, look-ahead and
\* evictions follow one another.  This is not so of the lines the code itself brings
\* in under the hint of another one: what the stream detector, the target of a mask or
\* a frontier vertex makes it prefetch, and the end of an edge without a mask.
StampIsOwn ==
    \A s \in DOMAIN h.cache["L3"] : \A w \in 1 .. Ways["L3"] :
        LET way == h.cache["L3"][s].ways[w]
        IN  run.maskArray /\ way.line \notin h.lent
            => way.stamp \in {NoLine, Undelivered, way.line}

\* A dirty line of the LLC was written since its last counted writeback: no write
\* reaches the memory traffic twice.  It says nothing of writes that never reach it.
DirtyIsOwed ==
    \A s \in DOMAIN h.cache["L3"] : \A w \in 1 .. Ways["L3"] :
        h.cache["L3"][s].ways[w].dirty => h.cache["L3"][s].ways[w].line \in h.owed

\* What getTotalOffChipTraffic is documented to be: a written line that no level
\* holds dirty any more has been counted as written back to memory.
WritesReachMemory ==
    \A l \in h.owed : \E v \in Levels : \E w \in Copies(v, l) : SetOf(h, v, l).ways[w].dirty
=============================================================================
