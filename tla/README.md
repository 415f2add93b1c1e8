# ECG / ReusePlan: specifications, model checking and proofs

This directory holds TLA+ specifications of the parts of the repository that decide
which cache line is evicted and what a line is believed to be worth: the victim policy
that cache_sim, gem5 and Sniper share, the hardware modules that are to do the same,
the online selection of the policy, the binding of ReusePlan records to misses, the
records themselves and the file they are kept in, Hawkeye, and the levels and
hierarchies of cache_sim with their prefetchers. Every module is translated from the source; `PROJECT.json`
names the lines each definition stands for, the runs, the mutants that show each
property has teeth, the hazards and the theorems.

    tlc -workers 2 -config MCVictimPolicy.cfg MCVictimPolicy     # a run
    tlapm Replacement_proof.tla                                  # a proof

## 1. Inventory

Paths are relative to the repository. *State* is what a component keeps, *operations*
what changes it.

| Component | State | Operations | What makes it correct |
|---|---|---|---|
| Victim policy, `bench/include/ecg_victim_policy.h` | the ways' RRPVs during a call | `selectVictim` (7 variants), `epochDistance`, `reusePlanDistance`, `reuseAdmissionRRPV` | returns; the same victim and RRPVs as the hardware; distances that rank lines by their next use |
| Online dueling, same header | `misses_`, `sampled_misses_`, `winner_` (atomics shared by all cores) | `recordMiss`, `variantForSet` | no miss lost, every window reported once, reported transitions chain, one core = the hardware |
| Placement dueling, same header | two counters, sample count, winner | `recordMiss`, `shouldFlowThrough` | as above, with a plain store; called by one thread in cache_sim and gem5, by host threads in Sniper |
| RTL victim ranking, replacement path, online selector, recency rank, request merge, CSRs, sequence allocator, SECDED, `bench/src_rtl` | registers | one per clock edge | equal to the C++ they cost |
| gem5 request extension and MSHR merge, `ecg_reuse_bind_request_ext.hh`, `mshr_ecg_merge.patch` | `EcgReuseBindMshrState`, extensions of live requests | allocate, allocateTarget, service, promotion, deallocate, `apply` | a line gets a record only if all requests it serves agree, and then the right one |
| gem5 load path and policies (`ecg_rp.cc`, `graph_cache_context_gem5.hh`, O3 patches) | decode mailbox, per-line metadata | decode, attach, insert, hit, victim | the record of a load reaches the line that load fills |
| ReusePlan builder, `ecg_reuse_plan_builder.h` | none (offline) | `nextReusePlanForLine`, packing | the two epochs are those of the next two reads |
| Sidecar, `ecg_reuse_plan_sidecar.h` | a file | write + rename, validated load | a reader accepts only a complete file for its graph |
| cache_sim level, `cache_sim.h` `CacheLevel` | lines: tag, RRPV, stamps, epochs, prefetch bits | `access`, `insert`, `updateOnHit`, `findVictim`, `refreshExactStamp` | metadata of a line is that of its present tenant |
| cache_sim hierarchies | levels, prefetch sets, stream table, placement selector | `access`, `accessStream`, `prefetch`, `setCurrentVertex`, `resetStats`, `accessCore` | no line twice in a level, accounting that adds up, bypassed records stay out of the LLC |
| Graph context, `graph_cache_context.h` | per-thread hints, P-OPT matrix, regions | `resolveEdgeMaskAndEpoch`, `clearEdgeEpoch`, lookups | a hint is used for another line only where the code means it to be |
| Hawkeye, `hawkeye_policy.h` | OPTgen, sampler, predictors | `access`, `eviction` | decisions of the optimal policy over the window; averse lines evicted first |
| Sniper overlays, `bench/include/sniper_sim` | per-set metadata, shared selector | as gem5 | as gem5 |
| Graph kernels (`bench/src_sim`, `src_gem5`, `src_sniper`) | GAPBS state | instrumented loads | out of scope but for the order of their reads |
| Experiment runner and gates, `scripts/experiments/ecg` | run directories, CSVs, markers, hashes | plan, run, resume, shard, aggregate, gate | nothing stale or partial is aggregated |
| Setup scripts, reordering, vendored code | - | - | not modelled: I/O, numerical heuristics, third party |

How they interact. The builder computes, offline, a record per edge. A kernel's load
delivers it: cache_sim through per-thread hints, gem5 through the request extension
(merged in the MSHR when several requests wait for one line), Sniper through its
overlay. The last-level cache stamps the line with it. At a miss in a full set the
cache asks the online selector for the variant (all simulated cores share one
selector; Sniper's cores are host threads), computes each way's distance from its
epochs and calls `selectVictim`. The RTL repeats selector, distance, ranking, recency
and merge in hardware, and is claimed to be what the simulators evaluate.

What is hard here, and where it is covered (`hazards` in PROJECT.json lists every case
at its line): atomics interleaved by threads (OnlineDueling); merges in any order with
state rebuilt from requests that were overwritten in place (MshrReuseBind); loops with
no syntactic bound and ties broken by scan order (VictimPolicy); small ranks that stand
for unbounded stamps (RecencyRank); modular epochs, at their wraps, read long after
they were computed (ReusePlanEpochs); rings and timers that wrap (Hawkeye); one access
that becomes prefetches, promotions and fills at three levels (CacheHierarchy); threads
between the lookup and the fill of a shared cache (MultiCore); crashes, failed writes
and shared temporaries (ReusePlanSidecar).

## 2. Modules

| Module | Models | EXTENDS / INSTANCE |
|---|---|---|
| `RecencyRank` | `reuse_plan_recency_rank.sv` next to cache_sim's `last_access` | |
| `Dueling` | arms, leader sets, choice of a winner: common to both selectors | |
| `OnlineSelector` | `reuse_plan_online_selector.sv`; abstract specification of the duel | Dueling |
| `OnlineDueling` | `OnlineDuelingSelector::recordMiss`, one atomic operation per action | Dueling |
| `DuelingRefinement` | refinement mapping OnlineDueling -> OnlineSelector for one core | OnlineDueling, INSTANCE OnlineSelector |
| `ReuseBindMerge` | `reuse_bind_request_merge` as an operator, and the rule it implements | |
| `ReuseBindSlot` | `reuse_bind_request_state_slot` | ReuseBindMerge |
| `MshrReuseBind` | `EcgReuseBindMshrState` driven by the patched MSHR | ReuseBindMerge |
| `VictimPolicy` | `selectVictim` loop by loop, and `reuse_plan_victim_select` in one step | |
| `ReusePlanEpochs` | the builder's two epochs, their delivery and the distances read from them | |
| `Hawkeye` | `hawkeye_policy.h` with the calls CacheLevel makes of it | |
| `CacheLevel` | one set of cache_sim's `CacheLevel`: hit, fill, victim, stamps, as operators | |
| `CacheHierarchy` | `CacheHierarchy` on one thread: three levels, prefetchers, placement dueling | CacheLevel |
| `MultiCore` | `MultiCoreCacheHierarchy::accessCore` called by threads | CacheLevel |
| `ReusePlanSidecar` | writing, publishing and loading a sidecar, with crashes | |
| `MC...` | constants for TLC | the module they check |
| `..._proof` | theorems (section 5 says of which modules) | the modules they prove, TLAPS, Sums |
| `Sums` | lemmas on sums over finite sets and on induction, which the proofs share | community modules |

How state and actions correspond to the code:

* **RecencyRank.** `rank` is `rank_o`, `last_access`/`global_time` are cache_sim's.
  `Hit`, `Fill`, `Invalidate`, `Reset` drive both at once. An invalidation touches
  neither order (in gem5 and Sniper it comes from the coherence protocol, which is not
  in this repository).
* **OnlineDueling.** A thread goes `idle -> count -> sample -> (drain)* -> decide ->
  install -> idle`. Each action is exactly one load, `fetch_add` or `exchange`, so any
  interleaving the relaxed atomics allow *per variable* is covered; reorderings across
  variables by a weak memory model are not modelled (each step reads and writes one
  variable, and the values that flow from one step to the next do so by data
  dependence). The early return for follower sets is `Follow`. `seen` is history: the
  windows installed when a call loads the winner it compares with.
* **ReuseBindSlot.** `slot` holds the registers. The 95-bit payload is abstracted to
  context, sequence number and `data` (destination, tier, epochs), which the merge only
  compares. The specification is `SlotSpec`; `RankSpec` and `SidecarSpec` are those of
  RecencyRank and ReusePlanSidecar, so that one proof module can extend two models.
* **MshrReuseBind.** `req[r]` is the extension a request object carries now. `targets`
  and `deferred` are the MSHR's lists; the state is rebuilt at each point at which the
  patch rebuilds it, and at no other: a snoop that defers an invalidation
  (`handleSnoop`) is not patched and rebuilds nothing. `ArrivalsAssumption` says
  that a refused request carries a record: the one refused, or the empty one that
  `markEcgReuseBindConflict` gives a request without any. `Respond` is `recvTimingResp` with everything after it: apply,
  promotion and rebuild, service of all targets or of the first only, and the rebuild
  for what stays. `LowerConflict` is the merge in the cache below, which marks the
  extension object it shares. gem5's own MSHR logic is external, and modelled as the
  patch uses it.
* **VictimPolicy.** `pass`, `i` and `best` are the loop counters and candidate;
  `AgeAndRetry` is a round of ageing. A loop of the code that keeps a record and a
  property candidate and prefers the record is two passes.
* **ReusePlanEpochs.** One property line. `position` is the vertex the sweep visits
  (`position % n`), over two sweeps; each read by that vertex either delivers the record
  of its edge to the last-level line (`Deliver`) or hits in a private cache
  (`Filtered`). `at` and `until` are history: when the record was delivered, and the
  position of the second read it stands for.

* **Hawkeye.** `timer`, `occupancy`, `sampler` and `predictor` are the fields of `State`;
  `cache` holds what CacheLevel keeps of it per line. `StateAccess` is `State::access`;
  `Hit` is a demand hit or a prefetch hit, `Insert` a fill with the training by the line
  it evicts and the ageing of the others. `elapsed`, `lastUse`, `judged` and the fields
  `at`, `owner`, `friendly` are history: the calls of a sampled set that never wrap, the
  intervals OPTgen was asked about, and who last used an entry.
* **CacheLevel.** Addresses are lines; a set is its ways and their order of last access.
  The ageing loops are written as the sum of their rounds. The line whose epoch was
  delivered stands for the epoch itself, so a stamp tells whose it is. A fill without the
  mask array (`masked`) keeps the stamp of the line it replaces: nothing resets it.
* **CacheHierarchy.** A call of the kernel is one action; inside it the hierarchy `h` is
  passed through operators in the order of the code, so a stream prefetch runs before
  the lookups of the access that triggers it. `AccessStream` is a packed record,
  `SetCurrentVertex` a new vertex with the column stream of P-OPT. A behaviour first
  chooses a workload: a policy, its settings, and what the kernel asks for.

  `hint` is the epoch in force for the thread, told by the line it was delivered for:
  `Undelivered` at the start (epoch 0, valid, `graph_cache_context.h:828`), `NoLine` once
  cleared. `Edge` delivers and reads; `UnresolvedEdge` is the early return of
  `resolveEdgeMaskAndEpoch`, which keeps what was delivered before; `ClearEdgeEpoch` is the
  kernel's call, without effect in a run without edge masks. `Access` uses what is in
  force. Its guard is the discipline of the kernels: they call `clearEdgeEpoch` after the
  edges and before they read property data in order (`pr.cc:126,434`, `bfs.cc:58,89,400`,
  `cc.cc:35,42,70,205`, `sssp.cc:271,290`, `bc.cc:153,225`), but write the property of the
  vertex at the end of the present edge under its hint. `Lookahead` prefetches the target
  of a later record under that record's hint and restores the current one
  (`pr.cc:230-320`); `Prefetch` is the target of a mask, or a frontier vertex, under
  whatever hint is in force (`pr.cc:329,333`, `bfs.cc:160`, `sssp.cc:79`). `h.lent` is
  history: the lines last stamped in the LLC under the hint of another line by
  `UnresolvedEdge`, `Prefetch` or the stream detector. One property array is modelled; `bc`
  delivers one epoch for two.
* **MultiCore.** Each lookup and each fill is one step, the section the level's mutex
  guards. `core_accesses_[c]++` and `core_memory_accesses_[c]++` are plain increments by
  threads that may share a core: a load and a store, as such an increment compiles. `total_accesses_` and `memory_accesses_` are atomic.
* **ReusePlanSidecar.** A file is three parts, each whole or torn. A generator goes
  `create -> header -> offsets -> records -> close -> rename` and then loads the file
  back as a reader does, in four reads between which anything may happen to the file. A
  process id names the temporary; two generators may have the same one, on two hosts
  of a shared file system. A crash stops all processes, loses any part of the published
  file and may undo renames, since nothing is synced.

## 3. Runs

| Run | Shows | Instance and why it is enough |
|---|---|---|
| `recency_rank` | ranks stay a permutation, order lines as stamps do, give the same victim, and only an access makes a line newer | 4 ways, 7 accesses: every way is touched, evicted and refilled in every order; the proofs cover all sizes |
| `dueling_sequential` | one core: the software selector implements the hardware's | 3 arms, windows of 4, 12 misses: three windows, so each arm wins and is replaced; follower sets included; counters of the hardware's own width |
| `dueling_concurrent` | three threads: windows, transitions and misses are conserved, and an arm that was no better wins only by an overlap of windows | 2 arms, windows of 2, 6 misses: all three threads can be inside a closing window at once |
| `reuse_bind_slot` | bound iff the merged requests agree | 3 different requests, 2 requestors, contexts 0-2, sequence 0-2: all 144 requests in any order and repetition |
| `mshr_reuse_bind` | gem5's rebuilt state binds what the hardware slot binds | 3 request objects, reused; 7 kinds of arrival; deferral, promotion, snoops, partial service, conflict from below |
| `victim_policy` | the loops end, with the hardware's victim and RRPVs | 3 ways, RRPV 0-2: all sets of 6 kinds of line, all recency orders, 6 variants (EPOCH_ONLY is EPOCH_FIRST's code); two rounds of ageing |
| `reuse_plan_epochs` | the distance is never farther than the next read (from another epoch), never more than one epoch nearer, first is nearest, hardware ranks alike, admission is monotone | 6 vertices, 4 epochs (so epochs of one and of two vertices), a line of 2 vertices read by any sets of vertices, 2 sweeps: all wraps occur; hardware epochs 8, twice the plan's |
| `hawkeye` | the ring counts the accepted intervals, OPTgen is optimal over its window, distances within a turn are exact across the wrap, ranks are recency, eviction is averse first and then oldest | 4 sets of which 2 are sampled, 6 lines with a tag collision, 4 of them in one set of 3 ways, RRPV 0-2, 2 sampler entries, ring of 3, timer of 6, 7 calls: the ring turns twice, the timer once, entries are replaced, friendly and averse lines are evicted, a friendly fill meets a saturated line |
| `cache_hierarchy` | no line twice in a level, prefetches settled once, bypassed records stay out of the LLC, stamps are of their line or lent, no write counted twice | 1, 2 and 3x2 ways, 12 lines, 10 workloads over 6 policies, 7 calls: every level evicts by every policy, streams are confirmed and run into the in-flight limit (2), placement windows (2) close, columns return, hints are delivered, kept, cleared and left at their default |
| `multi_core` | copies bounded by threads, statistics that add up | 3 threads on 2 cores, levels of 1, 2 and 3 ways, 2 lines, 4 calls: two threads of a core and one of the other between lookup and fill of the L3 |
| `sidecar` | only a reader's own, complete sidecar is accepted; a failed write replaces nothing | 2 generators for two configurations, 2 readers with graphs of one size, equal or different process ids, 1 crash at any step |
| `write_traffic` | **violated**: a written line leaves the caches uncounted | as `cache_hierarchy`, 6 calls |

Bounds named in the modules: `MaxAccesses` (RecencyRank), `MaxMisses` (OnlineDueling),
`MaxMerged` (ReuseBindSlot), `MaxPosition` (ReusePlanEpochs), `MaxCalls` (Hawkeye,
CacheHierarchy, MultiCore), `MaxCrashes` (ReusePlanSidecar). Deadlock is checked except
where the modelled code stops: a call of `selectVictim` that has returned, the sweeps of
ReusePlanEpochs and the calls of Hawkeye, CacheHierarchy and MultiCore at their bound,
and processes that have written or read their sidecar.
Symmetry: the request objects of MshrReuseBind, the two vertices of the line in
ReusePlanEpochs and the process ids of ReusePlanSidecar, which nothing orders; no run
with symmetry checks liveness.

What `StampIsOwn` of `cache_hierarchy` exempts is narrow. In the workloads `Delivered` and
`Unmasked` nothing is lent. `Borrowed`
(targets of masks, edges of a direction without masks), `Undeliverable` (no masks at all:
the hint stays at its default and clearing does nothing) and `Ahead` (the stream detector)
show that the other lines keep stamps of their own next to lent ones. `Unmasked` has the
mask array disabled, for which the property claims nothing.

In `hawkeye` a line used again after a full turn of the timer is judged by the distance
the code measures, as every other interval is; `MeasuredExactly` states what the modulo
preserves, within a turn.

Fairness. Only `VictimPolicy` states any: `WF_vars(Next)`. `selectVictim` is a sequential
function; its caller waits for it and nothing can stop it but its own loop, so its next
step is always taken. The other modules make no liveness claim: no part of them waits
for another.

## 4. Findings

`write_traffic` is violated by the code. `CacheLevel::insert` counts a dirty eviction in
its own level and drops the dirty state. A line that reads bring into all levels and a
store then hits in L1 stays clean in L2 and L3; when L1 evicts it, L1's own statistics
count a writeback and nothing else is told. `getWritebackTraffic` reports the writebacks
of L3 only, so this write is in none of the totals that the comments at
`cache_sim.h:3092` and `:3098` and `wiki/Evaluation-Methodology.md:64` describe as
traffic in both directions. `DirtyIsOwed` shows the error is one-sided: nothing is
counted twice.

Other disagreements met while modelling, which no run checks:

1. *Ties keep the incumbent* (`ecg_victim_policy.h:133`, unconditionally) fails when
   windows overlap: one finds its counters emptied, ties at 0 and puts back the incumbent
   it loaded before. `UpsetOnlyByOverlap` shows that it fails in no other way.
2. *Farthest RAW-dist property* (`ecg_victim_policy.h:40`) is not what SHORTCIRCUIT does:
   it compares effective distances, 0 for a line without a live stamp.
3. *Unstamped property falls back to recency, in all variants* (`cache_sim.h:2076`) is
   not what RRIP_FIRST does: it breaks the tie by way.
4. *The two epochs describe the next two accesses* (`wiki/ReusePlan-FlowThrough.md:45`)
   fails for a read of the next sweep in the current epoch, which is stored one epoch
   early. `NeverTooFar` and `NeverTooNear` state what does hold.
5. `pr.cc:225` stamps the lines it prefetches itself with their own epoch, since they
   would otherwise inherit "the current demand's epoch". The stream detector
   (`issueStridePrefetch`), the fat-mask prefetches at `pr.cc:329` and `:333` and edges whose
   masks do not resolve (`graph_cache_context.h:3007`) do inherit it. `StampIsOwn` exempts
   exactly these, and the default epoch 0 of a thread nothing was delivered to, which
   `graph_cache_context.h:828` documents.
6. The in-flight budget of the stream detector counts lines that were evicted unused
   until someone asks for them again (`cache_sim.h:2992`).
7. With adaptive FlowThrough the columns of P-OPT's matrix take the same path as records
   and may be allocated in the LLC; `RecordsBypassLlc` exempts the sets that allocate.
8. Intervals outside OPTgen's window *fail closed* (`hawkeye_policy.h:21-23`) unless they
   span a full turn of the 10-bit timer: then their distance is that of a short one.

## 5. Proofs

Every property of the passing runs is proved for every value of the constants, except
`Returns`. The proofs rest on the assumptions the modules name, which TLC evaluates in
the runs; `SequentialRefinement` alone also assumes one core (`OneCore`), as the run
`dueling_sequential` of its property does, for the reason given in section 4. Where the
property is not inductive, the invariant that implies it is named here.

**`Replacement_proof`** (VictimPolicy, RecencyRank)

* `PermutationHolds`, `OrderHolds`, `SameVictimHolds` from `RankInvariance`: types, ranks
  are a permutation, the order of ranks is that of stamps on valid ways, stamps are below
  the clock. Without the last a new stamp need not be the newest; without the
  permutation the closing of a gap could double a rank.
* `NewerHolds`: an access moves a way to the front and shifts those before it together.
* `AgingHolds`, `VictimHolds` from `Invariance`: RRPVs are aged evenly and only while none
  was at the maximum, earlier passes found nothing, `best` is the best of the ways
  scanned. So the answer of the loops is the one way the hardware's ranking selects.

**`OnlineDueling_proof`** (OnlineDueling, DuelingRefinement, OnlineSelector)

* `ChainHolds`, `MissesConserved` from `Invariance`: types with where each call stands,
  the chain of installed winners, and conservation as sums over arms and threads.
* `WindowsReported`, `LeftBehindHolds`: `WindowsInv` counts, with finite sets of calls, the
  windows closed but not yet reported, and what misses the calls between their count and
  their sample and the closings still draining can leave in the counters. Any number of
  threads and arms, any interleaving.
* `UpsetsAreOverlaps`, for any number of threads: a call that has decided has the choice
  of its counters against the winner it loaded, and the winner is that one for as long as
  no window has been installed since.
* `SequentialRefinement`: step simulation. A call takes effect at its sample, or at its
  install when it closes a window; the mapping gives back to the hardware the counters
  already drained and withholds the miss not yet sampled. It needs the invariant that the
  counters of the window sum to the samples, by which the hardware's narrow counters
  never wrap.

**`ReuseBind_proof`** (ReuseBindSlot, MshrReuseBind)

* `SoundnessHolds`, `CompletenessHolds` from `Invariance`: each register told from the
  merged set, and a conflict always justified by a reason in the set.
* `MshrTypeHolds`, `FillSoundHolds`, `FillCompleteHolds`, `HardwareHolds` from
  `MshrInvariance`. The difficulty is that the MSHR rebuilds its state from requests it
  has itself overwritten. The invariant says of each list of targets that only its first
  request is ever overwritten, and with the record the hardware slot holds at some later
  target; others are only marked as conflicts, with a reason among what they met. A
  rebuild, by induction over the list, then arrives where the hardware would; the
  invariant is carried to longer lists, to the targets a partial service leaves, and
  across snoops.

**`ReusePlan_proof`** (ReusePlanEpochs, ReusePlanSidecar)

* `TypeHolds`, `HardwareOrderHolds`: the two reads the builder looks for exist (a least
  element of a set of naturals); the two moduli add different amounts to epochs that have
  gone by and none to the others, so they order alike.
* `NeverTooFarHolds`, `NeverTooNearHolds`, `FirstIsNearestHolds` from `DistanceInvariance`: a
  record promises the two reads that follow its delivery. Each is stored by its epoch,
  one early exactly when that epoch would be the delivery's own in the next sweep; the
  epoch of a position is monotone and gains the number of epochs a sweep. So a distance
  is that of the first read promised, or of the second when the first has gone by.
* `AdmissionHolds`: the bucket of a distance grows with it.
* `AcceptedHolds` from `Invariance`: the last check of a load decides. The payload hash
  ties the three parts to one plan, the edges and the graph hash tie that plan to the
  reader's graph and, with the header read first, to its configuration. Nothing is
  needed of how the file came to be.
* `PublishedHolds` from `FilesInvariance`: until a crash, and with process ids of their
  own, each generator owns the one file it writes, no file is owned twice, and the name
  of the sidecar leads to a file whose generator has closed it.

**`MultiCore_proof`** (MultiCore)

* `CopiesHold` from `Invariance`, which counts the fills still owed with the copies: a
  lookup that misses trades "no copy" for one owed fill, a fill an owed fill for a copy.
* `StatisticsHold`: `StatisticsInv` has an equation for each counter, with the threads
  that stand between the two places it counts. One thread moves in a step, so both sides
  of an equation change together. The plain counters of a core are exact through their
  load and store when one thread has the core.

**`Hawkeye_proof`** (Hawkeye)

* `TypeHolds`, `OrderHolds` from `Invariance`: the capacity, averse lines at the maximum,
  friendly ones ordered by age. Ageing must move all friendly lines or none.
* `OccupancyHolds`, `MeasureHolds`, `RecencyHolds` from `HistoryInvariance`: a timer is the
  calls of its set modulo its size, an entry tells the last use of the line that owns it,
  one entry of a bucket has a tag, LRU values are ranks, and the ring counts the accepted
  intervals. The ring's size divides the timer's, so a wrap of the timer does not show in
  the ring.
* `OptimalHolds` from `GreedyInvariance`: intervals of a set end at different calls, and each
  is accepted exactly when it fits with those accepted before it. The rest is an exchange
  argument (`Exchange`, `GreedyIsBest`): by induction on the end of the intervals any
  choice within the capacity becomes OPTgen's. Where OPTgen takes an interval the choice
  has not, the choice takes it too and gives up the one that starts first among those
  that end later and are in the way; where OPTgen refuses one, the choice could not have
  had it.

**`CacheHierarchy_proof`** (CacheHierarchy, CacheLevel)

* `OneCopyHolds`, `PrefetchesAreSettledOnce`, `RecordsStayOut`, `StampsAreOwn` and
  `DirtyLinesAreOwed` from `HierarchyStaysSound`. They are proved together. A line is in a
  level once since an insertion follows a miss there; because it is there once, the
  victim of an insertion takes the only dirty copy with it; because a line is in the set
  of its address, a stamp or dirty bit of another set is never its own. Each operator of
  the call (lookup, fill, prefetch, stream, column) has a lemma that it keeps the
  hierarchy sound. `HierarchyAssumption` gives the constants their types. `RegionsApart`
  says that no region the stream detector works in holds both records and other lines:
  the packed records are one large array, mapped on pages of its own.
* The stamps need one fact about the kernel: an access in order to property data meets
  no hint but its own line's, the default or a cleared one. Between an edge and the next
  `clearEdgeEpoch` the guard of `Access` says so; after it, the hint is cleared, or the run
  has no masks and nothing was ever delivered. A call that lends tells so to every stamp
  it makes in the LLC.
* What two of them do not say: `RecordsStayOut` leaves the sets of an adaptive run that may
  allocate records, and `DirtyLinesAreOwed` the writes no level counts.

**`Sums`** proves what the counting invariants need of a sum over a finite set. Its induction
rules are instances of the least element of a set of naturals (`LeastNatural`,
`SetInduction`, `SizeInduction`), by which facts about lists and sums of any size are
within the provers' reach although the library's rules with an operator parameter are not.

`bench/src_rtl/README.md` lists "proven equivalent to the C++ policy for every possible
cache state" and "formally verified" among what the RTL is not yet. `VictimHolds`,
`AgingHolds`, `HardwareOrderHolds`, `HardwareHolds`, `SequentialRefinement`, `OrderHolds` and
`SameVictimHolds` supply that at the level of the algorithms (unbounded or arbitrary
widths; a distance fits its field), for a set without an invalid way. They say nothing
of the SystemVerilog's synthesis.

Only model-checked: `Returns`, because liveness under fairness is out of the prover's
reach. (`WritesReachMemory` is what the run `write_traffic` refutes.) The type invariants
of RecencyRank (`RankTypeOK`), OnlineDueling, ReuseBindSlot (`SlotTypeOK`) and VictimPolicy
are proved, as conjuncts of the inductive invariants, and have no run of their own.

## 6. Not modelled

Left out of the modules that exist: the wrap of 32-bit sequence numbers; single-epoch
records in the distance (they merge like requests without a record); graphs with no
reader of a line (a delivery implies one); property and context qualification in the RTL
path (inputs `prop` and `stamped` here); FIFO, LFU, RANDOM and PLRU and the ECG modes
other than ECG_GRASP_POPT; the oracle prefetch model; a reset of the statistics while
threads run; the Fast, UltraFast and Sampled hierarchies, which are other caches with
fewer promises; collisions of the hashes of a sidecar. `PropertyLines` stands for both
`isPropertyData` and `isEcgEpochData`.

Components without a module, and why:

* *gem5 load path, Sniper overlays, RTL sequence allocator.* What could go wrong there is
  an order of events of gem5's and Sniper's cores, of which the repository holds patches
  only. The parts that decide something are the shared header (VictimPolicy), the merge
  (MshrReuseBind) and the selector (OnlineDueling).
* *SECDED, mode 6 masks, record packing.* Combinational bit layouts without state, which
  their own tests enumerate.
* *Experiment runner and gates, setup scripts.* File-system and subprocess glue in Python.
* *Reordering, graph kernels, builder.* The bulk of the repository by lines: heuristics on
  floating-point scores and parallel loops over a graph, most of them vendored or
  instrumented from GAPBS, RabbitOrder and similar. They keep no protocol state; a model
  would be a transliteration. This is why the modules cover a small share of all lines
  and a large one of those that decide what is cached.
