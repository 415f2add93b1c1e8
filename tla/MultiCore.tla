------------------------------ MODULE MultiCore ------------------------------
(***************************************************************************)
(* The multi-core hierarchy of cache_sim: class MultiCoreCacheHierarchy of *)
(* src/bench/include/cache_sim/cache_sim.h, called by the threads of a     *)
(* kernel.  Each core has an L1 and an L2; the cores share the L3.         *)
(*                                                                         *)
(* A lookup or a fill of a level is one step, the section its mutex        *)
(* guards; what a call does of it are the steps of accessCore in their     *)
(* order.  The counters of a core are plain integers: an increment is a    *)
(* load and a store.                                                       *)
(***************************************************************************)
EXTENDS CacheLevel, Functions

CONSTANTS
    Threads,        \* 0 .. n - 1: omp_get_thread_num
    NumCores,       \* num_cores_
    Requests,       \* what the kernel accesses: <<line, is_write>>
    Ways,           \* of a level, [L1, L2, L3]: each has one set
    MaxCalls        \* bounds the calls of a behaviour

ASSUME MultiCoreAssumption ==
    /\ Threads \subseteq Nat /\ IsFiniteSet(Threads)
    /\ NumCores \in Nat \ {0} /\ MaxCalls \in Nat
    /\ Ways \in [{"L1", "L2", "L3"} -> Nat \ {0}]
    /\ \A r \in Requests : r[1] # NoLine

Cores == 0 .. NumCores - 1
CoreOf(t) == t % NumCores

\* The caches: the private ones by level and core, and the shared one.
Private == {"L1", "L2"} \X Cores
Shared == <<"L3", "all">>
Caches == Private \cup {Shared}
CacheAt(t, level) == IF level = "L3" THEN Shared ELSE <<level, CoreOf(t)>>

VARIABLES
    pc,         \* of each thread: what it does next
    request,    \* of each thread: the access it is in
    loaded,     \* of each thread: the counter it is about to store
    cache,      \* the set of each cache
    lookups, misses,    \* CacheStats of each cache: hits + misses, misses
    memory,     \* memory_accesses_
    counted,    \* core_accesses_ and core_memory_accesses_
    calls       \* total_accesses_

vars == <<pc, request, loaded, cache, lookups, misses, memory, counted, calls>>

Idle == <<NoLine, FALSE>>

Init ==
    /\ pc = [t \in Threads |-> "idle"]
    /\ request = [t \in Threads |-> Idle]
    /\ loaded = [t \in Threads |-> 0]
    /\ cache = [c \in Caches |-> EmptySet(Ways[c[1]])]
    /\ lookups = [c \in Caches |-> 0] /\ misses = [c \in Caches |-> 0]
    /\ memory = 0 /\ calls = 0
    /\ counted = [c \in Cores |-> [access |-> 0, memory |-> 0]]

Goto(t, from, to) == pc[t] = from /\ pc' = [pc EXCEPT ![t] = to]
KeepCaches == UNCHANGED <<cache, lookups, misses>>

\* access: a thread enters accessCore and total_accesses_ counts it.
Start(t) ==
    /\ Goto(t, "idle", "loadAccess")
    /\ calls < MaxCalls
    /\ calls' = calls + 1
    /\ request' \in {[request EXCEPT ![t] = r] : r \in Requests}
    /\ KeepCaches /\ UNCHANGED <<loaded, memory, counted>>

\* ++ on a counter of the core, which is not atomic.
LoadCount(t, which, from, to) ==
    /\ Goto(t, from, to)
    /\ loaded' = [loaded EXCEPT ![t] = counted[CoreOf(t)][which]]
    /\ KeepCaches /\ UNCHANGED <<request, memory, counted, calls>>

StoreCount(t, which, from, to) ==
    /\ Goto(t, from, to)
    /\ counted' = [counted EXCEPT ![CoreOf(t)][which] = loaded[t] + 1]
    /\ loaded' = [loaded EXCEPT ![t] = 0]
    /\ KeepCaches /\ UNCHANGED <<request, memory, calls>>

Missed(c, l) == ~Holds(cache[c], l)

Lookup_FillsAnyway(t, level, hit, miss) ==
    LET c == CacheAt(t, level)
        l == request[t][1]
    IN  /\ pc[t] = level
        /\ lookups' = [lookups EXCEPT ![c] = @ + 1]
        /\ misses' = [misses EXCEPT ![c] = IF Missed(c, l) THEN @ + 1 ELSE @]
        /\ IF Missed(c, l)
           THEN Goto(t, level, miss) /\ UNCHANGED cache
           ELSE /\ Goto(t, level, IF level = "L1" THEN "idle" ELSE "fillL3")
                /\ cache' = [cache EXCEPT ![c] = AfterHit("LRU", @, l, request[t][2], NoLine)]
        /\ UNCHANGED <<request, loaded, memory, counted, calls>>
\* access of a level.
Lookup(t, level, hit, miss) ==
    LET c == CacheAt(t, level)
        l == request[t][1]
    IN  /\ lookups' = [lookups EXCEPT ![c] = @ + 1]
        /\ \/ /\ Missed(c, l)
              /\ Goto(t, level, miss)
              /\ misses' = [misses EXCEPT ![c] = @ + 1]
              /\ UNCHANGED cache
           \/ /\ ~Missed(c, l)
              /\ Goto(t, level, hit)
              /\ cache' = [cache EXCEPT ![c] = AfterHit("LRU", @, l, request[t][2], NoLine)]
              /\ UNCHANGED misses
        /\ UNCHANGED <<request, loaded, memory, counted, calls>>

FetchMemory_Late(t) ==
    /\ Goto(t, "memory", "loadMemory")
    /\ memory' = IF Missed(Shared, request[t][1]) THEN memory + 1 ELSE memory
    /\ KeepCaches /\ UNCHANGED <<request, loaded, counted, calls>>
\* A miss of the L3 counts an access of memory.
FetchMemory(t) ==
    /\ Goto(t, "memory", "loadMemory")
    /\ memory' = memory + 1
    /\ KeepCaches /\ UNCHANGED <<request, loaded, counted, calls>>

\* insert of a level, of a line that was looked up in an earlier step.
Fill(t, level, from, to) ==
    /\ Goto(t, from, to)
    /\ cache' = [cache EXCEPT ![CacheAt(t, level)] =
          Inserted("LRU", @, request[t][1], request[t][2], NoLine, TRUE, 0, 1).set]
    /\ UNCHANGED <<request, loaded, lookups, misses, memory, counted, calls>>

Step(t) ==
    \/ Start(t)
    \/ LoadCount(t, "access", "loadAccess", "storeAccess")
    \/ StoreCount(t, "access", "storeAccess", "L1")
    \/ Lookup(t, "L1", "idle", "L2")
    \/ Lookup(t, "L2", "fillL1", "L3")
    \/ Lookup(t, "L3", "fillL2", "memory")
    \/ FetchMemory(t)
    \/ LoadCount(t, "memory", "loadMemory", "storeMemory")
    \/ StoreCount(t, "memory", "storeMemory", "fillL3")
    \/ Fill(t, "L3", "fillL3", "fillL2")
    \/ Fill(t, "L2", "fillL2", "fillL1")
    \/ Fill(t, "L1", "fillL1", "idle")

Next == \E t \in Threads : Step(t)

Spec == Init /\ [][Next]_vars
-------------------------------------------------------------------------------
\* The places of a thread that has missed in a level and not yet filled it.
Memory == {"memory", "loadMemory", "storeMemory", "fillL3"}
Owes == [L1 |-> {"L2", "L3", "fillL2", "fillL1"} \cup Memory,
         L2 |-> {"L3", "fillL2"} \cup Memory,
         L3 |-> Memory]

Users(c) == {t \in Threads : CacheAt(t, c[1]) = c}
Filling(c, l) == {t \in Users(c) : pc[t] \in Owes[c[1]] /\ request[t][1] = l}

\* Looking a line up and filling it are two critical sections, so threads that miss
\* together each fill a copy; yet the copies and the fills still to come are never
\* more than the threads that use the cache, and a cache of one thread has one copy.
CopiesBounded ==
    \A c \in Caches : \A l \in {r[1] : r \in Requests} :
        Cardinality(WaysOf(cache[c], l)) + Cardinality(Filling(c, l))
            <= Cardinality(Users(c))

At(S) == {t \in Threads : pc[t] \in S}
OverCores(counter, level) ==
    SumFunctionOnSet([c \in Cores |-> counter[<<level, c>>]], Cores)

\* The statistics add up at any moment, whichever threads overlap: every miss is a
\* lookup of the next level or of memory, made or about to be made, and the count of
\* a core that has one thread to itself is exact whenever that thread is idle.
StatisticsAddUp ==
    /\ calls = OverCores(lookups, "L1")
                 + Cardinality(At({"loadAccess", "storeAccess", "L1"}))
    /\ \A c \in Cores : misses[<<"L1", c>>] =
          lookups[<<"L2", c>>] + Cardinality(At({"L2"}) \cap Users(<<"L2", c>>))
    /\ OverCores(misses, "L2") = lookups[Shared] + Cardinality(At({"L3"}))
    /\ misses[Shared] = memory + Cardinality(At({"memory"}))
    /\ \A t \in At({"idle"}) :
          LET core == CoreOf(t)
          IN  Users(<<"L1", core>>) = {t} => counted[core].access = lookups[<<"L1", core>>]
===============================================================================
