---------------------------- MODULE ReusePlanEpochs ----------------------------
(* The two epochs of a ReusePlan record and the distance they stand for.  The *)
(* builder (nextReusePlanForLine of bench/include/ecg_reuse_plan_builder.h)   *)
(* looks up, for a read of a property line, the next two reads of the line    *)
(* and quantizes their positions to epochs; a load delivers the record to the *)
(* line; at an eviction reusePlanDistance (bench/include/ecg_victim_policy.h) *)
(* turns the epochs and the current one back into a distance.  One line is    *)
(* followed here through the sweeps of the kernel over the vertices, in the   *)
(* order of their ids, against the reads that are really to come.             *)
EXTENDS Integers

CONSTANTS
    n,             \* the vertices of the graph
    ne,            \* the epochs of a sweep
    LineVertices,  \* the vertices the plan is for: those of the line with
                   \* linemin, else the one that is read
    EPOCHS,        \* 2^EPOCH_BITS, the epochs the hardware's fields hold
    rrpvMax,       \* the highest RRPV
    MaxPosition    \* bound on the vertices visited in a behaviour

ASSUME VerticesAssumption == n \in Nat \ {0} /\ MaxPosition \in Nat
(* normalizeReusePlanEpochCount keeps the count from 2 to what a field holds. *)
ASSUME EpochsAssumption == ne \in Nat /\ EPOCHS \in Nat /\ 2 <= ne /\ ne <= EPOCHS
ASSUME RrpvAssumption == rrpvMax \in Nat \ {0}

VARIABLES
    readers,   \* for each vertex of the line, the vertices that read it
    position,  \* vertices visited so far: sweep position \div n, vertex position % n
    pending,   \* vertices of the line that the current vertex has yet to read
    stamped,   \* the line holds a record
    plan,      \* its epochs
    at,        \* history: the position at which the record was delivered
    until      \* history: the position of the second read it stands for

vars == <<readers, position, pending, stamped, plan, at, until>>

Vertices == 0 .. n - 1
Epochs == 0 .. ne - 1
Plans == [first : Epochs, second : Epochs]
Least(S) == CHOOSE x \in S : \A y \in S : x <= y

currentEpoch(u) == (u * ne) \div n
CurrentEpoch == currentEpoch(position % n)
-----------------------------------------------------------------------------
(* quantizedFutureEpoch: a read of a later sweep whose epoch is the current   *)
(* one is put one epoch before it, which tells it from a read still to come   *)
(* in the current epoch.  Slips: epoch 0 has no epoch before it; the two are  *)
(* not told apart.                                                            *)
quantizedFutureEpoch_NoBorrow(reader, current, wrapped) ==
    IF wrapped /\ currentEpoch(reader) = currentEpoch(current)
    THEN currentEpoch(current) - 1
    ELSE currentEpoch(reader)

quantizedFutureEpoch_NotWrapped(reader, current, wrapped) == currentEpoch(reader)

quantizedFutureEpoch(reader, current, wrapped) ==
    IF wrapped /\ currentEpoch(reader) = currentEpoch(current)
    THEN (currentEpoch(current) + ne - 1) % ne
    ELSE currentEpoch(reader)

(* The reads after vertex src of the sweep, as far as two more sweeps: the    *)
(* two of each vertex that the builder finds are among them.  The slip takes  *)
(* the read by src itself for the next one (lower_bound for upper_bound).     *)
Accesses_LowerBound(src) ==
    {a \in LineVertices \X (src .. src + 2 * n) : a[2] % n \in readers[a[1]]}

Accesses(src) ==
    {a \in LineVertices \X (src + 1 .. src + 2 * n) : a[2] % n \in readers[a[1]]}

Nearest(A) == CHOOSE a \in A : \A b \in A : a[2] <= b[2]

(* consider: the two nearest, which may be reads of two vertices by one.      *)
NextTwo(src) ==
    LET first == Nearest(Accesses(src))
    IN  <<first[2], Nearest(Accesses(src) \ {first})[2]>>

nextReusePlanForLine(src) ==
    LET Epoch(p) == quantizedFutureEpoch(p % n, src, p >= n)
    IN  [first |-> Epoch(NextTwo(src)[1]), second |-> Epoch(NextTwo(src)[2])]

epochDistance(epoch, current) == (epoch + ne - (current % ne)) % ne

(* reusePlanDistance of a two-epoch record; the slip never looks at the       *)
(* second epoch.                                                              *)
reusePlanDistance_FirstOnly(p, current) == epochDistance(p.first, current)

reusePlanDistance(p, current) ==
    Least({epochDistance(p.first, current), epochDistance(p.second, current)})

(* The subtraction of reuse_plan_static_replacement_path, whose fields are    *)
(* EPOCH_BITS wide and which does not know ne.  The slip compares the epochs  *)
(* before it subtracts.                                                       *)
HwDistance_MinFirst(p, current) == (Least({p.first, p.second}) - current) % EPOCHS

HwDistance(p, current) ==
    Least({(p.first - current) % EPOCHS, (p.second - current) % EPOCHS})

(* reuseAdmissionRRPV; the slip rounds down.                                  *)
reuseAdmissionRRPV_Floor(first, current) ==
    Least({(epochDistance(first, current) * rrpvMax) \div (ne - 1), rrpvMax})

reuseAdmissionRRPV(first, current) ==
    Least({(epochDistance(first, current) * rrpvMax + ne - 2) \div (ne - 1), rrpvMax})
-----------------------------------------------------------------------------
ReadBy(u) == {w \in LineVertices : u \in readers[w]}

Init ==
    /\ readers \in [LineVertices -> SUBSET Vertices]
    /\ position = 0
    /\ pending = ReadBy(0)
    /\ stamped = FALSE
    /\ plan = [first |-> 0, second |-> 0]
    /\ at = 0 /\ until = 0

(* A read that reaches the last-level cache stamps the line with the record   *)
(* of its edge, on a hit as on a fill.                                        *)
Deliver(w) ==
    LET src == position % n IN
    /\ w \in pending
    /\ pending' = pending \ {w}
    /\ stamped' = TRUE
    /\ plan' = nextReusePlanForLine(src)
    /\ at' = position
    /\ until' = position - src + NextTwo(src)[2]
    /\ UNCHANGED <<readers, position>>

(* A read that hits in L1 or L2 does not.                                     *)
Filtered(w) ==
    /\ w \in pending
    /\ pending' = pending \ {w}
    /\ UNCHANGED <<readers, position, stamped, plan, at, until>>

Visit ==
    /\ pending = {}
    /\ position < MaxPosition
    /\ position' = position + 1
    /\ pending' = ReadBy((position + 1) % n)
    /\ UNCHANGED <<readers, stamped, plan, at, until>>

Next == Visit \/ \E w \in LineVertices : Deliver(w) \/ Filtered(w)

Spec == Init /\ [][Next]_vars
-----------------------------------------------------------------------------
TypeOK ==
    /\ readers \in [LineVertices -> SUBSET Vertices]
    /\ position \in 0 .. MaxPosition
    /\ pending \subseteq LineVertices
    /\ stamped \in BOOLEAN
    /\ plan \in Plans
    /\ at \in 0 .. position /\ until \in Nat

(* The next read of the line: at the present vertex, or after it.             *)
NextUse ==
    IF pending # {} THEN position
    ELSE Least({p \in position + 1 .. position + n : ReadBy(p % n) # {}})

EpochAt(p) == ne * (p \div n) + currentEpoch(p % n)
EpochsToUse == EpochAt(NextUse) - EpochAt(position)
Distance == reusePlanDistance(plan, CurrentEpoch)

(* The record speaks of the next read as long as that is one of its two: not  *)
(* one by the vertex that delivered it, and none after its second.            *)
Covers == stamped /\ at < NextUse /\ NextUse <= until

ReadThisEpoch ==
    \E p \in at + 1 .. position : ReadBy(p % n) # {} /\ EpochAt(p) = EpochAt(position)

(* A line needed in a later epoch is never taken for farther than it is, even *)
(* when the first of the reads its record stands for has gone by unseen       *)
(* (reusePlanDistance: the second epoch takes over from the first).           *)
NeverTooFar == Covers /\ EpochsToUse >= 1 => Distance <= EpochsToUse

(* Nor is a line taken for more than one epoch nearer than it is (the epoch   *)
(* lost where quantizedFutureEpoch moves a read of the next sweep), from the  *)
(* epoch after its last read on: a read that has gone by no longer protects.  *)
NeverTooNear == Covers /\ ~ ReadThisEpoch => Distance >= EpochsToUse - 1

(* "The first ReusePlan epoch is already the nearest future line reference":  *)
(* at the delivery no other epoch of the record is nearer, so admission may   *)
(* look at the first alone (comment of reuseAdmissionRRPV).                   *)
FirstIsNearest ==
    [][plan' # plan =>
          epochDistance(plan'.first, CurrentEpoch) <= epochDistance(plan'.second, CurrentEpoch)
      ]_vars

(* The hardware, which wraps at its own field width instead of at ne, ranks   *)
(* any two records as the software does                                       *)
(* (reuse_plan_static_replacement_path against reusePlanDistance).            *)
HardwareOrder ==
    \A q \in Plans :
        HwDistance(plan, CurrentEpoch) < HwDistance(q, CurrentEpoch)
            <=> Distance < reusePlanDistance(q, CurrentEpoch)

(* Admission keeps the order of the distances and both its ends: RRPV 0 is    *)
(* for a use in the current epoch and no other, the highest RRPV for the      *)
(* farthest use (reuseAdmissionRRPV).                                         *)
AdmissionKeepsOrder ==
    \A e1, e2 \in Epochs :
        LET d1 == epochDistance(e1, CurrentEpoch)
            d2 == epochDistance(e2, CurrentEpoch)
            r1 == reuseAdmissionRRPV(e1, CurrentEpoch)
            r2 == reuseAdmissionRRPV(e2, CurrentEpoch)
        IN  /\ d1 <= d2 => r1 <= r2
            /\ r1 = 0 <=> d1 = 0
            /\ d1 = ne - 1 => r1 = rrpvMax
=============================================================================
