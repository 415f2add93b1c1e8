---------------------------- MODULE ReusePlan_proof ----------------------------
(***************************************************************************)
(* The records of a ReusePlan, for every number of vertices, of epochs and *)
(* of hardware epochs no smaller: the model is type correct, the distances *)
(* the hardware computes rank records exactly as those of the software do, *)
(* and a distance tells when the line is read next, up to one epoch.       *)
(*                                                                         *)
(* Then its sidecar file, for any number of generators and readers, any    *)
(* graphs, sizes and process ids.  What a load accepts is the plan of      *)
(* whoever loads it, after any number of crashes: no fact about the file   *)
(* is needed but that the header was compared with the configuration of    *)
(* the one who loads it, because the hashes are checked over what has been *)
(* loaded, not over the file.  And until the host crashes the name of the  *)
(* sidecar leads to a complete file: there each generator owns the one     *)
(* file it writes.                                                         *)
(***************************************************************************)
EXTENDS ReusePlanEpochs, ReusePlanSidecar, FiniteSetTheorems, SequenceTheorems,
        WellFoundedInduction, TLAPS

LEMMA Constants == /\ n \in Nat \ {0} /\ MaxPosition \in Nat
                   /\ ne \in Nat \ {0} /\ 2 <= ne
                   /\ EPOCHS \in Nat \ {0} /\ ne <= EPOCHS
  BY VerticesAssumption, EpochsAssumption
-----------------------------------------------------------------------------
(* Arithmetic of one modulus.                                                 *)
LEMMA WrapOnce ==
    ASSUME NEW m \in Nat \ {0}, NEW x \in Int, - m <= x, x < 2 * m
    PROVE  x % m = IF x < 0 THEN x + m ELSE IF x < m THEN x ELSE x - m
  OBVIOUS

LEMMA QuotientBound ==
    ASSUME NEW d \in Nat \ {0}, NEW e \in Nat \ {0}, NEW u \in 0 .. d - 1
    PROVE  (u * e) \div d \in 0 .. e - 1
  OBVIOUS

LEMMA RemainderBound ==
    ASSUME NEW d \in Nat \ {0}, NEW u \in Nat
    PROVE  u % d \in 0 .. d - 1 /\ u % d <= u
  OBVIOUS

LEMMA SameRemainder ==
    ASSUME NEW d \in Nat \ {0}, NEW u \in 0 .. d - 1
    PROVE  (u + d) % d = u /\ (u + 2 * d) % d = u
  OBVIOUS

LEMMA LeastOfTwo ==
    ASSUME NEW x \in Int, NEW y \in Int
    PROVE  Least({x, y}) = IF x <= y THEN x ELSE y
  BY DEF Least
-----------------------------------------------------------------------------
(* Both distances are the difference of the epochs, and differ only in what   *)
(* they add to an epoch that has gone by.                                     *)
LEMMA SoftwareWraps ==
    ASSUME NEW e \in Epochs, NEW c \in Epochs
    PROVE  epochDistance(e, c) = IF c <= e THEN e - c ELSE e - c + ne
<1>1. c % ne = c
  <2>1. /\ ne \in Nat \ {0} /\ c \in Int /\ - ne <= c /\ c < 2 * ne
        /\ 0 <= c /\ c < ne
    BY Constants DEF Epochs
  <2>2. c % ne = IF c < 0 THEN c + ne ELSE IF c < ne THEN c ELSE c - ne
    BY <2>1, WrapOnce
  <2>3. QED
    BY <2>1, <2>2
<1> DEFINE x == e + ne - c
<1>2. x \in Int /\ - ne <= x /\ x < 2 * ne /\ ne \in Nat \ {0}
  BY Constants DEF Epochs
<1> HIDE DEF x
<1>3. x % ne = IF x < 0 THEN x + ne ELSE IF x < ne THEN x ELSE x - ne
  BY <1>2, WrapOnce
<1>4. (e + ne - c) % ne = IF c <= e THEN e - c ELSE e - c + ne
  BY <1>3, Constants DEF x, Epochs
<1>5. QED
  BY <1>1, <1>4 DEF epochDistance

LEMMA HardwareWraps ==
    ASSUME NEW e \in Epochs, NEW c \in Epochs
    PROVE  (e - c) % EPOCHS = IF c <= e THEN e - c ELSE e - c + EPOCHS
<1> DEFINE x == e - c
<1>1. x \in Int /\ - EPOCHS <= x /\ x < 2 * EPOCHS /\ EPOCHS \in Nat \ {0}
  BY Constants DEF Epochs
<1> HIDE DEF x
<1>2. x % EPOCHS = IF x < 0 THEN x + EPOCHS ELSE IF x < EPOCHS THEN x ELSE x - EPOCHS
  BY <1>1, WrapOnce
<1>3. QED
  BY <1>2, Constants DEF x, Epochs

LEMMA RankingsAgree ==
    ASSUME NEW p \in Plans, NEW q \in Plans, NEW c \in Epochs
    PROVE  HwDistance(p, c) < HwDistance(q, c)
               <=> reusePlanDistance(p, c) < reusePlanDistance(q, c)
<1> DEFINE Sw(e) == IF c <= e THEN e - c ELSE e - c + ne
           Hw(e) == IF c <= e THEN e - c ELSE e - c + EPOCHS
<1>1. /\ p.first \in Epochs /\ p.second \in Epochs
      /\ q.first \in Epochs /\ q.second \in Epochs
  BY DEF Plans
<1>2. \A e \in Epochs : /\ epochDistance(e, c) = Sw(e) /\ (e - c) % EPOCHS = Hw(e)
                        /\ Sw(e) \in Int /\ Hw(e) \in Int
  <2> SUFFICES ASSUME NEW e \in Epochs
               PROVE  /\ epochDistance(e, c) = Sw(e) /\ (e - c) % EPOCHS = Hw(e)
                      /\ Sw(e) \in Int /\ Hw(e) \in Int
    OBVIOUS
  <2>1. epochDistance(e, c) = Sw(e) /\ (e - c) % EPOCHS = Hw(e)
    BY SoftwareWraps, HardwareWraps
  <2>2. Sw(e) \in Int /\ Hw(e) \in Int
    BY Constants DEF Epochs
  <2>3. QED
    BY <2>1, <2>2
<1>3. \A d, e \in Epochs : Sw(d) < Sw(e) <=> Hw(d) < Hw(e)
  BY Constants DEF Epochs
<1> HIDE DEF Sw, Hw
<1>4. /\ reusePlanDistance(p, c) = IF Sw(p.first) <= Sw(p.second) THEN Sw(p.first) ELSE Sw(p.second)
      /\ reusePlanDistance(q, c) = IF Sw(q.first) <= Sw(q.second) THEN Sw(q.first) ELSE Sw(q.second)
  BY <1>1, <1>2, LeastOfTwo DEF reusePlanDistance
<1>5. /\ HwDistance(p, c) = IF Hw(p.first) <= Hw(p.second) THEN Hw(p.first) ELSE Hw(p.second)
      /\ HwDistance(q, c) = IF Hw(q.first) <= Hw(q.second) THEN Hw(q.first) ELSE Hw(q.second)
  BY <1>1, <1>2, LeastOfTwo DEF HwDistance
<1>6. QED
  BY <1>1, <1>2, <1>3, <1>4, <1>5
-----------------------------------------------------------------------------
(* The builder finds the two reads it looks for, so its epochs are epochs.    *)
LEMMA LeastOfSet ==
    ASSUME NEW T \in SUBSET Nat, T # {}
    PROVE  \E x \in T : \A y \in T : x <= y
<1>1. IsWellFoundedOn(OpToRel(<, Nat), Nat)
  BY NatLessThanWellFounded
<1>2. PICK x \in T : \A y \in T : ~ (<<y, x>> \in OpToRel(<, Nat))
  BY <1>1, WFMin
<1>3. ASSUME NEW y \in T PROVE x <= y
  <2>1. ~ (y < x)
    BY <1>2, <1>3 DEF OpToRel
  <2> QED
    BY <2>1
<1> QED
  BY <1>3

LEMMA NearestIsLeast ==
    ASSUME NEW A \in SUBSET (LineVertices \X Nat), A # {}
    PROVE  Nearest(A) \in A /\ \A b \in A : Nearest(A)[2] <= b[2]
<1> DEFINE T == {a[2] : a \in A}
<1>1. T \subseteq Nat /\ T # {}
  OBVIOUS
<1>2. PICK x \in T : \A y \in T : x <= y
  BY <1>1, LeastOfSet
<1>3. PICK a \in A : a[2] = x
  BY <1>2
<1>4. \A b \in A : a[2] <= b[2]
  BY <1>2, <1>3
<1> QED
  BY <1>4 DEF Nearest

LEMMA CurrentEpochTyped == ASSUME NEW u \in Vertices PROVE currentEpoch(u) \in Epochs
  BY QuotientBound, Constants DEF currentEpoch, Vertices, Epochs

LEMMA QuantizedTyped ==
    ASSUME NEW reader \in Vertices, NEW current \in Vertices, NEW wrapped \in BOOLEAN
    PROVE  quantizedFutureEpoch(reader, current, wrapped) \in Epochs
<1>1. currentEpoch(reader) \in Epochs /\ currentEpoch(current) \in Epochs
  BY CurrentEpochTyped
<1>2. (currentEpoch(current) + ne - 1) \in Nat
  BY <1>1, Constants DEF Epochs
<1>3. (currentEpoch(current) + ne - 1) % ne \in Epochs
  BY <1>2, RemainderBound, Constants DEF Epochs
<1>4. QED
  BY <1>1, <1>3 DEF quantizedFutureEpoch

LEMMA PlanTyped ==
    ASSUME readers \in [LineVertices -> SUBSET Vertices],
           NEW src \in Vertices, NEW w \in LineVertices, src \in readers[w]
    PROVE  /\ nextReusePlanForLine(src) \in Plans
           /\ NextTwo(src)[2] \in Nat /\ src <= NextTwo(src)[2]
<1> DEFINE A == Accesses(src)
<1>1. A \in SUBSET (LineVertices \X Nat)
  BY Constants DEF Accesses, Vertices
<1>2. <<w, src + n>> \in A /\ <<w, src + 2 * n>> \in A
  <2>1. src + n \in src + 1 .. src + 2 * n /\ src + 2 * n \in src + 1 .. src + 2 * n
    BY Constants DEF Vertices
  <2>2. (src + n) % n = src /\ (src + 2 * n) % n = src
    BY SameRemainder, Constants DEF Vertices
  <2>3. QED
    BY <2>1, <2>2 DEF Accesses
<1>3. <<w, src + n>> # <<w, src + 2 * n>>
  BY Constants DEF Vertices
<1>4. \A a \in A : a[2] \in Nat /\ src <= a[2]
  BY Constants DEF Accesses, Vertices
<1> HIDE DEF A
<1> DEFINE first == Nearest(A)
           second == Nearest(A \ {first})
<1>5. first \in A
  BY <1>1, <1>2, NearestIsLeast
<1>6. second \in A
  <2>1. A \ {first} \in SUBSET (LineVertices \X Nat) /\ A \ {first} # {}
    BY <1>1, <1>2, <1>3
  <2> HIDE DEF first
  <2>2. QED
    BY <2>1, NearestIsLeast
<1>7. NextTwo(src) = <<first[2], second[2]>>
  BY DEF NextTwo, A
<1> HIDE DEF first, second
<1>8. /\ NextTwo(src)[1] = first[2] /\ NextTwo(src)[2] = second[2]
      /\ first[2] \in Nat /\ second[2] \in Nat /\ src <= second[2]
  BY <1>4, <1>5, <1>6, <1>7
<1>9. \A p \in Nat : quantizedFutureEpoch(p % n, src, p >= n) \in Epochs
  <2> SUFFICES ASSUME NEW p \in Nat PROVE quantizedFutureEpoch(p % n, src, p >= n) \in Epochs
    OBVIOUS
  <2>1. p % n \in Vertices
    BY RemainderBound, Constants DEF Vertices
  <2>2. (p >= n) \in BOOLEAN
    BY Constants
  <2>3. QED
    BY <2>1, <2>2, QuantizedTyped
<1>10. QED
  BY <1>8, <1>9 DEF nextReusePlanForLine, Plans
-----------------------------------------------------------------------------
(* The vertices of the line still to be read are read by the present vertex.  *)
IInv == TypeOK /\ pending \subseteq ReadBy(position % n)

LEMMA InitIInv == Init => IInv
<1> SUFFICES ASSUME Init PROVE IInv
  OBVIOUS
<1>1. 0 % n = 0
  BY Constants, WrapOnce
<1>2. plan \in Plans
  BY Constants DEF Init, Plans, Epochs
<1>3. pending = ReadBy(position % n)
  BY <1>1 DEF Init
<1>4. position \in 0 .. MaxPosition /\ at \in 0 .. position /\ until \in Nat
  BY Constants DEF Init
<1>5. pending \subseteq LineVertices
  BY <1>3 DEF ReadBy
<1>6. QED
  BY <1>2, <1>3, <1>4, <1>5 DEF Init, IInv, TypeOK

LEMMA StepIInv == IInv /\ [Next]_vars => IInv'
<1> SUFFICES ASSUME IInv, [Next]_vars PROVE IInv'
  OBVIOUS
<1> USE DEF IInv
<1>1. position \in Nat /\ position % n \in Vertices /\ position % n <= position
  <2>1. position \in Nat
    BY Constants DEF TypeOK
  <2>2. QED
    BY <2>1, RemainderBound, Constants DEF Vertices
<1>2. ASSUME NEW w \in LineVertices, Deliver(w) PROVE IInv'
  <2>1. position % n \in readers[w]
    BY <1>2 DEF Deliver, ReadBy
  <2>2. /\ nextReusePlanForLine(position % n) \in Plans
        /\ NextTwo(position % n)[2] \in Nat /\ position % n <= NextTwo(position % n)[2]
    BY <1>1, <2>1, PlanTyped DEF TypeOK
  <2>3. plan' \in Plans /\ until' \in Nat
    BY <1>1, <1>2, <2>2, Constants DEF Deliver, Vertices
  <2>4. /\ readers' \in [LineVertices -> SUBSET Vertices]
        /\ position' \in 0 .. MaxPosition
        /\ pending' \subseteq LineVertices
        /\ stamped' \in BOOLEAN
        /\ at' \in 0 .. position'
    BY <1>1, <1>2 DEF Deliver, TypeOK
  <2>5. pending' \subseteq ReadBy(position % n)'
    BY <1>2 DEF Deliver, ReadBy
  <2>6. QED
    BY <2>3, <2>4, <2>5 DEF TypeOK
<1>3. ASSUME NEW w \in LineVertices, Filtered(w) PROVE IInv'
  BY <1>3 DEF Filtered, TypeOK, ReadBy
<1>4. CASE Visit
  <2>1. position' \in 0 .. MaxPosition /\ at' \in 0 .. position'
    BY <1>1, <1>4, Constants DEF Visit, TypeOK
  <2>2. pending' = ReadBy(position % n)'
    BY <1>4 DEF Visit, ReadBy
  <2>3. QED
    BY <1>4, <2>1, <2>2 DEF Visit, TypeOK, ReadBy
<1>5. CASE UNCHANGED vars
  BY <1>5 DEF vars, TypeOK, ReadBy
<1>6. QED
  BY <1>2, <1>3, <1>4, <1>5 DEF Next

(* Every record of a reachable state has two epochs of the sweep, and a       *)
(* vertex that reads the line is always given one (nextReusePlanForLine).     *)
THEOREM TypeHolds == Spec => []TypeOK
<1>1. IInv => TypeOK
  BY DEF IInv
<1>2. QED
  BY InitIInv, StepIInv, <1>1, PTL DEF Spec

(* The hardware need not know the number of epochs: whatever it is, its own   *)
(* subtraction ranks the record of the line against any other as the software *)
(* ranks it (reuse_plan_static_replacement_path, reusePlanDistance).          *)
THEOREM HardwareOrderHolds == Spec => []HardwareOrder
<1>1. IInv => HardwareOrder
  <2> SUFFICES ASSUME IInv, NEW q \in Plans
               PROVE  HwDistance(plan, CurrentEpoch) < HwDistance(q, CurrentEpoch)
                          <=> Distance < reusePlanDistance(q, CurrentEpoch)
    BY DEF HardwareOrder
  <2>1. position % n \in Vertices /\ plan \in Plans
    BY RemainderBound, Constants DEF IInv, TypeOK, Vertices
  <2>2. CurrentEpoch \in Epochs
    BY <2>1, CurrentEpochTyped DEF CurrentEpoch
  <2>3. QED
    BY <2>1, <2>2, RankingsAgree DEF Distance
<1>2. QED
  BY InitIInv, StepIInv, <1>1, PTL DEF Spec
-----------------------------------------------------------------------------
(* Admission.                                                                 *)
LEMMA RoundsUp ==
    ASSUME NEW m \in Nat \ {0}, NEW r \in Nat \ {0}
    PROVE  /\ \A d \in 0 .. m : (d * r + m - 1) \div m \in Nat
           /\ \A d, e \in 0 .. m : d <= e => (d * r + m - 1) \div m <= (e * r + m - 1) \div m
           /\ \A d \in 0 .. m : (d * r + m - 1) \div m = 0 <=> d = 0
           /\ (m * r + m - 1) \div m = r
<1> DEFINE Up(d) == (d * r + m - 1) \div m
<1>1. \A d \in 0 .. m : d * r \in Nat
  BY SMT
<1>2. \A x \in Nat : x \div m \in Nat /\ m * (x \div m) <= x /\ x < m * (x \div m) + m
  BY SMT
<1>3. ASSUME NEW x \in Nat, NEW y \in Nat, x <= y
      PROVE  x \div m <= y \div m
  <2> DEFINE p == x \div m
             q == y \div m
  <2>1. p \in Nat /\ q \in Nat /\ m * p <= x /\ y < m * q + m
    BY <1>2
  <2> HIDE DEF p, q
  <2>2. SUFFICES ASSUME q < p PROVE FALSE
    BY <2>1, SMT DEF p, q
  <2>3. m * p >= m * (q + 1) /\ m * (q + 1) = m * q + m
    BY <2>1, <2>2, SMT
  <2> QED
    BY <1>3, <2>1, <2>3, SMT
<1>4. \A d \in 0 .. m : Up(d) \in Nat
  BY <1>1, <1>2
<1>5. ASSUME NEW d \in 0 .. m, NEW e \in 0 .. m, d <= e PROVE Up(d) <= Up(e)
  <2>1. d * r <= e * r
    BY <1>5, SMT
  <2>2. d * r \in Nat /\ e * r \in Nat
    BY <1>1
  <2> DEFINE x == d * r
             y == e * r
  <2>3. x \in Nat /\ y \in Nat /\ x <= y
    BY <2>1, <2>2
  <2> HIDE DEF x, y
  <2>4. x + m - 1 \in Nat /\ y + m - 1 \in Nat /\ x + m - 1 <= y + m - 1
    BY <2>3, SMT
  <2>5. (x + m - 1) \div m <= (y + m - 1) \div m
    BY <1>3, <2>4
  <2> QED
    BY <2>5 DEF x, y
<1>6. (0 * r + m - 1) \div m = 0
  BY SMT
<1>7. ASSUME NEW d \in 1 .. m PROVE Up(d) # 0
  <2>1. d * r >= 1 /\ d * r \in Nat
    BY SMT
  <2> DEFINE x == d * r
  <2>2. x \in Nat /\ x >= 1
    BY <2>1
  <2> HIDE DEF x
  <2>3. (x + m - 1) \div m # 0
    BY <2>2, SMT
  <2> QED
    BY <2>3 DEF x
<1>8. Up(m) = r
  <2> DEFINE x == m * r + m - 1
             q == x \div m
  <2>1. x \in Nat /\ m * r \in Nat
    BY SMT
  <2>2. q \in Nat /\ m * q <= x /\ x < m * q + m
    BY <1>2, <2>1
  <2>3. x = m * r + m - 1
    OBVIOUS
  <2> HIDE DEF x, q
  <2>4. CASE q > r
    <3>1. m * q >= m * (r + 1) /\ m * (r + 1) = m * r + m
      BY <2>2, <2>4, SMT
    <3> QED
      BY <2>1, <2>2, <2>3, <3>1, SMT
  <2>5. CASE q < r
    <3>1. m * r >= m * (q + 1) /\ m * (q + 1) = m * q + m
      BY <2>2, <2>5, SMT
    <3> QED
      BY <2>1, <2>2, <2>3, <3>1, SMT
  <2> QED
    BY <2>2, <2>4, <2>5, SMT DEF x, q
<1>9. ASSUME NEW d \in 0 .. m PROVE Up(d) = 0 <=> d = 0
  <2>1. CASE d = 0
    BY <1>6, <2>1
  <2>2. CASE d # 0
    <3>1. d \in 1 .. m
      BY <2>2
    <3> QED
      BY <1>7, <2>2, <3>1
  <2> QED
    BY <2>1, <2>2
<1> QED
  BY <1>4, <1>5, <1>8, <1>9

LEMMA DistanceTyped ==
    ASSUME NEW e \in Epochs, NEW c \in Epochs
    PROVE  epochDistance(e, c) \in 0 .. ne - 1
<1>1. epochDistance(e, c) = IF c <= e THEN e - c ELSE e - c + ne
  BY SoftwareWraps
<1>2. e \in 0 .. ne - 1 /\ c \in 0 .. ne - 1 /\ ne \in Nat
  BY Constants DEF Epochs
<1> QED
  BY <1>1, <1>2

(* Rounding up keeps a use in the current epoch apart from every later one,   *)
(* and the lower bound never cuts anything off but at the farthest distance   *)
(* (reuseAdmissionRRPV), for any number of epochs and any RRPV width.         *)
THEOREM AdmissionHolds == Spec => []AdmissionKeepsOrder
<1>1. IInv => AdmissionKeepsOrder
  <2> SUFFICES ASSUME IInv, NEW e1 \in Epochs, NEW e2 \in Epochs
               PROVE  LET d1 == epochDistance(e1, CurrentEpoch)
                          d2 == epochDistance(e2, CurrentEpoch)
                          r1 == reuseAdmissionRRPV(e1, CurrentEpoch)
                          r2 == reuseAdmissionRRPV(e2, CurrentEpoch)
                      IN  /\ d1 <= d2 => r1 <= r2
                          /\ r1 = 0 <=> d1 = 0
                          /\ d1 = ne - 1 => r1 = rrpvMax
    BY DEF AdmissionKeepsOrder
  <2> DEFINE c == CurrentEpoch
             m == ne - 1
             Up(d) == (d * rrpvMax + m - 1) \div m
             d1 == epochDistance(e1, c)
             d2 == epochDistance(e2, c)
  <2>1. c \in Epochs
    <3>1. position % n \in Vertices
      BY RemainderBound, Constants DEF IInv, TypeOK, Vertices
    <3> QED
      BY <3>1, CurrentEpochTyped DEF CurrentEpoch
  <2>2. m \in Nat \ {0} /\ rrpvMax \in Nat \ {0}
    BY Constants, RrpvAssumption
  <2>3. d1 \in 0 .. m /\ d2 \in 0 .. m
    BY <2>1, DistanceTyped
  <2>4. /\ reuseAdmissionRRPV(e1, c) = Least({Up(d1), rrpvMax})
        /\ reuseAdmissionRRPV(e2, c) = Least({Up(d2), rrpvMax})
    <3>1. \A d \in 0 .. m : d * rrpvMax + ne - 2 = d * rrpvMax + m - 1
      BY <2>2, Constants, SMT
    <3> QED
      BY <2>3, <3>1 DEF reuseAdmissionRRPV
  <2> HIDE DEF c, m, d1, d2
  <2>5. /\ \A d \in 0 .. m : Up(d) \in Nat
        /\ \A d, e \in 0 .. m : d <= e => Up(d) <= Up(e)
        /\ \A d \in 0 .. m : Up(d) = 0 <=> d = 0
        /\ Up(m) = rrpvMax
    BY <2>2, RoundsUp
  <2> HIDE DEF Up
  <2>6. /\ Least({Up(d1), rrpvMax}) = IF Up(d1) <= rrpvMax THEN Up(d1) ELSE rrpvMax
        /\ Least({Up(d2), rrpvMax}) = IF Up(d2) <= rrpvMax THEN Up(d2) ELSE rrpvMax
    BY <2>2, <2>3, <2>5, LeastOfTwo
  <2>7. /\ Up(d1) \in Nat /\ Up(d2) \in Nat
        /\ d1 <= d2 => Up(d1) <= Up(d2)
        /\ Up(d1) = 0 <=> d1 = 0
        /\ d1 = m => Up(d1) = rrpvMax
    BY <2>3, <2>5
  <2>8. /\ d1 <= d2 => reuseAdmissionRRPV(e1, c) <= reuseAdmissionRRPV(e2, c)
        /\ reuseAdmissionRRPV(e1, c) = 0 <=> d1 = 0
        /\ d1 = m => reuseAdmissionRRPV(e1, c) = rrpvMax
    BY <2>2, <2>4, <2>6, <2>7
  <2> QED
    BY <2>8 DEF c, m, d1, d2
<1>2. QED
  BY <1>1, InitIInv, StepIInv, PTL DEF Spec
-----------------------------------------------------------------------------
(* Sweeps: position p is vertex p % n of sweep p \div n, and its epoch counts *)
(* on from one sweep to the next.                                             *)
LEMMA DivisionUnique ==
    ASSUME NEW m \in Nat \ {0}, NEW x \in Nat, NEW q \in Int, NEW r \in 0 .. m - 1,
           x = m * q + r
    PROVE  x % m = r /\ x \div m = q
<1> DEFINE p == x \div m
           s == x % m
<1>1. s \in 0 .. m - 1 /\ p \in Int /\ x = m * p + s
  BY SMT
<1> HIDE DEF p, s
<1>2. CASE q > p
  <2>1. m * q >= m * (p + 1) /\ m * (p + 1) = m * p + m
    BY <1>1, <1>2, SMT
  <2> QED
    BY <1>1, <2>1, SMT
<1>3. CASE q < p
  <2>1. m * p >= m * (q + 1) /\ m * (q + 1) = m * q + m
    BY <1>1, <1>3, SMT
  <2> QED
    BY <1>1, <2>1, SMT
<1>4. CASE q = p
  BY <1>1, <1>4, SMT DEF p, s
<1> QED
  BY <1>1, <1>2, <1>3, <1>4, SMT

LEMMA DivisionBy ==
    ASSUME NEW m \in Nat \ {0}, NEW x \in Nat
    PROVE  /\ x % m \in 0 .. m - 1 /\ x \div m \in Nat /\ x = m * (x \div m) + (x % m)
           /\ m * (x \div m) \in Nat
  BY SMT

LEMMA Division ==
    ASSUME NEW p \in Nat
    PROVE  /\ p % n \in Vertices /\ p % n \in 0 .. n - 1
           /\ p \div n \in Nat /\ p = n * (p \div n) + (p % n)
           /\ n * (p \div n) \in Nat
<1>1. n \in Nat \ {0}
  BY Constants
<1>2. /\ p % n \in 0 .. n - 1 /\ p \div n \in Nat /\ p = n * (p \div n) + (p % n)
      /\ n * (p \div n) \in Nat
  BY <1>1, DivisionBy
<1> QED
  BY <1>2, Zenon DEF Vertices

LEMMA LaterSweep ==
    ASSUME NEW l \in Nat, NEW k \in Nat
    PROVE  (l + n * k) % n = l % n /\ (l + n * k) \div n = l \div n + k
<1> DEFINE q == l \div n
           r == l % n
           x == l + n * k
<1>1. r \in 0 .. n - 1 /\ q \in Nat /\ l = n * q + r
  BY Division, Zenon
<1>2. n * k \in Nat /\ n \in Nat \ {0}
  BY Constants, SMT
<1>3. x \in Nat /\ x = l + n * k
  BY <1>2
<1> HIDE DEF q, r, x
<1>4. x = n * (q + k) + r
  <2>1. n * (q + k) = n * q + n * k
    BY <1>1, <1>2, SMT
  <2> QED
    BY <1>1, <1>2, <1>3, <2>1, SMT
<1>5. q + k \in Int
  BY <1>1
<1>6. x % n = r /\ x \div n = q + k
  BY <1>1, <1>2, <1>3, <1>4, <1>5, DivisionUnique
<1> QED
  BY <1>6 DEF q, r, x

LEMMA EpochOrder ==
    ASSUME NEW u \in Vertices, NEW v \in Vertices, u <= v
    PROVE  currentEpoch(u) <= currentEpoch(v)
<1> DEFINE x == u * ne
           y == v * ne
           p == x \div n
           q == y \div n
<1>1. u \in Nat /\ v \in Nat /\ ne \in Nat /\ n \in Nat \ {0}
  BY Constants DEF Vertices
<1>2. x \in Nat /\ y \in Nat /\ x <= y
  BY <1>1, SMT
<1> HIDE DEF x, y
<1>3. p \in Nat /\ q \in Nat /\ n * p <= x /\ y < n * q + n
  BY <1>1, <1>2, SMT
<1> HIDE DEF p, q
<1>4. p <= q
  <2> SUFFICES ASSUME q < p PROVE FALSE
    BY <1>3
  <2>1. n * p >= n * (q + 1) /\ n * (q + 1) = n * q + n
    BY <1>1, <1>3, SMT
  <2> QED
    BY <1>1, <1>2, <1>3, <2>1, SMT
<1> QED
  BY <1>4 DEF p, q, x, y, currentEpoch

LEMMA EpochAtTyped ==
    ASSUME NEW p \in Nat
    PROVE  /\ currentEpoch(p % n) \in 0 .. ne - 1 /\ p \div n \in Nat
           /\ ne * (p \div n) \in Nat
           /\ EpochAt(p) = ne * (p \div n) + currentEpoch(p % n) /\ EpochAt(p) \in Nat
<1>1. currentEpoch(p % n) \in 0 .. ne - 1 /\ p \div n \in Nat
  BY Division, CurrentEpochTyped DEF Epochs
<1> DEFINE k == p \div n
           c == currentEpoch(p % n)
<1>2. EpochAt(p) = ne * k + c
  BY DEF EpochAt
<1>3. k \in Nat /\ c \in Nat
  BY <1>1
<1> HIDE DEF k, c
<1>4. ne * k \in Nat /\ ne * k + c \in Nat
  BY <1>3, Constants, SMT
<1> QED
  BY <1>1, <1>2, <1>4 DEF k, c

LEMMA EpochAtOrder ==
    ASSUME NEW p \in Nat, NEW q \in Nat, p <= q
    PROVE  EpochAt(p) <= EpochAt(q)
<1> DEFINE i == p \div n
           j == q \div n
           u == p % n
           v == q % n
           c == currentEpoch(u)
           d == currentEpoch(v)
<1>1. /\ u \in 0 .. n - 1 /\ v \in 0 .. n - 1 /\ i \in Nat /\ j \in Nat
      /\ p = n * i + u /\ q = n * j + v
  BY Division, Zenon
<1>2. c \in 0 .. ne - 1 /\ d \in 0 .. ne - 1
  BY EpochAtTyped
<1>3. u <= v => c <= d
  BY Division, EpochOrder
<1>4. EpochAt(p) = ne * i + c /\ EpochAt(q) = ne * j + d
  BY DEF EpochAt
<1> HIDE DEF i, j, u, v, c, d
<1>5. n \in Nat \ {0} /\ ne \in Nat \ {0}
  BY Constants
<1>6. CASE j < i
  <2>1. n * i >= n * (j + 1) /\ n * (j + 1) = n * j + n
    BY <1>1, <1>5, <1>6, SMT
  <2> QED
    BY <1>1, <1>5, <2>1, SMT
<1>7. CASE i = j
  <2>1. c <= d
    BY <1>1, <1>3, <1>5, <1>7, SMT
  <2> QED
    BY <1>1, <1>2, <1>4, <1>5, <1>7, <2>1, SMT
<1>8. CASE i < j
  <2>1. ne * j >= ne * (i + 1) /\ ne * (i + 1) = ne * i + ne
    BY <1>1, <1>5, <1>8, SMT
  <2> QED
    BY <1>1, <1>2, <1>4, <1>5, <2>1, SMT
<1> QED
  BY <1>1, <1>6, <1>7, <1>8

LEMMA EpochAtNextSweep ==
    ASSUME NEW p \in Nat
    PROVE  EpochAt(p + n) = EpochAt(p) + ne
<1> DEFINE k == p \div n
           c == currentEpoch(p % n)
<1>1. (p + n * 1) % n = p % n /\ (p + n * 1) \div n = k + 1
  BY LaterSweep
<1>2. n * 1 = n
  BY Constants
<1>3. EpochAt(p + n) = ne * (k + 1) + c /\ EpochAt(p) = ne * k + c
  BY <1>1, <1>2 DEF EpochAt
<1>4. k \in Nat /\ c \in 0 .. ne - 1
  BY EpochAtTyped
<1> HIDE DEF k, c
<1>5. ne \in Nat
  BY Constants
<1>6. ne * (k + 1) = ne * k + ne /\ ne * k \in Nat
  BY <1>4, <1>5, SMT
<1> QED
  BY <1>3, <1>4, <1>5, <1>6
-----------------------------------------------------------------------------
(* What a stored epoch tells.                                                 *)

(* An epoch of a record delivered at a, for the read at p: it is that of the  *)
(* read, or one less where it had to be told from an epoch of a's own sweep.  *)
Slack(a, p) ==
    IF a \div n < p \div n /\ currentEpoch(p % n) = currentEpoch(a % n) THEN 1 ELSE 0

Stored(e, a, p) ==
    e \in Epochs /\ \E k \in Int : e = EpochAt(p) - Slack(a, p) + ne * k

LEMMA Congruent ==
    ASSUME NEW m \in Nat \ {0}, NEW d \in 0 .. m - 1, NEW y \in Int, NEW k \in Int,
           d = y + m * k
    PROVE  /\ y \in 0 .. m - 1 => d = y
           /\ y \in (- m) .. (- 1) => d = y + m
           /\ y \in m .. 2 * m - 1 => d = y - m
           /\ y >= 0 => d <= y
<1>1. CASE k >= 2
  <2>1. m * k >= m * 2
    BY <1>1, SMT
  <2> QED
    BY <2>1, SMT
<1>2. CASE k = 1
  BY <1>2, SMT
<1>3. CASE k = 0
  BY <1>3, SMT
<1>4. CASE k = -1
  <2>1. m * k = - m
    BY <1>4, SMT
  <2> QED
    BY <2>1, SMT
<1>5. CASE k <= -2
  <2>1. m * k <= m * (-2) /\ m * (-2) = - (2 * m)
    BY <1>5, SMT
  <2> QED
    BY <2>1, SMT
<1> QED
  BY <1>1, <1>2, <1>3, <1>4, <1>5

LEMMA StoredDistance ==
    ASSUME NEW a \in Nat, NEW p \in Nat, NEW u \in Nat, NEW e, Stored(e, a, p),
           NEW d, d = epochDistance(e, currentEpoch(u % n)),
           NEW y, y = EpochAt(p) - EpochAt(u) - Slack(a, p)
    PROVE  /\ d \in 0 .. ne - 1 /\ y \in Int
           /\ y \in 0 .. ne - 1 => d = y
           /\ y \in (- ne) .. (- 1) => d = y + ne
           /\ y \in ne .. 2 * ne - 1 => d = y - ne
           /\ y >= 0 => d <= y
<1> DEFINE c == currentEpoch(u % n)
           j == u \div n
           x == EpochAt(p)
           z == EpochAt(u)
           b == Slack(a, p)
<1>1. c \in 0 .. ne - 1 /\ j \in Nat /\ z = ne * j + c /\ z \in Nat /\ x \in Nat
  BY EpochAtTyped
<1>2. b \in {0, 1}
  BY DEF Slack
<1>3. c \in Epochs /\ e \in Epochs /\ e \in Int
  BY <1>1, Constants DEF Epochs, Stored
<1>4. PICK k \in Int : e = x - b + ne * k
  BY DEF Stored
<1>5. d = IF c <= e THEN e - c ELSE e - c + ne
  BY <1>3, SoftwareWraps
<1>6. d \in 0 .. ne - 1
  BY <1>3, DistanceTyped
<1>7. y = x - z - b
  OBVIOUS
<1> HIDE DEF c, j, x, z, b
<1>8. ne \in Nat \ {0} /\ y \in Int
  BY <1>1, <1>2, <1>7, Constants
<1>9. ne * (k + j) = ne * k + ne * j /\ ne * (k + j + 1) = ne * k + ne * j + ne
      /\ ne * k \in Int /\ ne * j \in Int
  BY <1>1, <1>8, SMT
<1>10. d = y + ne * (k + j) \/ d = y + ne * (k + j + 1)
  BY <1>1, <1>2, <1>3, <1>4, <1>5, <1>7, <1>8, <1>9, SMT
<1>11. k + j \in Int /\ k + j + 1 \in Int
  BY <1>1
<1> QED
  BY <1>6, <1>8, <1>10, <1>11, Congruent

(* Within a sweep of the delivery the epoch is one less exactly where it would *)
(* have been the delivery's own.                                              *)
LEMMA SlackTells ==
    ASSUME NEW a \in Nat, NEW p \in Nat, a <= p, p <= a + n,
           NEW x, x = EpochAt(p) - EpochAt(a)
    PROVE  x \in 0 .. ne /\ Slack(a, p) = IF x = ne THEN 1 ELSE 0
<1> DEFINE i == p \div n
           j == a \div n
           c == currentEpoch(p % n)
           d == currentEpoch(a % n)
<1>1. /\ c \in 0 .. ne - 1 /\ d \in 0 .. ne - 1 /\ i \in Nat /\ j \in Nat
      /\ EpochAt(p) = ne * i + c /\ EpochAt(a) = ne * j + d
      /\ EpochAt(p) \in Nat /\ EpochAt(a) \in Nat
  BY EpochAtTyped
<1>2. EpochAt(a) <= EpochAt(p)
  BY EpochAtOrder
<1>3. EpochAt(p) <= EpochAt(a) + ne
  <2>1. a + n \in Nat
    BY Constants
  <2> QED
    BY <2>1, EpochAtOrder, EpochAtNextSweep
<1>4. x \in 0 .. ne
  BY <1>1, <1>2, <1>3, Constants
<1>5. Slack(a, p) = IF j < i /\ c = d THEN 1 ELSE 0
  BY DEF Slack
<1> HIDE DEF i, j, c, d
<1>6. ne \in Nat \ {0}
  BY Constants
<1>7. ASSUME j < i, c = d PROVE x = ne
  <2>1. ne * i >= ne * (j + 1) /\ ne * (j + 1) = ne * j + ne
    BY <1>1, <1>6, <1>7, SMT
  <2> QED
    BY <1>1, <1>4, <1>6, <1>7, <2>1, SMT
<1>8. ASSUME x = ne PROVE j < i /\ c = d
  <2>1. CASE i <= j
    <3>1. ne * i <= ne * j
      BY <1>1, <1>6, <2>1, SMT
    <3> QED
      BY <1>1, <1>6, <1>8, <3>1, SMT
  <2>2. CASE i = j + 1
    <3>1. ne * (j + 1) = ne * j + ne
      BY <1>1, <1>6, SMT
    <3> QED
      BY <1>1, <1>6, <1>8, <2>2, <3>1, SMT
  <2>3. CASE i >= j + 2
    <3>1. ne * i >= ne * (j + 2) /\ ne * (j + 2) = ne * j + 2 * ne
      BY <1>1, <1>6, <2>3, SMT
    <3> QED
      BY <1>1, <1>6, <1>8, <3>1, SMT
  <2> QED
    BY <1>1, <2>1, <2>2, <2>3, SMT
<1> QED
  BY <1>4, <1>5, <1>7, <1>8

(* The epoch the builder stores for a read it found.                          *)
LEMMA QuantizedIsStored ==
    ASSUME NEW u \in Nat, NEW l \in Nat, NEW p, p = l + n * (u \div n)
    PROVE  Stored(quantizedFutureEpoch(l % n, u % n, l >= n), u, p)
<1> DEFINE c == currentEpoch(l % n)
           d == currentEpoch(u % n)
           i == l \div n
           j == u \div n
           e == quantizedFutureEpoch(l % n, u % n, l >= n)
<1>1. j \in Nat /\ i \in Nat /\ c \in 0 .. ne - 1 /\ d \in 0 .. ne - 1
  BY EpochAtTyped
<1>2. p \in Nat
  BY <1>1, Constants, Division
<1>3. p % n = l % n /\ p \div n = i + j
  BY <1>1, LaterSweep
<1>4. l >= n <=> i >= 1
  <2> DEFINE r == l % n
  <2>2. l = n * i + r /\ r \in 0 .. n - 1
    BY Division, Zenon
  <2> HIDE DEF i, r
  <2>3. n \in Nat \ {0}
    BY Constants
  <2>4. i >= 1 => n * i >= n
    BY <1>1, <2>3, SMT
  <2>5. i = 0 => n * i = 0
    BY <2>3, SMT
  <2> QED
    BY <1>1, <2>2, <2>3, <2>4, <2>5, SMT
<1>5. /\ EpochAt(p) = ne * (i + j) + c
      /\ Slack(u, p) = IF i >= 1 /\ c = d THEN 1 ELSE 0
  <2>1. EpochAt(p) = ne * (i + j) + c
    BY <1>3 DEF EpochAt
  <2>2. j < i + j <=> i >= 1
    BY <1>1
  <2> QED
    BY <1>3, <2>1, <2>2 DEF Slack
<1>6. e = IF i >= 1 /\ c = d THEN (d + ne - 1) % ne ELSE c
  BY <1>4 DEF quantizedFutureEpoch
<1> HIDE DEF c, d, i, j, e
<1>7. ne \in Nat \ {0} /\ 2 <= ne /\ - (i + j) \in Int /\ 1 - (i + j) \in Int
  BY <1>1, Constants
<1>8. /\ ne * (- (i + j)) = - (ne * (i + j)) /\ ne * (1 - (i + j)) = ne - ne * (i + j)
      /\ ne * (i + j) \in Int
  BY <1>1, <1>7, SMT
<1>9. CASE ~ (i >= 1 /\ c = d)
  <2>1. e \in Epochs /\ e = EpochAt(p) - Slack(u, p) + ne * (- (i + j))
    BY <1>1, <1>5, <1>6, <1>7, <1>8, <1>9 DEF Epochs
  <2> QED
    BY <1>7, <2>1 DEF Stored, e
<1>10. CASE i >= 1 /\ c = d
  <2> DEFINE x == d + ne - 1
  <2>1. x \in Int /\ - ne <= x /\ x < 2 * ne /\ x >= 0
    BY <1>1, <1>7
  <2> HIDE DEF x
  <2>2. x % ne = IF x < 0 THEN x + ne ELSE IF x < ne THEN x ELSE x - ne
    BY <1>7, <2>1, WrapOnce
  <2>3. e = IF d + ne - 1 < ne THEN d + ne - 1 ELSE d - 1
    BY <1>1, <1>6, <1>7, <1>10, <2>1, <2>2 DEF x
  <2>4. e \in Epochs
    BY <1>1, <1>7, <2>3 DEF Epochs
  <2>5. CASE d = 0
    <3>1. e = EpochAt(p) - Slack(u, p) + ne * (1 - (i + j))
      BY <1>1, <1>5, <1>7, <1>8, <1>10, <2>3, <2>5
    <3> QED
      BY <1>7, <2>4, <3>1 DEF Stored, e
  <2>6. CASE d # 0
    <3>1. e = EpochAt(p) - Slack(u, p) + ne * (- (i + j))
      BY <1>1, <1>5, <1>7, <1>8, <1>10, <2>3, <2>6
    <3> QED
      BY <1>7, <2>4, <3>1 DEF Stored, e
  <2> QED
    BY <2>5, <2>6
<1> QED
  BY <1>9, <1>10
-----------------------------------------------------------------------------
(* The two reads a record stands for.                                         *)

(* p and q are the next two reads after a: no other read comes before q, and  *)
(* the reader at a reads again a sweep later.                                 *)
NextReads(a, p, q) ==
    /\ p \in Nat /\ q \in Nat /\ a < p /\ p <= q
    /\ p <= a + n /\ q <= p + n
    /\ q <= a + n \/ (p = a + n /\ q = a + 2 * n)
    /\ ReadBy(p % n) # {}
    /\ \A r \in a + 1 .. q : ReadBy(r % n) # {} => r = p \/ r = q

Promised(p, q) ==
    /\ NextReads(at, p, q) /\ q = until
    /\ Stored(plan.first, at, p) /\ Stored(plan.second, at, q)

PlanInv == stamped => \E p, q \in Nat : Promised(p, q)

(* nextReusePlanForLine finds them.                                           *)
LEMMA BuilderLooksAhead ==
    ASSUME readers \in [LineVertices -> SUBSET Vertices],
           NEW src \in Vertices, NEW w \in LineVertices, src \in readers[w]
    PROVE  NextReads(src, NextTwo(src)[1], NextTwo(src)[2])
<1> DEFINE A == Accesses(src)
<1>1. A \in SUBSET (LineVertices \X Nat)
  BY Constants DEF Accesses, Vertices
<1>2. src \in Nat /\ n \in Nat \ {0} /\ src < n
  BY Constants DEF Vertices
<1>3. <<w, src + n>> \in A /\ <<w, src + 2 * n>> \in A
  <2>1. src + n \in src + 1 .. src + 2 * n /\ src + 2 * n \in src + 1 .. src + 2 * n
    BY <1>2
  <2>2. (src + n) % n = src /\ (src + 2 * n) % n = src
    BY <1>2, SameRemainder
  <2> QED
    BY <2>1, <2>2 DEF Accesses
<1>4. <<w, src + n>> # <<w, src + 2 * n>>
  BY <1>2
<1>5. \A a \in A : /\ a[1] \in LineVertices /\ a[2] \in src + 1 .. src + 2 * n
                   /\ a = <<a[1], a[2]>> /\ a[2] % n \in readers[a[1]]
  BY DEF Accesses
<1>6. \A v \in LineVertices : \A r \in src + 1 .. src + 2 * n :
          r % n \in readers[v] => <<v, r>> \in A
  BY DEF Accesses
<1> HIDE DEF A
<1> DEFINE first == Nearest(A)
           second == Nearest(A \ {first})
<1>7. first \in A /\ \A b \in A : first[2] <= b[2]
  BY <1>1, <1>3, NearestIsLeast
<1>8. second \in A \ {first} /\ \A b \in A \ {first} : second[2] <= b[2]
  <2>1. A \ {first} \in SUBSET (LineVertices \X Nat) /\ A \ {first} # {}
    BY <1>1, <1>3, <1>4
  <2> HIDE DEF first
  <2> QED
    BY <2>1, NearestIsLeast
<1>9. NextTwo(src) = <<first[2], second[2]>>
  BY DEF NextTwo, A
<1> HIDE DEF first, second
<1> DEFINE p == first[2]
           q == second[2]
<1>10. p \in src + 1 .. src + 2 * n /\ q \in src + 1 .. src + 2 * n /\ p <= q
  BY <1>5, <1>7, <1>8
<1>11. p <= src + n
  BY <1>3, <1>7
<1>12. \A r \in Nat : (r + n) % n = r % n
  <2> SUFFICES ASSUME NEW r \in Nat PROVE (r + n) % n = r % n
    OBVIOUS
  <2>1. (r + n * 1) % n = r % n
    BY LaterSweep
  <2> QED
    BY <1>2, <2>1
<1>13. q <= p + n
  <2>1. p + n \in src + 1 .. src + 2 * n /\ p \in Nat
    BY <1>2, <1>10, <1>11
  <2>2. <<first[1], p + n>> \in A
    BY <1>5, <1>6, <1>7, <1>12, <2>1
  <2>3. <<first[1], p + n>> # first
    BY <1>2, <1>5, <1>7, <2>1
  <2> QED
    BY <1>8, <2>2, <2>3
<1>14. q <= src + n \/ (p = src + n /\ q = src + 2 * n)
  <2> SUFFICES ASSUME q > src + n PROVE p = src + n /\ q = src + 2 * n
    BY <1>2, <1>10
  <2>1. <<w, src + n>> = first
    BY <1>2, <1>3, <1>8, <1>10
  <2>2. p = src + n
    BY <2>1
  <2> DEFINE r == q - n
  <2>3. r \in Nat /\ r \in src + 1 .. src + 2 * n /\ r + n = q
    BY <1>2, <1>10
  <2>4. r % n \in readers[second[1]]
    BY <1>5, <1>8, <1>12, <2>3
  <2>5. <<second[1], r>> \in A
    BY <1>5, <1>6, <1>8, <2>3, <2>4
  <2>6. p <= r
    BY <1>7, <2>5
  <2>7. q \in src + 1 .. src + 2 * n
    BY <1>10
  <2> HIDE DEF p, q
  <2> QED
    BY <1>2, <2>2, <2>3, <2>6, <2>7
<1>15. ReadBy(p % n) # {}
  BY <1>5, <1>7 DEF ReadBy
<1>16. ASSUME NEW r \in src + 1 .. q, ReadBy(r % n) # {} PROVE r = p \/ r = q
  <2>1. r \in src + 1 .. src + 2 * n
    BY <1>2, <1>10
  <2>2. PICK v \in LineVertices : r % n \in readers[v]
    BY <1>16 DEF ReadBy
  <2>3. <<v, r>> \in A
    BY <1>6, <2>1, <2>2
  <2>4. CASE <<v, r>> = first
    BY <2>4
  <2>5. CASE <<v, r>> # first
    BY <1>8, <1>10, <2>1, <2>3, <2>5
  <2> QED
    BY <2>4, <2>5
<1>17. p \in Nat /\ q \in Nat /\ src < p
  BY <1>2, <1>10
<1>18. NextTwo(src)[1] = p /\ NextTwo(src)[2] = q
  BY <1>9
<1> HIDE DEF p, q
<1> QED
  BY <1>10, <1>11, <1>13, <1>14, <1>15, <1>16, <1>17, <1>18 DEF NextReads

(* The builder looks them up in the first sweep; they recur in every sweep.   *)
LEMMA ReadsRecur ==
    ASSUME NEW src \in Nat, NEW p, NEW q, NextReads(src, p, q), NEW k \in Nat,
           NEW m, m = n * k
    PROVE  NextReads(src + m, p + m, q + m)
<1>1. n \in Nat \ {0} /\ m \in Nat
  BY Constants, SMT
<1>2. \A r \in Nat : (r + m) % n = r % n
  BY LaterSweep
<1>3. p \in Nat /\ q \in Nat
  BY DEF NextReads
<1>4. ReadBy((p + m) % n) # {}
  BY <1>2, <1>3 DEF NextReads
<1>5. ASSUME NEW r \in (src + m) + 1 .. q + m, ReadBy(r % n) # {}
      PROVE  r = p + m \/ r = q + m
  <2> DEFINE s == r - m
  <2>1. s \in Nat /\ s \in src + 1 .. q /\ s + m = r
    BY <1>1, <1>3
  <2>2. ReadBy(s % n) # {}
    BY <1>2, <1>5, <2>1
  <2>3. s = p \/ s = q
    BY <2>1, <2>2 DEF NextReads
  <2> QED
    BY <1>1, <1>3, <2>1, <2>3
<1>6. /\ src < p /\ p <= q /\ p <= src + n /\ q <= p + n
      /\ q <= src + n \/ (p = src + n /\ q = src + 2 * n)
  BY DEF NextReads
<1>7. /\ p + m \in Nat /\ q + m \in Nat /\ src + m < p + m /\ p + m <= q + m
      /\ p + m <= (src + m) + n /\ q + m <= (p + m) + n
      /\ q + m <= (src + m) + n \/ (p + m = (src + m) + n /\ q + m = (src + m) + 2 * n)
  BY <1>1, <1>3, <1>6
<1> QED
  BY <1>4, <1>5, <1>7 DEF NextReads

LEMMA DeliverPromises ==
    ASSUME IInv, NEW w \in LineVertices, Deliver(w)
    PROVE  \E p, q \in Nat : Promised(p, q)'
<1> DEFINE src == position % n
           k == position \div n
           m == n * k
           p == NextTwo(src)[1]
           q == NextTwo(src)[2]
<1>1. position \in Nat
  BY Constants DEF IInv, TypeOK
<1>2. src \in Vertices /\ k \in Nat /\ m \in Nat /\ position = m + src /\ src \in Nat
  BY <1>1, Division
<1>3. src \in readers[w] /\ readers \in [LineVertices -> SUBSET Vertices]
  BY DEF Deliver, IInv, TypeOK, ReadBy
<1>4. NextReads(src, p, q)
  BY <1>2, <1>3, BuilderLooksAhead
<1>5. NextReads(src + m, p + m, q + m)
  BY <1>2, <1>4, ReadsRecur
<1>6. p \in Nat /\ q \in Nat
  BY <1>4 DEF NextReads
<1>7. /\ plan' = [first |-> quantizedFutureEpoch(p % n, src, p >= n),
                  second |-> quantizedFutureEpoch(q % n, src, q >= n)]
      /\ at' = position /\ until' = position - src + q /\ readers' = readers
  BY DEF Deliver, nextReusePlanForLine
<1>8. /\ Stored(quantizedFutureEpoch(p % n, src, p >= n), position, p + m)
      /\ Stored(quantizedFutureEpoch(q % n, src, q >= n), position, q + m)
  BY <1>1, <1>6, QuantizedIsStored
<1> HIDE DEF src, m, p, q, k
<1>9. /\ Stored(plan'.first, position, p + m) /\ Stored(plan'.second, position, q + m)
  BY <1>7, <1>8
<1>10. NextReads(position, p + m, q + m)
  <2>1. src + m = position
    BY <1>2
  <2> QED
    BY <1>5, <2>1
<1>11. until' = q + m /\ p + m \in Nat /\ q + m \in Nat
  BY <1>1, <1>2, <1>6, <1>7
<1>12. PICK a \in Nat, b \in Nat, c \in Nat : a = p + m /\ b = q + m /\ c = position
  BY <1>1, <1>11
<1>13. at' = c /\ until' = b /\ NextReads(c, a, b)
  BY <1>7, <1>10, <1>11, <1>12
<1>14. Stored(plan'.first, c, a) /\ Stored(plan'.second, c, b)
  BY <1>9, <1>12
<1>15. NextReads(c, a, b)'
  BY <1>7, <1>13 DEF NextReads, ReadBy
<1>16. NextReads(at, a, b)'
  BY <1>7, <1>13 DEF NextReads, ReadBy
<1>17. Stored(plan.first, at, a)' /\ Stored(plan.second, at, b)'
  BY <1>13, <1>14 DEF Stored, Slack, EpochAt
<1>18. Promised(a, b)'
  BY <1>13, <1>16, <1>17 DEF Promised
<1> QED
  BY <1>18

LEMMA StepPromises == IInv /\ PlanInv /\ [Next]_vars => PlanInv'
<1> SUFFICES ASSUME IInv, PlanInv, [Next]_vars PROVE PlanInv'
  OBVIOUS
<1>1. ASSUME NEW w \in LineVertices, Deliver(w) PROVE PlanInv'
  BY <1>1, DeliverPromises DEF PlanInv
<1>2. ASSUME UNCHANGED <<readers, stamped, plan, at, until>> PROVE PlanInv'
  <2> SUFFICES ASSUME stamped PROVE \E p, q \in Nat : Promised(p, q)'
    BY <1>2 DEF PlanInv
  <2>1. PICK p \in Nat, q \in Nat : Promised(p, q)
    BY DEF PlanInv
  <2>2. NextReads(at, p, q)'
    BY <1>2, <2>1 DEF Promised, NextReads, ReadBy
  <2>3. Stored(plan.first, at, p)' /\ Stored(plan.second, at, q)'
    BY <1>2, <2>1 DEF Promised, Stored, Slack, EpochAt
  <2>4. Promised(p, q)'
    BY <1>2, <2>1, <2>2, <2>3 DEF Promised
  <2> QED
    BY <2>4
<1> QED
  BY <1>1, <1>2 DEF Next, Visit, Filtered, vars

(* Every reader recurs within the next sweep, so there is a next use.         *)
LEMMA ReaderRecurs ==
    ASSUME NEW u \in Nat, NEW r \in Nat
    PROVE  \E s \in u + 1 .. u + n : s % n = r % n
<1> DEFINE k == u \div n
           v == u % n
           x == r % n
<1>1. k \in Nat /\ v \in 0 .. n - 1 /\ u = n * k + v /\ n * k \in Nat /\ x \in 0 .. n - 1
  BY Division, Zenon
<1>2. n \in Nat \ {0}
  BY Constants
<1> HIDE DEF k, v, x
<1>3. k + 1 \in Nat /\ n * (k + 1) = n * k + n
  BY <1>1, <1>2, SMT
<1>4. x \in Int /\ - n <= x /\ x < 2 * n /\ 0 <= x /\ x < n /\ x \in Nat
  BY <1>1, <1>2
<1>5. x % n = IF x < 0 THEN x + n ELSE IF x < n THEN x ELSE x - n
  BY <1>2, <1>4, WrapOnce
<1>6. (x + n * k) % n = x % n /\ (x + n * (k + 1)) % n = x % n
  BY <1>1, <1>3, <1>4, LaterSweep
<1>7. CASE v < x
  <2>1. x + n * k \in u + 1 .. u + n
    BY <1>1, <1>2, <1>7
  <2> QED
    BY <1>4, <1>5, <1>6, <2>1 DEF x
<1>8. CASE x <= v
  <2>1. x + n * (k + 1) \in u + 1 .. u + n
    BY <1>1, <1>2, <1>3, <1>8
  <2> QED
    BY <1>4, <1>5, <1>6, <2>1 DEF x
<1> QED
  BY <1>1, <1>7, <1>8

LEMMA NextUseIs ==
    ASSUME IInv, NEW p \in Nat, ReadBy(p % n) # {}
    PROVE  /\ NextUse \in Nat /\ position <= NextUse /\ ReadBy(NextUse % n) # {}
           /\ \A r \in position + 1 .. NextUse - 1 : ReadBy(r % n) = {}
<1>1. position \in Nat
  BY Constants DEF IInv, TypeOK
<1>2. CASE pending # {}
  <2>1. NextUse = position
    BY <1>2 DEF NextUse
  <2>2. ReadBy(position % n) # {}
    BY <1>2 DEF IInv
  <2> QED
    BY <1>1, <2>1, <2>2
<1>3. CASE pending = {}
  <2> DEFINE S == {r \in position + 1 .. position + n : ReadBy(r % n) # {}}
  <2>1. PICK s \in position + 1 .. position + n : s % n = p % n
    BY <1>1, ReaderRecurs
  <2>2. S \in SUBSET Nat /\ S # {}
    <3>1. ReadBy(s % n) # {}
      BY <2>1, Zenon
    <3>2. s \in S
      BY <2>1, <3>1, Zenon
    <3>3. S \in SUBSET Nat
      BY <1>1, Constants
    <3> QED
      BY <3>2, <3>3
  <2>3. PICK x \in S : \A y \in S : x <= y
    BY <2>2, LeastOfSet
  <2>4. NextUse = Least(S)
    BY <1>3 DEF NextUse
  <2>5. Least(S) \in S /\ \A y \in S : Least(S) <= y
    <3> HIDE DEF S
    <3> QED
      BY <2>3 DEF Least
  <2>6. NextUse \in position + 1 .. position + n /\ ReadBy(NextUse % n) # {}
    BY <2>4, <2>5
  <2>7. ASSUME NEW r \in position + 1 .. NextUse - 1, ReadBy(r % n) # {} PROVE FALSE
    <3>1. r \in S
      BY <1>1, <2>6, <2>7, Constants
    <3>2. NextUse <= r
      BY <2>4, <2>5, <3>1
    <3> QED
      BY <1>1, <2>6, <3>2, Constants
  <2>8. NextUse \in Nat /\ position <= NextUse
    BY <1>1, <2>6, Constants
  <2> QED
    BY <2>6, <2>7, <2>8, Zenon
<1> QED
  BY <1>2, <1>3

(* A use that the record covers is one of its two, and when it is the second  *)
(* the first has gone by.                                                     *)
LEMMA UseIsPromised ==
    ASSUME IInv, Covers, NEW p, NEW q, Promised(p, q)
    PROVE  /\ p \in Nat /\ q \in Nat /\ at \in Nat /\ position \in Nat /\ at <= position
           /\ position <= NextUse
           /\ NextUse = p \/ (NextUse = q /\ p \in at + 1 .. position)
<1>1. position \in Nat /\ at \in Nat /\ at <= position
  BY Constants DEF IInv, TypeOK
<1>2. /\ p \in Nat /\ q \in Nat /\ ReadBy(p % n) # {} /\ at < p /\ p <= q /\ q = until
      /\ \A r \in at + 1 .. q : ReadBy(r % n) # {} => r = p \/ r = q
  BY DEF Promised, NextReads
<1>3. /\ NextUse \in Nat /\ position <= NextUse /\ ReadBy(NextUse % n) # {}
      /\ \A r \in position + 1 .. NextUse - 1 : ReadBy(r % n) = {}
  BY <1>2, NextUseIs
<1>4. NextUse \in at + 1 .. q
  BY <1>1, <1>2, <1>3 DEF Covers
<1>5. NextUse = p \/ NextUse = q
  BY <1>2, <1>3, <1>4
<1>6. ASSUME NextUse = q, q # p, p > position PROVE FALSE
  <2>1. p \in position + 1 .. NextUse - 1
    BY <1>1, <1>2, <1>6
  <2> QED
    BY <1>2, <1>3, <2>1
<1> QED
  BY <1>1, <1>2, <1>3, <1>5, <1>6
-----------------------------------------------------------------------------
(* How near a read is taken to be.                                            *)
LEMMA ReadAhead ==
    ASSUME NEW a \in Nat, NEW p \in Nat, NEW u \in Nat, NEW e, Stored(e, a, p),
           NEW t, t = EpochAt(p) - EpochAt(u),
           NEW d, d = epochDistance(e, currentEpoch(u % n))
    PROVE  /\ t >= 1 => d <= t
           /\ t \in 0 .. ne - 1 => d >= t - 1
           /\ t \in (- ne) .. (- 1) => d >= t + ne - 1
<1>1. PICK b \in {0, 1} : b = Slack(a, p)
  BY DEF Slack
<1>2. PICK y : y = t - b
  OBVIOUS
<1>3. y = EpochAt(p) - EpochAt(u) - Slack(a, p)
  BY <1>1, <1>2
<1>4. /\ d \in 0 .. ne - 1 /\ y \in Int
      /\ y \in 0 .. ne - 1 => d = y
      /\ y \in (- ne) .. (- 1) => d = y + ne
      /\ y >= 0 => d <= y
  BY <1>3, StoredDistance
<1>5. t \in Int
  BY EpochAtTyped
<1> QED
  BY <1>1, <1>2, <1>4, <1>5, Constants

LEMMA ReadWithinSweep ==
    ASSUME NEW a \in Nat, NEW p \in Nat, NEW u \in Nat, a <= u, u <= p, p <= a + n,
           NEW e, Stored(e, a, p)
    PROVE  epochDistance(e, currentEpoch(u % n)) >= EpochAt(p) - EpochAt(u) - 1
<1> DEFINE d == epochDistance(e, currentEpoch(u % n))
<1>1. PICK x : x = EpochAt(p) - EpochAt(a)
  OBVIOUS
<1>2. PICK t : t = EpochAt(p) - EpochAt(u)
  OBVIOUS
<1>3. x \in 0 .. ne /\ Slack(a, p) = IF x = ne THEN 1 ELSE 0
  BY <1>1, SlackTells
<1>4. EpochAt(a) <= EpochAt(u) /\ EpochAt(u) <= EpochAt(p)
  BY EpochAtOrder
<1>5. EpochAt(a) \in Nat /\ EpochAt(u) \in Nat /\ EpochAt(p) \in Nat
  BY EpochAtTyped
<1>6. t \in 0 .. ne
  BY <1>1, <1>2, <1>3, <1>4, <1>5, Constants
<1>7. t \in 0 .. ne - 1 => d >= t - 1
  BY <1>2, ReadAhead
<1>8. CASE t = ne
  <2>1. x = ne
    BY <1>1, <1>2, <1>3, <1>4, <1>5, <1>8, Constants
  <2>2. PICK y : y = ne - 1
    OBVIOUS
  <2>3. y = EpochAt(p) - EpochAt(u) - Slack(a, p)
    BY <1>2, <1>3, <1>8, <2>1, <2>2
  <2>4. y \in 0 .. ne - 1 => d = y
    BY <2>3, StoredDistance
  <2> HIDE DEF d
  <2>5. d = ne - 1
    BY <2>2, <2>4, Constants
  <2> QED
    BY <1>2, <1>8, <2>5, Constants DEF d
<1> HIDE DEF d
<1>9. CASE t # ne
  <2>1. t \in 0 .. ne - 1
    BY <1>6, <1>9, Constants
  <2> QED
    BY <1>2, <1>7, <2>1 DEF d
<1> QED
  BY <1>8, <1>9

(* The only reader of the line, two sweeps ahead.                             *)
LEMMA ReadTwoSweepsAhead ==
    ASSUME NEW a \in Nat, NEW u \in Nat, a <= u, u <= a + n,
           NEW e, Stored(e, a, a + 2 * n)
    PROVE  epochDistance(e, currentEpoch(u % n)) >= EpochAt(a + n) - EpochAt(u) - 1
<1> DEFINE d == epochDistance(e, currentEpoch(u % n))
           p == a + 2 * n
<1>1. a + n \in Nat /\ p \in Nat /\ p = (a + n) + n /\ p = a + n * 2 /\ ne \in Nat \ {0} /\ 2 <= ne
  BY Constants
<1>2. EpochAt(p) = EpochAt(a) + 2 * ne /\ EpochAt(a + n) = EpochAt(a) + ne
  <2>1. EpochAt(a + n) = EpochAt(a) + ne
    BY EpochAtNextSweep
  <2>2. EpochAt((a + n) + n) = EpochAt(a + n) + ne
    BY <1>1, EpochAtNextSweep
  <2>3. EpochAt(a) \in Nat
    BY EpochAtTyped
  <2> QED
    BY <1>1, <2>1, <2>2, <2>3
<1>3. Slack(a, p) = 1
  <2>1. (a + n * 2) % n = a % n /\ (a + n * 2) \div n = a \div n + 2
    BY LaterSweep
  <2>2. a \div n \in Nat
    BY Division
  <2>3. p % n = a % n /\ a \div n < p \div n
    BY <1>1, <2>1, <2>2
  <2> QED
    BY <2>3 DEF Slack
<1>4. Stored(e, a, p)
  OBVIOUS
<1> HIDE DEF p
<1>5. PICK t : t = EpochAt(a + n) - EpochAt(u)
  OBVIOUS
<1>6. PICK y : y = t + ne - 1
  OBVIOUS
<1>7. EpochAt(a) <= EpochAt(u) /\ EpochAt(u) <= EpochAt(a + n)
  BY <1>1, EpochAtOrder
<1>8. EpochAt(a) \in Nat /\ EpochAt(u) \in Nat
  BY EpochAtTyped
<1>9. t \in 0 .. ne
  BY <1>1, <1>2, <1>5, <1>7, <1>8
<1>10. y = EpochAt(p) - EpochAt(u) - Slack(a, p)
  BY <1>1, <1>2, <1>3, <1>5, <1>6, <1>8
<1>11. /\ d \in 0 .. ne - 1
       /\ y \in 0 .. ne - 1 => d = y
       /\ y \in ne .. 2 * ne - 1 => d = y - ne
  BY <1>1, <1>4, <1>10, StoredDistance
<1> HIDE DEF d
<1>12. d >= t - 1
  BY <1>1, <1>6, <1>9, <1>11
<1> QED
  BY <1>5, <1>12 DEF d
-----------------------------------------------------------------------------
DistanceInv == IInv /\ PlanInv

LEMMA CurrentIs ==
    ASSUME IInv, NEW p, NEW q, Promised(p, q)
    PROVE  /\ epochDistance(plan.first, CurrentEpoch) \in 0 .. ne - 1
           /\ epochDistance(plan.second, CurrentEpoch) \in 0 .. ne - 1
           /\ \/ Distance = epochDistance(plan.first, CurrentEpoch)
              \/ Distance = epochDistance(plan.second, CurrentEpoch)
           /\ Distance <= epochDistance(plan.first, CurrentEpoch)
           /\ Distance <= epochDistance(plan.second, CurrentEpoch)
<1> DEFINE d == epochDistance(plan.first, CurrentEpoch)
           f == epochDistance(plan.second, CurrentEpoch)
<1>1. CurrentEpoch \in Epochs
  <2>1. position \in Nat
    BY Constants DEF IInv, TypeOK
  <2> QED
    BY <2>1, Division, CurrentEpochTyped DEF CurrentEpoch
<1>2. d \in 0 .. ne - 1 /\ f \in 0 .. ne - 1
  BY <1>1, DistanceTyped DEF Promised, Stored
<1>3. Distance = Least({d, f})
  BY DEF Distance, reusePlanDistance
<1> HIDE DEF d, f
<1>4. Distance = IF d <= f THEN d ELSE f
  BY <1>2, <1>3, LeastOfTwo
<1> QED
  BY <1>2, <1>4 DEF d, f

LEMMA NotTooFar == DistanceInv => NeverTooFar
<1> SUFFICES ASSUME DistanceInv, Covers, EpochsToUse >= 1 PROVE Distance <= EpochsToUse
  BY DEF NeverTooFar
<1> USE DEF DistanceInv
<1>1. PICK p \in Nat, q \in Nat : Promised(p, q)
  BY DEF PlanInv, Covers
<1>2. at \in Nat /\ position \in Nat /\ (NextUse = p \/ NextUse = q)
  BY <1>1, UseIsPromised
<1>3. PICK t : t = EpochsToUse
  OBVIOUS
<1>4. CASE NextUse = p
  <2>1. t = EpochAt(p) - EpochAt(position) /\ t >= 1
    BY <1>3, <1>4 DEF EpochsToUse
  <2>2. Stored(plan.first, at, p)
    BY <1>1 DEF Promised
  <2>3. epochDistance(plan.first, CurrentEpoch) <= t
    BY <1>1, <1>2, <2>1, <2>2, ReadAhead DEF CurrentEpoch
  <2>4. t \in Int
    BY <1>1, <1>2, <2>1, EpochAtTyped
  <2> QED
    BY <1>1, <1>3, <2>3, <2>4, CurrentIs
<1>5. CASE NextUse = q
  <2>1. t = EpochAt(q) - EpochAt(position) /\ t >= 1
    BY <1>3, <1>5 DEF EpochsToUse
  <2>2. Stored(plan.second, at, q)
    BY <1>1 DEF Promised
  <2>3. epochDistance(plan.second, CurrentEpoch) <= t
    BY <1>1, <1>2, <2>1, <2>2, ReadAhead DEF CurrentEpoch
  <2>4. t \in Int
    BY <1>1, <1>2, <2>1, EpochAtTyped
  <2> QED
    BY <1>1, <1>3, <2>3, <2>4, CurrentIs
<1> QED
  BY <1>2, <1>4, <1>5

(* With the first read still to come, both epochs are far enough; with the    *)
(* first gone by in an earlier epoch, it counts for the sweep after.          *)
LEMMA NotTooNear == DistanceInv => NeverTooNear
<1> SUFFICES ASSUME DistanceInv, Covers, ~ ReadThisEpoch PROVE Distance >= EpochsToUse - 1
  BY DEF NeverTooNear
<1> USE DEF DistanceInv
<1>1. PICK p \in Nat, q \in Nat : Promised(p, q)
  BY DEF PlanInv, Covers
<1>2. /\ at \in Nat /\ position \in Nat /\ at <= position /\ position <= NextUse
      /\ NextUse = p \/ (NextUse = q /\ p \in at + 1 .. position)
  BY <1>1, UseIsPromised
<1>3. /\ at < p /\ p <= q /\ p <= at + n /\ q <= p + n
      /\ q <= at + n \/ (p = at + n /\ q = at + 2 * n)
      /\ ReadBy(p % n) # {}
      /\ Stored(plan.first, at, p) /\ Stored(plan.second, at, q)
  BY <1>1 DEF Promised, NextReads
<1>4. /\ EpochAt(p) \in Nat /\ EpochAt(q) \in Nat /\ EpochAt(position) \in Nat
      /\ EpochAt(p) <= EpochAt(q)
  BY <1>1, <1>2, <1>3, EpochAtTyped, EpochAtOrder
<1> DEFINE c == currentEpoch(position % n)
           d == epochDistance(plan.first, c)
           f == epochDistance(plan.second, c)
<1>5. PICK t : t = EpochsToUse
  OBVIOUS
<1>6. CASE NextUse = p
  <2>1. t = EpochAt(p) - EpochAt(position)
    BY <1>5, <1>6 DEF EpochsToUse
  <2>2. d >= EpochAt(p) - EpochAt(position) - 1
    BY <1>1, <1>2, <1>3, <1>6, ReadWithinSweep
  <2>3. f >= EpochAt(p) - EpochAt(position) - 1
    <3>1. CASE q <= at + n
      <4>1. position <= q
        BY <1>1, <1>2, <1>3, <1>6
      <4>2. f >= EpochAt(q) - EpochAt(position) - 1
        BY <1>1, <1>2, <1>3, <3>1, <4>1, ReadWithinSweep
      <4>3. f \in Int
        BY <1>1, CurrentIs DEF CurrentEpoch
      <4> HIDE DEF f
      <4> QED
        BY <1>4, <4>2, <4>3
    <3>2. CASE p = at + n /\ q = at + 2 * n
      BY <1>2, <1>3, <1>6, <3>2, ReadTwoSweepsAhead
    <3> QED
      BY <1>3, <3>1, <3>2
  <2>4. d >= t - 1 /\ f >= t - 1
    BY <2>1, <2>2, <2>3
  <2> QED
    BY <1>1, <1>5, <2>4, CurrentIs DEF CurrentEpoch
<1>7. CASE NextUse = q /\ p \in at + 1 .. position
  <2>1. t = EpochAt(q) - EpochAt(position)
    BY <1>5, <1>7 DEF EpochsToUse
  <2>2. EpochAt(p) # EpochAt(position)
    BY <1>3, <1>7 DEF ReadThisEpoch
  <2>3. EpochAt(p) <= EpochAt(position) /\ EpochAt(position) <= EpochAt(q)
    BY <1>1, <1>2, <1>7, EpochAtOrder
  <2>4. EpochAt(q) <= EpochAt(p) + ne
    <3>1. p + n \in Nat
      BY <1>1, Constants
    <3> QED
      BY <1>1, <1>3, <3>1, EpochAtOrder, EpochAtNextSweep
  <2>5. PICK s : s = EpochAt(p) - EpochAt(position)
    OBVIOUS
  <2>6. /\ s \in (- ne) .. (- 1) => d >= s + ne - 1
        /\ t \in 0 .. ne - 1 => f >= t - 1
    BY <1>1, <1>2, <1>3, <2>1, <2>5, ReadAhead
  <2>7. d \in 0 .. ne - 1 /\ f \in 0 .. ne - 1
    BY <1>1, CurrentIs DEF CurrentEpoch
  <2> HIDE DEF d, f
  <2>8. s \in (- ne) .. (- 1) /\ t \in 0 .. ne - 1 /\ t <= s + ne
    BY <1>4, <2>1, <2>2, <2>3, <2>4, <2>5, Constants
  <2>9. d >= t - 1 /\ f >= t - 1
    BY <2>6, <2>7, <2>8, Constants
  <2> QED
    BY <1>1, <1>5, <2>9, CurrentIs DEF CurrentEpoch, d, f
<1> QED
  BY <1>2, <1>6, <1>7

(* At its delivery a record's distances are those of its reads, as far as     *)
(* they can be told.                                                          *)
LEMMA DeliveredDistance ==
    ASSUME NEW a \in Nat, NEW p \in Nat, a <= p, p <= a + n, NEW e, Stored(e, a, p),
           NEW x, x = EpochAt(p) - EpochAt(a)
    PROVE  /\ x \in 0 .. ne
           /\ epochDistance(e, currentEpoch(a % n)) = IF x = ne THEN ne - 1 ELSE x
<1>1. x \in 0 .. ne /\ Slack(a, p) = IF x = ne THEN 1 ELSE 0
  BY SlackTells
<1>2. PICK y : y = x - Slack(a, p)
  OBVIOUS
<1>3. y = EpochAt(p) - EpochAt(a) - Slack(a, p)
  BY <1>2
<1>4. y \in 0 .. ne - 1 => epochDistance(e, currentEpoch(a % n)) = y
  BY <1>3, StoredDistance
<1> QED
  BY <1>1, <1>2, <1>4, Constants

LEMMA FirstComesFirst ==
    ASSUME NEW a \in Nat, NEW p, NEW q, NextReads(a, p, q),
           NEW e, NEW f, Stored(e, a, p), Stored(f, a, q)
    PROVE  epochDistance(e, currentEpoch(a % n)) <= epochDistance(f, currentEpoch(a % n))
<1>1. /\ p \in Nat /\ q \in Nat /\ a < p /\ p <= q /\ p <= a + n
      /\ q <= a + n \/ (p = a + n /\ q = a + 2 * n)
  BY DEF NextReads
<1> DEFINE d == epochDistance(e, currentEpoch(a % n))
           g == epochDistance(f, currentEpoch(a % n))
<1>2. PICK x : x = EpochAt(p) - EpochAt(a)
  OBVIOUS
<1>3. x \in 0 .. ne /\ d = IF x = ne THEN ne - 1 ELSE x
  BY <1>1, <1>2, DeliveredDistance
<1>4. EpochAt(a) \in Nat /\ EpochAt(p) \in Nat /\ EpochAt(q) \in Nat /\ EpochAt(p) <= EpochAt(q)
  BY <1>1, EpochAtTyped, EpochAtOrder
<1>5. CASE q <= a + n
  <2>1. PICK z : z = EpochAt(q) - EpochAt(a)
    OBVIOUS
  <2>2. z \in 0 .. ne /\ g = IF z = ne THEN ne - 1 ELSE z
    BY <1>1, <1>5, <2>1, DeliveredDistance
  <2> HIDE DEF d, g
  <2> QED
    BY <1>2, <1>3, <1>4, <2>1, <2>2, Constants DEF d, g
<1>6. CASE p = a + n /\ q = a + 2 * n
  <2>1. a <= a /\ a <= a + n
    BY Constants
  <2>2. g >= EpochAt(a + n) - EpochAt(a) - 1
    BY <1>6, <2>1, ReadTwoSweepsAhead
  <2>3. EpochAt(a + n) = EpochAt(a) + ne
    BY EpochAtNextSweep
  <2>4. currentEpoch(a % n) \in Epochs /\ f \in Epochs
    BY Division, CurrentEpochTyped DEF Stored
  <2>5. g \in 0 .. ne - 1
    BY <2>4, DistanceTyped
  <2> HIDE DEF d, g
  <2> QED
    BY <1>3, <1>4, <2>2, <2>3, <2>5, Constants DEF d, g
<1> QED
  BY <1>1, <1>5, <1>6

LEMMA StepKeepsFirst ==
    ASSUME IInv, PlanInv, [Next]_vars, plan' # plan
    PROVE  epochDistance(plan'.first, CurrentEpoch) <= epochDistance(plan'.second, CurrentEpoch)
<1>1. PICK w \in LineVertices : Deliver(w)
  BY DEF Next, Visit, Filtered, vars
<1>2. PICK p \in Nat, q \in Nat : Promised(p, q)'
  BY <1>1, DeliverPromises
<1>3. at' = position /\ position \in Nat /\ readers' = readers
  BY <1>1, Constants DEF Deliver, IInv, TypeOK
<1>4. NextReads(position, p, q)
  BY <1>2, <1>3 DEF Promised, NextReads, ReadBy
<1>5. Stored(plan'.first, position, p) /\ Stored(plan'.second, position, q)
  BY <1>2, <1>3 DEF Promised, Stored, Slack, EpochAt
<1> QED
  BY <1>3, <1>4, <1>5, FirstComesFirst DEF CurrentEpoch

(* A record tells two reads of its line, the next two when it was delivered,  *)
(* each by an epoch that is right or one too early.                           *)
THEOREM DistanceInvariance == Spec => []DistanceInv
<1>1. Init => PlanInv
  BY DEF Init, PlanInv
<1> QED
  BY InitIInv, StepIInv, StepPromises, <1>1, PTL DEF Spec, DistanceInv

(* For every graph, number of epochs and line: a line that is needed in a     *)
(* later epoch is never taken for farther than it is (reusePlanDistance).     *)
THEOREM NeverTooFarHolds == Spec => []NeverTooFar
  BY NotTooFar, DistanceInvariance, PTL

(* Nor for more than one epoch nearer, from the epoch after its last read on. *)
THEOREM NeverTooNearHolds == Spec => []NeverTooNear
  BY NotTooNear, DistanceInvariance, PTL

(* "The first ReusePlan epoch is already the nearest future line reference"   *)
(* (comment of reuseAdmissionRRPV), in every record the builder makes.        *)
THEOREM FirstIsNearestHolds == Spec => FirstIsNearest
<1>1. IInv /\ PlanInv /\ [Next]_vars
        => [plan' # plan =>
              epochDistance(plan'.first, CurrentEpoch) <= epochDistance(plan'.second, CurrentEpoch)
           ]_vars
  BY StepKeepsFirst
<1>2. Init => PlanInv
  BY DEF Init, PlanInv
<1> QED
  BY InitIInv, StepIInv, StepPromises, <1>1, <1>2, PTL DEF Spec, FirstIsNearest
-------------------------------------------------------------------------------
(* The sidecar: what a load accepts. *)

Places ==
    {"create", "header", "offsets", "records", "close", "rename", "failed",
     "open", "load header", "load offsets", "load records", "done"}

\* A header that LoadHeader lets pass.
OwnHeader(p, part) ==
    \E made \in SidecarPlans : part = Header(made) /\ made[2] = PlanOf[p][2]

\* What a process has loaded at each place of a load.
BufferFits(p) ==
    /\ pc[p] = "load offsets" =>
          \E header \in {buffer[p][1]} : buffer[p] = <<header>> /\ OwnHeader(p, header)
    /\ pc[p] = "load records" =>
          \E header \in {buffer[p][1]}, offsets \in {buffer[p][2]} :
              buffer[p] = <<header, offsets>> /\ OwnHeader(p, header)

LoadInv ==
    /\ pc \in [Processes -> Places]
    /\ DOMAIN buffer = Processes
    /\ DOMAIN accepted = Processes
    /\ \A p \in Processes : BufferFits(p)
    /\ AcceptedIsOwn

\* Appending to the short sequences a load builds.
LEMMA AppendTo1 ==
    ASSUME NEW a, NEW b
    PROVE  Append(<<a>>, b) = <<a, b>>
<1> DEFINE S == {a, b}
           s == Append(<<a>>, b)
           t == <<a, b>>
<1>1. s \in Seq(S) /\ Len(s) = 2 /\ s[1] = a /\ s[2] = b
  <2>1. <<a>> \in Seq(S) /\ b \in S /\ Len(<<a>>) = 1
    OBVIOUS
  <2> QED
    BY <2>1
<1>2. t \in Seq(S) /\ Len(t) = 2 /\ t[1] = a /\ t[2] = b
  OBVIOUS
<1>3. \A i \in 1 .. 2 : s[i] = t[i]
  BY <1>1, <1>2
<1> HIDE DEF s, t, S
<1>4. s = t
  BY <1>1, <1>2, <1>3, SeqEqual
<1> QED
  BY <1>4 DEF s, t

LEMMA AppendTo2 ==
    ASSUME NEW a, NEW b, NEW c
    PROVE  Append(<<a, b>>, c) = <<a, b, c>>
<1> DEFINE S == {a, b, c}
           s == Append(<<a, b>>, c)
           t == <<a, b, c>>
<1>1. s \in Seq(S) /\ Len(s) = 3 /\ s[1] = a /\ s[2] = b /\ s[3] = c
  <2>1. <<a, b>> \in Seq(S) /\ c \in S /\ Len(<<a, b>>) = 2
    OBVIOUS
  <2> QED
    BY <2>1
<1>2. t \in Seq(S) /\ Len(t) = 3 /\ t[1] = a /\ t[2] = b /\ t[3] = c
  OBVIOUS
<1>3. \A i \in 1 .. 3 : s[i] = t[i]
  BY <1>1, <1>2
<1> HIDE DEF s, t, S
<1>4. s = t
  BY <1>1, <1>2, <1>3, SeqEqual
<1> QED
  BY <1>4 DEF s, t

\* A load that passes every test has read its own plan.
LEMMA ValidIsOwn ==
    ASSUME NEW p \in Processes, NEW header, NEW offsets, NEW records,
           OwnHeader(p, header), Valid(p, <<header, offsets, records>>)
    PROVE  <<header, offsets, records>> = Whole(PlanOf[p])
<1> DEFINE loaded == <<header, offsets, records>>
<1>1. PICK own \in SidecarPlans : header = Header(own) /\ own[2] = PlanOf[p][2]
  BY DEF OwnHeader
<1>2. PICK made \in SidecarPlans : loaded = Whole(made)
  BY DEF Valid
<1>3. PICK config \in Configs : loaded[1] = Header(<<PlanOf[p][1], config>>)
  BY DEF Valid
<1>4. PlanOf[p] \in SidecarPlans
  BY SidecarAssumption
<1>5. header = Header(made) /\ header = Header(<<PlanOf[p][1], config>>)
  BY <1>2, <1>3 DEF Whole
<1>6. made = own /\ made = <<PlanOf[p][1], config>>
  BY <1>1, <1>5 DEF Header
<1>7. made = PlanOf[p]
  BY <1>1, <1>4, <1>6 DEF SidecarPlans
<1> QED
  BY <1>2, <1>7

LEMMA LoadInit == SidecarInit => LoadInv
BY DEF SidecarInit, LoadInv, BufferFits, AcceptedIsOwn, Places

\* A process other than p keeps what the invariant says of it.
LEMMA OthersKept ==
    ASSUME LoadInv, NEW p \in Processes, NEW next \in Places, NEW parts,
           pc' = [pc EXCEPT ![p] = next], buffer' = [buffer EXCEPT ![p] = parts]
    PROVE  /\ pc' \in [Processes -> Places]
           /\ DOMAIN buffer' = Processes
           /\ pc'[p] = next
           /\ buffer'[p] = parts
           /\ \A q \in Processes \ {p} : BufferFits(q)'
BY DEF LoadInv, BufferFits, OwnHeader

\* A step that neither loads a part nor ends a load.
LEMMA OtherSteps ==
    ASSUME LoadInv, NEW p \in Processes, NEW next \in Places,
           next \notin {"load offsets", "load records"},
           pc' = [pc EXCEPT ![p] = next], KeepLoads
    PROVE  LoadInv'
BY DEF LoadInv, BufferFits, OwnHeader, AcceptedIsOwn, KeepLoads

LEMMA LoadStep ==
    ASSUME LoadInv, [SidecarNext]_sidecarVars
    PROVE  LoadInv'
<1>1. CASE UNCHANGED sidecarVars
  BY <1>1 DEF LoadInv, BufferFits, OwnHeader, AcceptedIsOwn, sidecarVars
<1>2. CASE Crash
  <2>1. pc' \in [Processes -> Places]
    BY <1>2 DEF Crash, Places
  <2>2. \A p \in Processes : pc'[p] \notin {"load offsets", "load records"} /\ accepted'[p] = <<>>
    BY <1>2 DEF Crash
  <2> QED
    BY <1>2, <2>1, <2>2 DEF Crash, LoadInv, BufferFits, AcceptedIsOwn
<1>3. ASSUME NEW p \in Processes, Step(p)
      PROVE  LoadInv'
  <2>1. CASE Create(p)
    BY <2>1, OtherSteps DEF Create, Goto, Places
  <2>2. CASE \/ Write(p, 1, Header(PlanOf[p]), "header", "offsets")
             \/ Write(p, 2, Offsets(PlanOf[p]), "offsets", "records")
             \/ Write(p, 3, Records(PlanOf[p]), "records", "close")
    BY <2>2, OtherSteps DEF Write, Goto, Places
  <2>3. CASE Close(p)
    BY <2>3, OtherSteps DEF Close, Goto, Places
  <2>4. CASE Rename(p)
    BY <2>4, OtherSteps DEF Rename, Goto, Places
  <2>5. CASE Remove(p)
    BY <2>5, OtherSteps DEF Remove, Goto, Places
  <2>6. CASE Open(p)
    BY <2>6, OtherSteps DEF Open, Goto, Places
  <2>7. CASE LoadHeader(p)
    <3> DEFINE parts == content[open[p]]
               fits == HeaderFits(p, parts)
    <3>1. /\ pc' = [pc EXCEPT ![p] = IF fits THEN "load offsets" ELSE "done"]
          /\ buffer' = [buffer EXCEPT ![p] = IF fits THEN <<parts[1]>> ELSE <<>>]
          /\ UNCHANGED accepted
      BY <2>7 DEF LoadHeader, Loaded, Goto
    <3>2. fits => OwnHeader(p, parts[1])
      BY DEF HeaderFits, OwnHeader
    <3> HIDE DEF fits, parts
    <3>3. BufferFits(p)'
      BY <3>1, <3>2, OthersKept DEF BufferFits, OwnHeader, Places
    <3> QED
      BY <3>1, <3>3, OthersKept DEF LoadInv, AcceptedIsOwn, Places
  <2>8. CASE LoadOffsets(p)
    <3> DEFINE parts == content[open[p]]
               fits == Len(parts) = 3
    <3>1. /\ pc[p] = "load offsets"
          /\ pc' = [pc EXCEPT ![p] = IF fits THEN "load records" ELSE "done"]
          /\ buffer' = [buffer EXCEPT ![p] = IF fits THEN Append(buffer[p], parts[2]) ELSE <<>>]
          /\ UNCHANGED accepted
      BY <2>8 DEF LoadOffsets, Loaded, Goto
    <3> HIDE DEF fits
    <3>2. PICK header : buffer[p] = <<header>> /\ OwnHeader(p, header)
      BY <3>1 DEF LoadInv, BufferFits
    <3>3. Append(buffer[p], parts[2]) = <<header, parts[2]>>
      BY <3>2, AppendTo1
    <3> HIDE DEF parts
    <3>4. BufferFits(p)'
      <4>1. pc'[p] = (IF fits THEN "load records" ELSE "done")
        BY <3>1, OthersKept DEF Places
      <4>2. fits => buffer'[p] = <<header, parts[2]>>
        BY <3>1, <3>3, OthersKept DEF Places
      <4> DEFINE offsets == parts[2]
      <4> HIDE DEF offsets
      <4>3. fits => /\ buffer'[p] = <<header, offsets>>
                    /\ buffer'[p][1] = header /\ buffer'[p][2] = offsets
        BY <4>2 DEF offsets
      <4> QED
        BY <3>2, <4>1, <4>3 DEF BufferFits, OwnHeader
    <3> QED
      BY <3>1, <3>4, OthersKept DEF LoadInv, AcceptedIsOwn, Places
  <2>9. CASE LoadRecords(p)
    <3> DEFINE parts == content[open[p]]
               loaded == Append(buffer[p], parts[3])
               passes == Len(parts) = 3 /\ Valid(p, loaded)
    <3>1. /\ pc[p] = "load records"
          /\ pc' = [pc EXCEPT ![p] = "done"]
          /\ buffer' = [buffer EXCEPT ![p] = <<>>]
          /\ accepted' = [accepted EXCEPT ![p] = IF passes THEN loaded ELSE <<>>]
      BY <2>9 DEF LoadRecords, Goto
    <3>2. PICK header, offsets : buffer[p] = <<header, offsets>> /\ OwnHeader(p, header)
      BY <3>1 DEF LoadInv, BufferFits
    <3>3. loaded = <<header, offsets, parts[3]>>
      BY <3>2, AppendTo2
    <3> HIDE DEF loaded
    <3>4. passes => loaded = Whole(PlanOf[p])
      <4>1. SUFFICES ASSUME Valid(p, loaded)
                     PROVE  loaded = Whole(PlanOf[p])
        OBVIOUS
      <4> HIDE DEF parts
      <4>2. Valid(p, <<header, offsets, parts[3]>>)
        BY <3>3, <4>1
      <4> QED
        BY <3>2, <3>3, <4>2, ValidIsOwn
    <3> HIDE DEF passes
    <3>5. AcceptedIsOwn'
      BY <3>1, <3>4 DEF LoadInv, AcceptedIsOwn
    <3>6. BufferFits(p)' /\ DOMAIN accepted' = Processes
      BY <3>1, OthersKept DEF BufferFits, LoadInv, Places
    <3> QED
      BY <3>1, <3>5, <3>6, OthersKept DEF LoadInv, Places
  <2> QED
    BY <1>3, <2>1, <2>2, <2>3, <2>4, <2>5, <2>6, <2>7, <2>8, <2>9 DEF Step
<1> QED
  BY <1>1, <1>2, <1>3 DEF SidecarNext

\* A load that is under way has compared the header with its own configuration,
\* and what was accepted is its own plan.
THEOREM Invariance == SidecarSpec => []LoadInv
<1>1. LoadInv /\ [SidecarNext]_sidecarVars => LoadInv'
  BY LoadStep
<1> QED
  BY LoadInit, <1>1, PTL DEF SidecarSpec

\* A sidecar that is accepted is the one built for the graph and the configuration
\* of whoever loads it, after any crash and whoever else writes.
THEOREM AcceptedHolds == SidecarSpec => []AcceptedIsOwn
<1>1. LoadInv => AcceptedIsOwn
  BY DEF LoadInv
<1> QED
  BY <1>1, Invariance, PTL

-------------------------------------------------------------------------------
\* Who has which file, as long as the host has not crashed and the generators have
\* process ids of their own.

Quiet == crashes = 0 /\ \A g \in Generators : Alone(g)

Writing == {"header", "offsets", "records", "close"}
Unpublished == Writing \cup {"create", "rename", "failed"}

\* What a generator has written at each place.
Progress(g, parts) ==
    /\ pc[g] = "header" => parts = <<>>
    /\ pc[g] = "offsets" => parts = <<Header(PlanOf[g])>>
    /\ pc[g] = "records" => parts = <<Header(PlanOf[g]), Offsets(PlanOf[g])>>
    /\ pc[g] \in {"close", "rename"} => parts = Whole(PlanOf[g])

\* own: the one file of each generator that has created one.
GeneratorOwns(g, file) ==
    /\ temporary[pid[g]] \in {NoFile, file}
    /\ file # NoFile => file = temporary[pid[g]] \/ file \in published
    /\ pc[g] = "create" => file = NoFile
    /\ pc[g] \in Writing => open[g] = file
    /\ pc[g] \in Writing \cup {"rename"} =>
          file \in Inodes /\ temporary[pid[g]] = file /\ Progress(g, content[file])

Owns(own) ==
    /\ own \in [Generators -> Inodes \cup {NoFile}]
    /\ \A g, f \in Generators : own[g] = own[f] /\ own[g] # NoFile => g = f
    /\ \A g \in Generators : GeneratorOwns(g, own[g])
    /\ \A name \in Pids : (\A g \in Generators : pid[g] # name) => temporary[name] = NoFile
    /\ \A i \in published :
          /\ i \in Inodes
          /\ \E g \in Generators :
                own[g] = i /\ pc[g] \notin Unpublished /\ content[i] = Whole(PlanOf[g])
    /\ path \in published \cup {NoFile}
    /\ \A p \in Processes : \/ open[p] \in published \cup {NoFile}
                            \/ p \in Generators /\ open[p] = own[p]

FilesInv ==
    /\ pc \in [Processes -> Places]
    /\ DOMAIN open = Processes
    /\ DOMAIN content = Inodes
    /\ DOMAIN temporary = Pids
    /\ pid \in [Generators -> Pids]
    /\ crashes \in Nat
    /\ Quiet => \E own : Owns(own)

LEMMA WrittenTo0 ==
    ASSUME NEW a
    PROVE  Written(<<>>, 1, a) = <<a>>
BY DEF Written

LEMMA WrittenTo1 ==
    ASSUME NEW a, NEW b
    PROVE  Written(<<a>>, 2, b) = <<a, b>>
BY DEF Written

LEMMA WrittenTo2 ==
    ASSUME NEW a, NEW b, NEW c
    PROVE  Written(<<a, b>>, 3, c) = <<a, b, c>>
BY DEF Written

\* There is a file for a generator that has none yet.
LEMMA InodesSuffice ==
    ASSUME FilesInv, NEW own, Owns(own)
    PROVE  \E i \in Inodes : i \notin Used
<1> DEFINE R == {own[g] : g \in Generators}
<1>1. own \in Surjection(Generators, R)
  BY DEF Owns, Surjection
<1>2. IsFiniteSet(Generators)
  BY SidecarAssumption
<1>3. IsFiniteSet(R) /\ Cardinality(R) <= Cardinality(Generators)
  <2> HIDE DEF R
  <2> QED
    BY <1>1, <1>2, FS_Surjection
<1>4. Cardinality(Generators) \in Nat /\ Cardinality(R) \in Nat
  BY <1>2, <1>3, FS_CardinalityType
<1>5. Cardinality(Inodes) = Cardinality(Generators) + 1
  BY <1>4, FS_Interval, SMT DEF Inodes
<1>6. ~ (Inodes \subseteq R)
  <2> HIDE DEF R
  <2>1. ASSUME Inodes \subseteq R PROVE FALSE
    <3>1. Cardinality(Inodes) <= Cardinality(R)
      BY <1>3, <2>1, FS_Subset
    <3> QED
      BY <1>3, <1>4, <1>5, <3>1, SMT
  <2> QED
    BY <2>1
<1>7. PICK i \in Inodes : i \notin R
  BY <1>6
<1>8. i # NoFile
  BY SidecarAssumption
<1>9. i \notin {temporary[name] : name \in Pids}
  BY <1>7, <1>8 DEF Owns, GeneratorOwns
<1>10. i \notin published /\ i # path
  BY <1>7, <1>8 DEF Owns
<1>11. i \notin {open[p] : p \in Processes}
  BY <1>7, <1>8, <1>10 DEF Owns
<1> QED
  BY <1>9, <1>10, <1>11 DEF Used

LEMMA FilesInit == SidecarInit => FilesInv
<1> SUFFICES ASSUME SidecarInit PROVE FilesInv
  OBVIOUS
<1> DEFINE own == [g \in Generators |-> NoFile]
<1>1. \A g \in Generators : g \in Processes /\ pc[g] = "create" /\ temporary[pid[g]] = NoFile
  BY DEF SidecarInit, Processes
<1>2. \A g \in Generators : GeneratorOwns(g, NoFile)
  BY <1>1 DEF GeneratorOwns, Writing
<1>3. Owns(own)
  BY <1>2 DEF Owns, SidecarInit
<1>4. pc \in [Processes -> Places]
  BY DEF SidecarInit, Places
<1> HIDE DEF own
<1> QED
  BY <1>3, <1>4 DEF SidecarInit, FilesInv

\* Of a step of p: the other processes stay where they are.
Moves(p, from, to) ==
    pc[p] = from /\ pc'[p] = to /\ \A q \in Processes \ {p} : pc'[q] = pc[q]

LEMMA GotoMoves ==
    ASSUME FilesInv, NEW p \in Processes, NEW from, NEW to \in Places, Goto(p, from, to)
    PROVE  Moves(p, from, to) /\ pc' \in [Processes -> Places]
BY DEF FilesInv, Goto, Moves

\* A load changes no file and opens none but the sidecar.
LEMMA LoadKeepsOwners ==
    ASSUME FilesInv, NEW own, Owns(own), NEW p \in Processes, NEW from, NEW to,
           Moves(p, from, to), from \notin Unpublished, to \notin Unpublished,
           KeepFiles, UNCHANGED pid, DOMAIN open' = Processes,
           open'[p] \in {open[p], NoFile, path}, \A q \in Processes \ {p} : open'[q] = open[q]
    PROVE  Owns(own)'
<1>1. Generators \subseteq Processes
  BY DEF Processes
<1>2. UNCHANGED <<content, temporary, path, published, pid>>
  BY DEF KeepFiles
<1>3. \A g \in Generators : GeneratorOwns(g, own[g])'
  <2> SUFFICES ASSUME NEW g \in Generators PROVE GeneratorOwns(g, own[g])'
    OBVIOUS
  <2>1. GeneratorOwns(g, own[g])
    BY DEF Owns
  <2>2. CASE g = p
    BY <1>2, <2>1, <2>2 DEF GeneratorOwns, Moves, Unpublished, Writing
  <2>3. CASE g # p
    BY <1>1, <1>2, <2>1, <2>3 DEF GeneratorOwns, Moves, Progress
  <2> QED
    BY <2>2, <2>3
<1>4. \A i \in published' :
         /\ i \in Inodes
         /\ \E g \in Generators :
               own[g] = i /\ pc'[g] \notin Unpublished /\ content'[i] = Whole(PlanOf[g])
  <2> SUFFICES ASSUME NEW i \in published
               PROVE  /\ i \in Inodes
                      /\ \E g \in Generators :
                            own[g] = i /\ pc'[g] \notin Unpublished /\ content[i] = Whole(PlanOf[g])
    BY <1>2
  <2>1. PICK g \in Generators :
           own[g] = i /\ pc[g] \notin Unpublished /\ content[i] = Whole(PlanOf[g])
    BY DEF Owns
  <2>2. pc'[g] \notin Unpublished
    BY <1>1, <2>1 DEF Moves
  <2> QED
    BY <2>1, <2>2 DEF Owns
<1>5. \A q \in Processes : \/ open'[q] \in published' \cup {NoFile}
                           \/ q \in Generators /\ open'[q] = own[q]
  <2>1. path \in published \cup {NoFile}
    BY DEF Owns
  <2>2. \A q \in Processes : \/ open[q] \in published \cup {NoFile}
                             \/ q \in Generators /\ open[q] = own[q]
    BY DEF Owns
  <2> QED
    BY <1>2, <2>1, <2>2
<1> QED
  BY <1>2, <1>3, <1>4, <1>5 DEF Owns

LEMMA CreateKeepsOwners ==
    ASSUME FilesInv, Quiet, NEW own, Owns(own), NEW g \in Generators, Create(g), UNCHANGED pid
    PROVE  \E new : Owns(new)'
<1> DEFINE created == IF temporary[pid[g]] # NoFile THEN temporary[pid[g]]
                      ELSE CHOOSE j \in Inodes : j \notin Used
<1>1. /\ Generators \subseteq Processes
      /\ \A f \in Generators \ {g} : pid[f] # pid[g]
      /\ \A f \in Generators : pid[f] \in Pids
  BY DEF Processes, Quiet, Alone, FilesInv
<1>2. Moves(g, "create", "header")
  <2>1. Goto(g, "create", "header")
    BY DEF Create
  <2> QED
    BY <1>1, <2>1, GotoMoves DEF Places
<1>3. own[g] = NoFile /\ temporary[pid[g]] = NoFile
  BY <1>2 DEF Owns, GeneratorOwns, Moves
<1>4. PICK i \in Inodes : i = created /\ i \notin Used
  BY <1>3, InodesSuffice
<1>5. /\ open' = [open EXCEPT ![g] = i]
      /\ temporary' = [temporary EXCEPT ![pid[g]] = i]
      /\ content' = [content EXCEPT ![i] = <<>>]
      /\ path' = path /\ published' = published /\ pid' = pid
  BY <1>4 DEF Create
<1> DEFINE new == [own EXCEPT ![g] = i]
<1> HIDE DEF created
<1>6. i # NoFile /\ i \notin published /\ \A f \in Generators : own[f] # i
  <2>1. i # NoFile
    BY <1>4, SidecarAssumption
  <2>2. i \notin published /\ i # path /\ \A name \in Pids : temporary[name] # i
    BY <1>4 DEF Used
  <2>3. ASSUME NEW f \in Generators, own[f] = i PROVE FALSE
    <3>1. i = temporary[pid[f]] \/ i \in published
      BY <2>1, <2>3 DEF Owns, GeneratorOwns
    <3> QED
      BY <1>1, <2>2, <3>1
  <2> QED
    BY <2>1, <2>2, <2>3
<1>7. /\ temporary'[pid[g]] = i
      /\ \A f \in Generators \ {g} : temporary'[pid[f]] = temporary[pid[f]]
      /\ \A name \in Pids \ {pid[g]} : temporary'[name] = temporary[name]
  BY <1>1, <1>5 DEF FilesInv
<1>8. content'[i] = <<>> /\ \A j \in Inodes \ {i} : content'[j] = content[j]
  BY <1>4, <1>5 DEF FilesInv
<1>9. new[g] = i /\ \A f \in Generators \ {g} : new[f] = own[f]
  BY DEF Owns
<1>10. new \in [Generators -> Inodes \cup {NoFile}]
  BY <1>4 DEF Owns
<1> HIDE DEF new
<1>11. ASSUME NEW f \in Generators PROVE GeneratorOwns(f, new[f])'
  <2>1. CASE f = g
    BY <1>2, <1>4, <1>5, <1>7, <1>8, <1>9, <2>1
       DEF GeneratorOwns, Moves, Progress, Writing, FilesInv, Processes
  <2>2. CASE f # g
    <3>1. GeneratorOwns(f, own[f])
      BY DEF Owns
    <3>2. pc'[f] = pc[f] /\ open'[f] = open[f] /\ new[f] = own[f]
      BY <1>1, <1>2, <1>5, <1>9, <2>2 DEF Moves, FilesInv
    <3>3. own[f] \in Inodes => content'[own[f]] = content[own[f]]
      BY <1>6, <1>8
    <3> QED
      BY <1>5, <1>7, <2>2, <3>1, <3>2, <3>3 DEF GeneratorOwns, Progress
  <2> QED
    BY <2>1, <2>2
<1>12. ASSUME NEW j \in published
       PROVE  /\ j \in Inodes
              /\ \E f \in Generators :
                    new[f] = j /\ pc'[f] \notin Unpublished /\ content'[j] = Whole(PlanOf[f])
  <2>1. PICK f \in Generators :
           own[f] = j /\ pc[f] \notin Unpublished /\ content[j] = Whole(PlanOf[f])
    BY DEF Owns
  <2>2. j \in Inodes /\ f # g
    BY <1>2, <2>1 DEF Owns, Moves, Unpublished
  <2>3. pc'[f] = pc[f] /\ new[f] = j /\ content'[j] = content[j]
    BY <1>1, <1>2, <1>6, <1>8, <1>9, <2>1, <2>2 DEF Moves
  <2> QED
    BY <2>1, <2>2, <2>3
<1>13. \A f, e \in Generators : new[f] = new[e] /\ new[f] # NoFile => f = e
  BY <1>6, <1>9 DEF Owns
<1>14. \A name \in Pids : (\A f \in Generators : pid'[f] # name) => temporary'[name] = NoFile
  BY <1>7 DEF Owns
<1>15. \A q \in Processes : \/ open'[q] \in published \cup {NoFile}
                            \/ q \in Generators /\ open'[q] = new[q]
  BY <1>5, <1>9 DEF Owns, FilesInv
<1>16. Owns(new)'
  BY <1>5, <1>10, <1>11, <1>12, <1>13, <1>14, <1>15 DEF Owns
<1> QED
  BY <1>16

\* A step of a generator that publishes nothing: its own file is all it may change.
LEMMA OwnStepKeepsOwners ==
    ASSUME FilesInv, Quiet, NEW own, Owns(own), NEW g \in Generators, NEW from, NEW to,
           Moves(g, from, to), from \in Unpublished, NEW new,
           new = own \/ new = [own EXCEPT ![g] = NoFile],
           GeneratorOwns(g, new[g])', open'[g] \in {new[g], NoFile},
           \A q \in Processes \ {g} : open'[q] = open[q],
           \A f \in Generators \ {g} : temporary'[pid[f]] = temporary[pid[f]],
           \A name \in Pids \ {pid[g]} : temporary'[name] = temporary[name],
           \A i \in Inodes : i # own[g] => content'[i] = content[i],
           UNCHANGED <<path, published, pid>>
    PROVE  Owns(new)'
<1>1. /\ Generators \subseteq Processes
      /\ new[g] \in {own[g], NoFile} /\ \A f \in Generators \ {g} : new[f] = own[f]
      /\ new \in [Generators -> Inodes \cup {NoFile}]
  BY DEF Processes, Owns
<1>2. ASSUME NEW f \in Generators PROVE GeneratorOwns(f, new[f])'
  <2>1. CASE f = g
    BY <2>1
  <2>2. CASE f # g
    <3>1. GeneratorOwns(f, own[f]) /\ own[f] \in Inodes \cup {NoFile}
      BY DEF Owns
    <3>2. pc'[f] = pc[f] /\ open'[f] = open[f] /\ new[f] = own[f]
      BY <1>1, <2>2 DEF Moves
    <3>3. own[f] \in Inodes => content'[own[f]] = content[own[f]]
      <4>1. own[f] \in Inodes => own[f] # NoFile
        BY SidecarAssumption
      <4>2. own[f] # NoFile => own[f] # own[g]
        BY <2>2 DEF Owns
      <4> QED
        BY <4>1, <4>2
    <3> QED
      BY <2>2, <3>1, <3>2, <3>3 DEF GeneratorOwns, Progress
  <2> QED
    BY <2>1, <2>2
<1>3. ASSUME NEW j \in published
      PROVE  /\ j \in Inodes
             /\ \E f \in Generators :
                   new[f] = j /\ pc'[f] \notin Unpublished /\ content'[j] = Whole(PlanOf[f])
  <2>1. PICK f \in Generators :
           own[f] = j /\ pc[f] \notin Unpublished /\ content[j] = Whole(PlanOf[f])
    BY DEF Owns
  <2>2. j \in Inodes /\ j # NoFile /\ f # g
    BY <2>1, SidecarAssumption DEF Owns, Moves
  <2>3. j # own[g]
    BY <2>1, <2>2 DEF Owns
  <2>4. pc'[f] = pc[f] /\ new[f] = j /\ content'[j] = content[j]
    BY <1>1, <2>1, <2>2, <2>3 DEF Moves
  <2> QED
    BY <2>1, <2>2, <2>4
<1>4. \A f, e \in Generators : new[f] = new[e] /\ new[f] # NoFile => f = e
  BY <1>1 DEF Owns
<1>5. \A name \in Pids : (\A f \in Generators : pid'[f] # name) => temporary'[name] = NoFile
  BY DEF Owns
<1>6. \A q \in Processes : \/ open'[q] \in published \cup {NoFile}
                           \/ q \in Generators /\ open'[q] = new[q]
  BY <1>1 DEF Owns
<1> QED
  BY <1>1, <1>2, <1>3, <1>4, <1>5, <1>6 DEF Owns

\* What a part adds to the file at each place.
LEMMA WriteKeepsOwners ==
    ASSUME FilesInv, Quiet, NEW own, Owns(own), NEW g \in Generators,
           NEW k, NEW part, NEW from \in Writing, NEW to \in {"offsets", "records", "close"},
           Write(g, k, part, from, to), UNCHANGED pid,
           \/ from = "header" /\ to = "offsets" /\ k = 1 /\ part = Header(PlanOf[g])
           \/ from = "offsets" /\ to = "records" /\ k = 2 /\ part = Offsets(PlanOf[g])
           \/ from = "records" /\ to = "close" /\ k = 3 /\ part = Records(PlanOf[g])
    PROVE  Owns(own)'
<1> DEFINE file == own[g]
<1>1. GeneratorOwns(g, file) /\ g \in Processes
  BY DEF Owns, Processes
<1>2. UNCHANGED <<open, temporary, path, published>>
  BY DEF Write
<1>3. /\ pc[g] = from
      /\ open[g] = file /\ file \in Inodes /\ temporary[pid[g]] = file
      /\ Progress(g, content[file])
  BY <1>1 DEF GeneratorOwns, Write, Goto
<1>4. to \in Places /\ "failed" \in Places /\ from \in Unpublished
  BY DEF Places, Unpublished, Writing
<1>5. CASE Goto(g, from, to) /\ content' = [content EXCEPT ![open[g]] = Written(@, k, part)]
  <2>1. Moves(g, from, to)
    BY <1>1, <1>4, <1>5, GotoMoves
  <2>2. content'[file] = Written(content[file], k, part)
    BY <1>3, <1>5 DEF FilesInv
  <2>3. Progress(g, content[file])'
    <3>1. CASE from = "header" /\ to = "offsets" /\ k = 1 /\ part = Header(PlanOf[g])
      <4>1. content[file] = <<>>
        BY <1>3, <3>1 DEF Progress
      <4>2. content'[file] = <<Header(PlanOf[g])>>
        BY <2>2, <3>1, <4>1, WrittenTo0
      <4> QED
        BY <2>1, <3>1, <4>2 DEF Progress, Moves
    <3>2. CASE from = "offsets" /\ to = "records" /\ k = 2 /\ part = Offsets(PlanOf[g])
      <4>1. content[file] = <<Header(PlanOf[g])>>
        BY <1>3, <3>2 DEF Progress
      <4>2. content'[file] = <<Header(PlanOf[g]), Offsets(PlanOf[g])>>
        BY <2>2, <3>2, <4>1, WrittenTo1
      <4> QED
        BY <2>1, <3>2, <4>2 DEF Progress, Moves
    <3>3. CASE from = "records" /\ to = "close" /\ k = 3 /\ part = Records(PlanOf[g])
      <4>1. content[file] = <<Header(PlanOf[g]), Offsets(PlanOf[g])>>
        BY <1>3, <3>3 DEF Progress
      <4>2. content'[file] = Whole(PlanOf[g])
        BY <2>2, <3>3, <4>1, WrittenTo2 DEF Whole
      <4> QED
        BY <2>1, <3>3, <4>2 DEF Progress, Moves
    <3> QED
      BY <3>1, <3>2, <3>3
  <2>4. GeneratorOwns(g, file)'
    BY <1>1, <1>2, <1>3, <2>1, <2>3 DEF GeneratorOwns, Moves, Writing
  <2>5. \A i \in Inodes : i # own[g] => content'[i] = content[i]
    BY <1>3, <1>5 DEF FilesInv
  <2> QED
    BY <1>2, <1>3, <1>4, <2>1, <2>4, <2>5, OwnStepKeepsOwners
<1>6. CASE \/ Goto(g, from, "failed") /\ content' = [content EXCEPT ![open[g]] = Written(@, k, Torn)]
           \/ Goto(g, from, "failed") /\ UNCHANGED content
  <2>1. Moves(g, from, "failed")
    BY <1>1, <1>4, <1>6, GotoMoves
  <2>2. GeneratorOwns(g, file)'
    BY <1>1, <1>2, <2>1 DEF GeneratorOwns, Moves, Writing
  <2>3. \A i \in Inodes : i # own[g] => content'[i] = content[i]
    BY <1>3, <1>6 DEF FilesInv
  <2> QED
    BY <1>2, <1>3, <1>4, <2>1, <2>2, <2>3, OwnStepKeepsOwners
<1> QED
  BY <1>5, <1>6 DEF Write

LEMMA CloseKeepsOwners ==
    ASSUME FilesInv, Quiet, NEW own, Owns(own), NEW g \in Generators, Close(g), UNCHANGED pid
    PROVE  Owns(own)'
<1> DEFINE file == own[g]
<1>1. GeneratorOwns(g, file) /\ g \in Processes
  BY DEF Owns, Processes
<1>2. /\ open' = [open EXCEPT ![g] = NoFile]
      /\ UNCHANGED <<content, temporary, path, published>>
  BY DEF Close, KeepFiles
<1>3. Moves(g, "close", "rename")
  BY <1>1, GotoMoves DEF Close, Places
<1>4. GeneratorOwns(g, file)'
  BY <1>1, <1>2, <1>3 DEF GeneratorOwns, Moves, Writing, Progress
<1>5. open'[g] = NoFile /\ \A q \in Processes \ {g} : open'[q] = open[q]
  BY <1>1, <1>2 DEF FilesInv
<1>6. "close" \in Unpublished
  BY DEF Unpublished, Writing
<1> QED
  BY <1>2, <1>3, <1>4, <1>5, <1>6, OwnStepKeepsOwners

LEMMA RemoveKeepsOwners ==
    ASSUME FilesInv, Quiet, NEW own, Owns(own), NEW g \in Generators, Remove(g), UNCHANGED pid
    PROVE  \E new : Owns(new)'
<1> DEFINE new == [own EXCEPT ![g] = NoFile]
<1>1. /\ g \in Processes /\ \A f \in Generators \ {g} : pid[f] # pid[g]
      /\ \A f \in Generators : pid[f] \in Pids
  BY DEF Processes, Quiet, Alone, FilesInv
<1>2. /\ open' = [open EXCEPT ![g] = NoFile]
      /\ temporary' = [temporary EXCEPT ![pid[g]] = NoFile]
      /\ UNCHANGED <<content, path, published>>
  BY DEF Remove
<1>3. Moves(g, "failed", "done")
  BY <1>1, GotoMoves DEF Remove, Places
<1>4. new[g] = NoFile
  BY DEF Owns
<1>5. /\ temporary'[pid[g]] = NoFile
      /\ \A f \in Generators \ {g} : temporary'[pid[f]] = temporary[pid[f]]
      /\ \A name \in Pids \ {pid[g]} : temporary'[name] = temporary[name]
  BY <1>1, <1>2 DEF FilesInv
<1>6. GeneratorOwns(g, NoFile)'
  BY <1>3, <1>5 DEF GeneratorOwns, Moves, Writing
<1>7. open'[g] = NoFile /\ \A q \in Processes \ {g} : open'[q] = open[q]
  BY <1>1, <1>2 DEF FilesInv
<1>8. "failed" \in Unpublished
  BY DEF Unpublished
<1> HIDE DEF new
<1>9. new = own \/ new = [own EXCEPT ![g] = NoFile]
  BY DEF new
<1>10. GeneratorOwns(g, new[g])'
  BY <1>4, <1>6
<1>11. Owns(new)'
  BY <1>2, <1>3, <1>5, <1>7, <1>8, <1>9, <1>10, OwnStepKeepsOwners
<1> QED
  BY <1>11

LEMMA RenameKeepsOwners ==
    ASSUME FilesInv, Quiet, NEW own, Owns(own), NEW g \in Generators, Rename(g), UNCHANGED pid
    PROVE  Owns(own)'
<1> DEFINE file == own[g]
<1>1. /\ Generators \subseteq Processes /\ \A f \in Generators \ {g} : pid[f] # pid[g]
      /\ \A f \in Generators : pid[f] \in Pids
  BY DEF Processes, Quiet, Alone, FilesInv
<1>2. GeneratorOwns(g, file) /\ pc[g] = "rename"
  BY DEF Owns, Rename, Goto
<1>3. /\ temporary[pid[g]] = file /\ file \in Inodes /\ file # NoFile
      /\ content[file] = Whole(PlanOf[g])
  BY <1>2, SidecarAssumption DEF GeneratorOwns, Progress
<1>4. Moves(g, "rename", "open")
  <2>1. Goto(g, "rename", "open")
    BY <1>3 DEF Rename
  <2> QED
    BY <1>1, <2>1, GotoMoves DEF Places
<1>5. /\ path' = file /\ published' = published \cup {file}
      /\ temporary' = [temporary EXCEPT ![pid[g]] = NoFile]
      /\ UNCHANGED <<open, content>>
  BY <1>3 DEF Rename
<1>6. /\ temporary'[pid[g]] = NoFile
      /\ \A f \in Generators \ {g} : temporary'[pid[f]] = temporary[pid[f]]
      /\ \A name \in Pids \ {pid[g]} : temporary'[name] = temporary[name]
  BY <1>1, <1>5 DEF FilesInv
<1>7. ASSUME NEW f \in Generators PROVE GeneratorOwns(f, own[f])'
  <2>1. CASE f = g
    BY <1>4, <1>5, <1>6, <2>1 DEF GeneratorOwns, Moves, Writing
  <2>2. CASE f # g
    <3>1. GeneratorOwns(f, own[f]) /\ pc'[f] = pc[f]
      BY <1>1, <1>4, <2>2 DEF Owns, Moves
    <3> QED
      BY <1>5, <1>6, <2>2, <3>1 DEF GeneratorOwns, Progress
  <2> QED
    BY <2>1, <2>2
<1>8. ASSUME NEW j \in published'
      PROVE  /\ j \in Inodes
             /\ \E f \in Generators :
                   own[f] = j /\ pc'[f] \notin Unpublished /\ content'[j] = Whole(PlanOf[f])
  <2>1. CASE j = file
    BY <1>3, <1>4, <1>5, <2>1 DEF Moves, Unpublished, Writing
  <2>2. CASE j \in published
    <3>1. PICK f \in Generators :
             own[f] = j /\ pc[f] \notin Unpublished /\ content[j] = Whole(PlanOf[f])
      BY <2>2 DEF Owns
    <3>2. f # g
      BY <1>2, <3>1 DEF Unpublished
    <3>3. pc'[f] = pc[f] /\ content'[j] = content[j]
      BY <1>1, <1>4, <1>5, <3>2 DEF Moves
    <3> QED
      BY <2>2, <3>1, <3>3 DEF Owns
  <2> QED
    BY <1>5, <2>1, <2>2
<1>9. \A name \in Pids : (\A f \in Generators : pid'[f] # name) => temporary'[name] = NoFile
  BY <1>6 DEF Owns
<1>10. \A q \in Processes : \/ open'[q] \in published' \cup {NoFile}
                            \/ q \in Generators /\ open'[q] = own[q]
  BY <1>5 DEF Owns
<1>11. path' \in published' \cup {NoFile}
  BY <1>5
<1> QED
  BY <1>7, <1>8, <1>9, <1>10, <1>11 DEF Owns

\* Where every step leads and what it leaves of the files' names.
LEMMA StepTypes ==
    ASSUME FilesInv, [SidecarNext]_sidecarVars
    PROVE  /\ pc' \in [Processes -> Places]
           /\ DOMAIN open' = Processes
           /\ DOMAIN content' = Inodes
           /\ DOMAIN temporary' = Pids
           /\ pid' = pid
           /\ crashes' \in Nat
           /\ crashes' = 0 => crashes = 0
<1>1. CASE UNCHANGED sidecarVars
  BY <1>1 DEF sidecarVars, FilesInv
<1>2. CASE Crash /\ UNCHANGED pid
  <2>1. crashes' \in Nat /\ crashes' # 0 /\ pid' = pid
    <3>1. crashes \in Nat /\ crashes' = crashes + 1
      BY <1>2 DEF Crash, FilesInv
    <3> QED
      BY <1>2, <3>1
  <2>2. /\ pc' = [p \in Processes |-> IF p \in Generators THEN "create" ELSE "open"]
        /\ open' = [p \in Processes |-> NoFile] /\ temporary' = [name \in Pids |-> NoFile]
        /\ \E parts : content' = [i \in Inodes |-> IF i = path' THEN parts ELSE <<>>]
    BY <1>2, Zenon DEF Crash
  <2> QED
    BY <2>1, <2>2 DEF Places
<1>3. ASSUME NEW p \in Processes, Step(p), UNCHANGED pid
      PROVE  /\ pc' \in [Processes -> Places]
             /\ DOMAIN open' = Processes
             /\ DOMAIN content' = Inodes
             /\ DOMAIN temporary' = Pids
             /\ UNCHANGED crashes
  <2>1. CASE Create(p)
    BY <2>1 DEF Create, Goto, FilesInv, Places
  <2>2. CASE \/ Write(p, 1, Header(PlanOf[p]), "header", "offsets")
             \/ Write(p, 2, Offsets(PlanOf[p]), "offsets", "records")
             \/ Write(p, 3, Records(PlanOf[p]), "records", "close")
    BY <2>2 DEF Write, Goto, FilesInv, Places
  <2>3. CASE Close(p) \/ Rename(p) \/ Remove(p)
    BY <2>3 DEF Close, Rename, Remove, Goto, KeepFiles, FilesInv, Places
  <2>4. CASE Open(p) \/ LoadHeader(p) \/ LoadOffsets(p) \/ LoadRecords(p)
    BY <2>4 DEF Open, LoadHeader, LoadOffsets, LoadRecords, Loaded, Goto, KeepFiles, FilesInv, Places
  <2> QED
    BY <1>3, <2>1, <2>2, <2>3, <2>4 DEF Step
<1> QED
  BY <1>1, <1>2, <1>3 DEF SidecarNext, FilesInv

LEMMA LoadStepKeepsOwners ==
    ASSUME FilesInv, NEW own, Owns(own), NEW p \in Processes,
           Open(p) \/ LoadHeader(p) \/ LoadOffsets(p) \/ LoadRecords(p), UNCHANGED pid
    PROVE  Owns(own)'
<1> DEFINE Loading == {"open", "load header", "load offsets", "load records", "done"}
<1>1. PICK from \in Loading, to \in Loading : Goto(p, from, to)
  <2>1. CASE Open(p)
    BY <2>1 DEF Open
  <2>2. CASE LoadHeader(p)
    BY <2>2 DEF LoadHeader, Loaded
  <2>3. CASE LoadOffsets(p)
    BY <2>3 DEF LoadOffsets, Loaded
  <2>4. CASE LoadRecords(p)
    BY <2>4 DEF LoadRecords
  <2> QED
    BY <2>1, <2>2, <2>3, <2>4
<1>2. from \notin Unpublished /\ to \notin Unpublished /\ to \in Places
  BY DEF Unpublished, Writing, Places
<1>3. Moves(p, from, to)
  BY <1>1, <1>2, GotoMoves
<1>4. KeepFiles
  BY DEF Open, LoadHeader, LoadOffsets, LoadRecords, Loaded
<1>5. /\ DOMAIN open' = Processes /\ open'[p] \in {open[p], NoFile, path}
      /\ \A q \in Processes \ {p} : open'[q] = open[q]
  BY DEF Open, LoadHeader, LoadOffsets, LoadRecords, Loaded, FilesInv
<1> QED
  BY <1>2, <1>3, <1>4, <1>5, LoadKeepsOwners

LEMMA FilesStep ==
    ASSUME FilesInv, [SidecarNext]_sidecarVars
    PROVE  FilesInv'
<1>1. SUFFICES ASSUME Quiet' PROVE \E new : Owns(new)'
  BY StepTypes DEF FilesInv
<1>2. Quiet /\ UNCHANGED pid
  BY <1>1, StepTypes DEF Quiet, Alone
<1>3. PICK own : Owns(own)
  BY <1>2 DEF FilesInv
<1>4. CASE UNCHANGED sidecarVars
  <2>1. Owns(own)'
    BY <1>3, <1>4 DEF sidecarVars, Owns, GeneratorOwns, Progress
  <2> QED
    BY <2>1
<1>5. CASE Crash
  BY <1>1, <1>5 DEF Quiet, Crash, FilesInv
<1>6. ASSUME NEW p \in Processes, Step(p) PROVE \E new : Owns(new)'
  <2>1. CASE p \in Generators /\ Create(p)
    BY <1>2, <1>3, <2>1, CreateKeepsOwners
  <2>2. CASE p \in Generators /\ Write(p, 1, Header(PlanOf[p]), "header", "offsets")
    <3>1. Owns(own)'
      BY <1>2, <1>3, <2>2, WriteKeepsOwners DEF Writing
    <3> QED
      BY <3>1
  <2>3. CASE p \in Generators /\ Write(p, 2, Offsets(PlanOf[p]), "offsets", "records")
    <3>1. Owns(own)'
      BY <1>2, <1>3, <2>3, WriteKeepsOwners DEF Writing
    <3> QED
      BY <3>1
  <2>4. CASE p \in Generators /\ Write(p, 3, Records(PlanOf[p]), "records", "close")
    <3>1. Owns(own)'
      BY <1>2, <1>3, <2>4, WriteKeepsOwners DEF Writing
    <3> QED
      BY <3>1
  <2>5. CASE p \in Generators /\ Close(p)
    <3>1. Owns(own)'
      BY <1>2, <1>3, <2>5, CloseKeepsOwners
    <3> QED
      BY <3>1
  <2>6. CASE p \in Generators /\ Rename(p)
    <3>1. Owns(own)'
      BY <1>2, <1>3, <2>6, RenameKeepsOwners
    <3> QED
      BY <3>1
  <2>7. CASE p \in Generators /\ Remove(p)
    BY <1>2, <1>3, <2>7, RemoveKeepsOwners
  <2>8. CASE Open(p) \/ LoadHeader(p) \/ LoadOffsets(p) \/ LoadRecords(p)
    <3>1. Owns(own)'
      BY <1>2, <1>3, <2>8, LoadStepKeepsOwners
    <3> QED
      BY <3>1
  <2> QED
    BY <1>6, <2>1, <2>2, <2>3, <2>4, <2>5, <2>6, <2>7, <2>8 DEF Step
<1> QED
  BY <1>4, <1>5, <1>6 DEF SidecarNext

\* Until the host crashes, generators with process ids of their own write each to a file
\* of its own, which the sidecar's name leads to only once it is complete.
THEOREM FilesInvariance == SidecarSpec => []FilesInv
<1>1. FilesInv /\ [SidecarNext]_sidecarVars => FilesInv'
  BY FilesStep
<1> QED
  BY FilesInit, <1>1, PTL DEF SidecarSpec

\* Until the host crashes, and where no two generators share a temporary's name, the
\* sidecar's name leads to a complete file or to none at every moment.
THEOREM PublishedHolds == SidecarSpec => []PublishedIsComplete
<1>1. FilesInv => PublishedIsComplete
  BY DEF FilesInv, Quiet, Owns, PublishedIsComplete
<1> QED
  BY <1>1, FilesInvariance, PTL
===============================================================================
