------------------------- MODULE OnlineDueling_proof -------------------------
(* For every number of threads, arms and sets and every window length: the    *)
(* selector's types, the chain of the transitions it reports and the          *)
(* conservation of its misses; and for every counter width, that a single     *)
(* core's recordMiss implements the hardware selector.                        *)
EXTENDS DuelingRefinement, Sums

LEMMA ArmsNonEmpty == /\ DUEL_ARM_COUNT \in Nat /\ DUEL_ARM_COUNT >= 1
                      /\ DUEL_RRIP \in Arms /\ NoLeader \notin Arms
                      /\ Arms \subseteq Nat
PROOF
<1>1. DUEL_ARM_COUNT \in Nat /\ DUEL_ARM_COUNT >= 1
  BY ArmCountAssumption, SMT
<1>2. DUEL_RRIP \in Arms /\ NoLeader \notin Arms
  BY <1>1, SMT DEF Arms, DUEL_RRIP, NoLeader
<1> QED BY <1>1, <1>2 DEF Arms

-----------------------------------------------------------------------------
(* Remainders.                                                                *)
LEMMA ModBounds ==
    ASSUME NEW K \in Nat \ {0}, NEW s \in Nat
    PROVE  s % K \in 0 .. K - 1 /\ s \div K \in Int /\ s = K * (s \div K) + (s % K)
BY SMT

LEMMA ModSmall ==
    ASSUME NEW K \in Nat \ {0}, NEW s \in 0 .. K - 1
    PROVE  s % K = s
BY SMT

LEMMA ModUnique ==
    ASSUME NEW K \in Nat \ {0}, NEW s \in Nat, NEW q \in Int, NEW r \in 0 .. K - 1,
           s = K * q + r
    PROVE  s % K = r
PROOF
<1> DEFINE p == s \div K
           x == s % K
<1>1. x \in 0 .. K - 1 /\ p \in Int /\ s = K * p + x
  BY ModBounds
<1> HIDE DEF p, x
<1>2. CASE q > p
  <2>1. K * q >= K * (p + 1)
    BY <1>1, <1>2, SMT
  <2>2. K * (p + 1) = K * p + K
    BY <1>1, SMT
  <2> QED BY <1>1, <2>1, <2>2, SMT
<1>3. CASE q < p
  <2>1. K * p >= K * (q + 1)
    BY <1>1, <1>3, SMT
  <2>2. K * (q + 1) = K * q + K
    BY <1>1, SMT
  <2> QED BY <1>1, <2>1, <2>2, SMT
<1>4. CASE q = p
  BY <1>1, <1>4, SMT DEF x
<1> QED BY <1>1, <1>2, <1>3, <1>4, SMT

(* The window boundary: counting to K by remainders is counting to K and      *)
(* starting over.                                                             *)
LEMMA NextRemainder ==
    ASSUME NEW K \in Nat \ {0}, NEW s \in Nat
    PROVE  (s + 1) % K = IF s % K = K - 1 THEN 0 ELSE (s % K) + 1
PROOF
<1> DEFINE q == s \div K
           r == s % K
<1>1. r \in 0 .. K - 1 /\ q \in Int /\ s = K * q + r
  BY ModBounds
<1> HIDE DEF q, r
<1>2. CASE r = K - 1
  <2>1. s + 1 = K * (q + 1) + 0
    <3>1. K * (q + 1) = K * q + K
      BY <1>1, SMT
    <3> QED BY <1>1, <1>2, <3>1, SMT
  <2>2. q + 1 \in Int /\ 0 \in 0 .. K - 1 /\ s + 1 \in Nat
    BY <1>1, SMT
  <2>3. (s + 1) % K = 0
    BY <2>1, <2>2, ModUnique
  <2> QED BY <1>2, <2>3 DEF r
<1>3. CASE r # K - 1
  <2>1. s + 1 = K * q + (r + 1) /\ r + 1 \in 0 .. K - 1 /\ s + 1 \in Nat
    BY <1>1, <1>3, SMT
  <2>2. (s + 1) % K = r + 1
    BY <1>1, <2>1, ModUnique
  <2> QED BY <1>3, <2>2 DEF r
<1> QED BY <1>2, <1>3

-----------------------------------------------------------------------------
(* Arms, and the locals of a call.                                            *)
LEMMA LeaderIsArm == \A set \in Nat : LeaderArm(set) # NoLeader => LeaderArm(set) \in Arms
PROOF
<1> TAKE set \in Nat
<1>1. set % 64 \in 0 .. 63
  BY ModBounds
<1>2. LeaderArm(set) = IF set % 64 < DUEL_ARM_COUNT THEN set % 64 ELSE NoLeader
  BY DEF LeaderArm
<1> DEFINE slot == set % 64
<1> HIDE DEF slot
<1>3. slot \in 0 .. 63 /\ LeaderArm(set) = IF slot < DUEL_ARM_COUNT THEN slot ELSE NoLeader
  BY <1>1, <1>2 DEF slot
<1>4. slot < DUEL_ARM_COUNT => slot \in Arms
  BY <1>3, ArmsNonEmpty, SMT DEF Arms
<1> QED BY <1>3, <1>4

(* A nonempty set of naturals has a least element, so the comparison always   *)
(* yields an arm.                                                             *)
LEMMA BestArmIsArm ==
    ASSUME NEW w \in [Arms -> Nat], NEW i \in Arms
    PROVE  BestArm(w, i) \in Arms
PROOF
<1> DEFINE Least(a) == \A b \in Arms : w[a] <= w[b]
           T == {w[a] : a \in Arms}
           L == {a \in Arms : Least(a)}
<1>1. T \in SUBSET Nat /\ T # {}
  BY ArmsNonEmpty
<1>2. PICK x \in T : \A y \in T : x <= y
  BY <1>1, LeastNatural
<1>3. PICK a \in Arms : w[a] = x
  BY <1>2
<1>4. L \in SUBSET Nat /\ L # {}
  <2>1. Least(a)
    BY <1>2, <1>3
  <2> QED BY <2>1, ArmsNonEmpty
<1>5. PICK c \in L : \A b \in L : c <= b
  BY <1>4, LeastNatural
<1>6. c \in Arms /\ Least(c) /\ \A b \in Arms : Least(b) => c <= b
  BY <1>5
<1>7. BestArm(w, i) = IF Least(i) THEN i
                      ELSE CHOOSE a1 \in Arms : Least(a1) /\ \A b \in Arms : Least(b) => a1 <= b
  BY DEF BestArm
<1> QED BY <1>6, <1>7

(* What deciding leaves alone of the locals.                                  *)
LEMMA DecidedCall ==
    ASSUME NEW c \in Calls, NEW b \in Arms, NEW d, d = [c EXCEPT !.best = b]
    PROVE  /\ d \in Calls /\ d.leader = c.leader /\ d.arm = c.arm
           /\ d.window = c.window /\ d.best = b
BY DEF Calls


LEMMA IdleCallType == IdleCall \in Calls
PROOF
<1>1. Zero \in [Arms -> Nat]
  BY DEF Zero
<1>2. 0 \in 0 .. DUEL_ARM_COUNT
  BY ArmsNonEmpty, SMT
<1> QED BY <1>1, <1>2, ArmsNonEmpty DEF IdleCall, Calls

PcValues == {"idle", "count", "sample", "drain", "decide", "install"}

(* TypeOK is not inductive: a drain must still have an arm to take.           *)
IInv ==
    /\ TypeOK
    /\ \A t \in Threads : pc[t] \in {"count", "sample"} => call[t].arm = 0
    /\ \A t \in Threads : pc[t] = "drain" => call[t].arm < DUEL_ARM_COUNT
    /\ TransitionChain
    /\ NoMissLost

LEMMA InitIInv == Init => IInv
PROOF
<1> SUFFICES ASSUME Init PROVE IInv
  OBVIOUS
<1>1. Zero \in [Arms -> Nat] /\ \A a \in Arms : Zero[a] = 0
  BY DEF Zero
<1>2. TypeOK
  BY <1>1, ArmsNonEmpty, IdleCallType, MaxMissesAssumption, SMT DEF Init, TypeOK
<1>3. TransitionChain
  BY <1>1, SMT DEF Init, TransitionChain
<1>4. NoMissLost
  BY <1>1, SMT DEF Init, NoMissLost
<1> QED BY <1>2, <1>3, <1>4 DEF IInv, Init

(* A call that starts.                                                        *)
LEMMA StartIInv ==
    ASSUME IInv, NEW t \in Threads, NEW set \in Sets, Start(t, set)
    PROVE  IInv'
PROOF
<1>1. LeaderArm(set) \in Arms
  BY LeaderIsArm, SetsAssumption DEF Start
<1> DEFINE d == [IdleCall EXCEPT !.leader = LeaderArm(set), !.before = winner_]
<1>2. d \in Calls /\ d.leader \in Arms /\ d.arm = 0
  <2>1. winner_ \in Arms
    BY DEF IInv, TypeOK
  <2> QED BY <1>1, <2>1, IdleCallType DEF IdleCall, Calls
<1>3. /\ pc' = [pc EXCEPT ![t] = "count"]
      /\ call' = [call EXCEPT ![t] = d]
      /\ UNCHANGED <<shared, counted, drained, reported, seen>>
  BY DEF Start
<1>4. issued' \in 0 .. MaxMisses
  BY MaxMissesAssumption, SMT DEF Start, IInv, TypeOK
<1> HIDE DEF d
<1>5. TypeOK'
  BY <1>2, <1>3, <1>4 DEF IInv, TypeOK, shared
<1>6. TransitionChain' /\ NoMissLost'
  BY <1>3 DEF IInv, TransitionChain, NoMissLost, shared
<1> QED BY <1>2, <1>3, <1>5, <1>6 DEF IInv, TypeOK

LEMMA CountMissIInv ==
    ASSUME IInv, NEW t \in Threads, CountMiss(t)
    PROVE  IInv'
PROOF
<1> DEFINE l == call[t].leader
<1>1. l \in Arms
  BY DEF CountMiss, IInv, TypeOK
<1> HIDE DEF l
<1>2. /\ misses_' = [misses_ EXCEPT ![l] = misses_[l] + 1]
      /\ counted' = [counted EXCEPT ![l] = counted[l] + 1]
      /\ pc' = [pc EXCEPT ![t] = "sample"]
      /\ UNCHANGED <<sampled_misses_, winner_, call, issued, drained, reported, seen>>
      /\ pc[t] = "count"
  BY DEF CountMiss, l
<1>3. TypeOK'
  BY <1>1, <1>2, SMT DEF IInv, TypeOK
<1>4. NoMissLost'
  <2>1. ASSUME NEW a \in Arms
        PROVE  counted'[a] = drained[a] + misses_'[a]
    BY <1>1, <1>2, SMT DEF IInv, TypeOK, NoMissLost
  <2> QED BY <1>2, <2>1 DEF NoMissLost
<1>5. TransitionChain'
  BY <1>2 DEF IInv, TransitionChain
<1> QED BY <1>2, <1>3, <1>4, <1>5 DEF IInv, TypeOK

LEMMA SampleIInv ==
    ASSUME IInv, NEW t \in Threads, SampleAndReturn(t) \/ SampleAndClose(t)
    PROVE  IInv'
PROOF
<1>1. /\ UNCHANGED <<misses_, winner_, history>>
      /\ sampled_misses_' = sampled_misses_ + 1
      /\ pc[t] = "sample"
  BY DEF SampleAndReturn, SampleAndClose
<1>2. sampled_misses_' \in Nat
  BY <1>1 DEF IInv, TypeOK
<1>3. TransitionChain' /\ NoMissLost'
  BY <1>1 DEF IInv, TransitionChain, NoMissLost, history
<1>4. CASE SampleAndReturn(t)
  BY <1>1, <1>2, <1>3, <1>4, IdleCallType
     DEF SampleAndReturn, IInv, TypeOK, history
<1>5. CASE SampleAndClose(t)
  <2>1. call[t].arm < DUEL_ARM_COUNT
    BY <1>1, ArmsNonEmpty, SMT DEF IInv
  <2> QED BY <1>1, <1>2, <1>3, <1>5, <2>1 DEF SampleAndClose, IInv, TypeOK, history
<1> QED BY <1>4, <1>5

LEMMA DrainIInv ==
    ASSUME IInv, NEW t \in Threads, Drain(t)
    PROVE  IInv'
PROOF
<1> DEFINE k == call[t].arm
           u == [call[t].window EXCEPT ![k] = misses_[k]]
           d == [call[t] EXCEPT !.window = u, !.arm = k + 1]
<1>1. k \in Arms /\ k + 1 \in 0 .. DUEL_ARM_COUNT
  <2>1. k \in 0 .. DUEL_ARM_COUNT /\ k < DUEL_ARM_COUNT
    BY DEF Drain, IInv, TypeOK, Calls
  <2> QED BY <2>1, ArmsNonEmpty, SMT DEF Arms
<1>2. /\ call[t] \in Calls /\ call[t].window \in [Arms -> Nat]
      /\ misses_ \in [Arms -> Nat] /\ drained \in [Arms -> Nat]
      /\ call[t].leader \in Arms
  BY DEF Drain, IInv, TypeOK, Calls
<1>3. u \in [Arms -> Nat]
  BY <1>1, <1>2
<1>4. d \in Calls /\ d.leader = call[t].leader /\ d.arm = k + 1
  <2> HIDE DEF k, u
  <2> QED BY <1>1, <1>2, <1>3 DEF Calls
<1>5. /\ call' = [call EXCEPT ![t] = d]
      /\ misses_' = [misses_ EXCEPT ![k] = 0]
      /\ drained' = [drained EXCEPT ![k] = drained[k] + misses_[k]]
      /\ pc' = [pc EXCEPT ![t] = IF k + 1 = DUEL_ARM_COUNT THEN "decide" ELSE "drain"]
      /\ UNCHANGED <<sampled_misses_, winner_, issued, counted, reported, seen>>
  BY DEF Drain, IInv, TypeOK
<1>6. pc'[t] = "drain" => d.arm < DUEL_ARM_COUNT
  BY <1>1, <1>4, <1>5, ArmsNonEmpty, SMT DEF IInv, TypeOK
<1> HIDE DEF d, k, u
<1>7. TypeOK'
  <2>1. misses_' \in [Arms -> Nat] /\ drained' \in [Arms -> Nat]
    BY <1>1, <1>2, <1>5, SMT
  <2> QED BY <1>2, <1>4, <1>5, <2>1 DEF IInv, TypeOK
<1>8. NoMissLost'
  <2>1. ASSUME NEW a \in Arms
        PROVE  counted[a] = drained'[a] + misses_'[a]
    BY <1>1, <1>2, <1>5, <2>1, SMT DEF IInv, NoMissLost
  <2> QED BY <1>5, <2>1 DEF NoMissLost
<1>9. TransitionChain'
  BY <1>5 DEF IInv, TransitionChain
<1> QED BY <1>4, <1>5, <1>6, <1>7, <1>8, <1>9 DEF IInv, TypeOK

LEMMA DecideIInv ==
    ASSUME IInv, NEW t \in Threads, Decide(t)
    PROVE  IInv'
PROOF
<1> DEFINE best == BestArm(call[t].window, winner_)
<1>1. best \in Arms
  BY BestArmIsArm DEF IInv, TypeOK, Calls
<1>2. /\ call[t] \in Calls
      /\ call' = [call EXCEPT ![t] = [call[t] EXCEPT !.best = best]]
      /\ pc' = [pc EXCEPT ![t] = "install"]
      /\ pc[t] = "decide"
      /\ UNCHANGED <<misses_, sampled_misses_, winner_, issued, counted, drained, reported>>
      /\ seen' \in [Threads -> Nat]
  BY DEF Decide, IInv, TypeOK, shared
<1> HIDE DEF best
<1>3. /\ call'[t] \in Calls
      /\ call'[t].leader = call[t].leader
  BY <1>1, <1>2, DecidedCall DEF IInv, TypeOK
<1>4. TypeOK'
  BY <1>2, <1>3 DEF IInv, TypeOK
<1>5. TransitionChain' /\ NoMissLost'
  BY <1>2 DEF IInv, TransitionChain, NoMissLost
<1> QED BY <1>2, <1>4, <1>5 DEF IInv, TypeOK

LEMMA InstallIInv ==
    ASSUME IInv, NEW t \in Threads, Install(t)
    PROVE  IInv'
PROOF
<1> DEFINE best == call[t].best
<1>1. best \in Arms /\ winner_ \in Arms
  BY DEF IInv, TypeOK, Calls
<1>2. /\ winner_' = best
      /\ reported'.windows = reported.windows + 1
      /\ reported'.before = [reported.before EXCEPT ![winner_] = reported.before[winner_] + 1]
      /\ reported'.after = [reported.after EXCEPT ![best] = reported.after[best] + 1]
      /\ reported' = [windows |-> reported'.windows, before |-> reported'.before,
                      after |-> reported'.after]
      /\ pc' = [pc EXCEPT ![t] = "idle"]
      /\ call' = [call EXCEPT ![t] = IdleCall]
      /\ UNCHANGED <<misses_, sampled_misses_, issued, counted, drained, seen>>
  BY DEF Install
<1> HIDE DEF best
<1>3. /\ reported.before \in [Arms -> Nat] /\ reported.after \in [Arms -> Nat]
      /\ reported.windows \in Nat
  BY DEF IInv, TypeOK
<1>4. TypeOK'
  <2>1. reported' \in [windows : Nat, before : [Arms -> Nat], after : [Arms -> Nat]]
    BY <1>1, <1>2, <1>3, SMT
  <2> QED BY <1>1, <1>2, <2>1, IdleCallType DEF IInv, TypeOK
<1>5. TransitionChain'
  <2>1. ASSUME NEW a \in Arms
        PROVE  reported'.before[a] - reported'.after[a]
                 = (IF a = DUEL_RRIP THEN 1 ELSE 0) - (IF a = best THEN 1 ELSE 0)
    <3>1. reported.before[a] - reported.after[a]
            = (IF a = DUEL_RRIP THEN 1 ELSE 0) - (IF a = winner_ THEN 1 ELSE 0)
      BY DEF IInv, TransitionChain
    <3>2. reported'.before[a] = reported.before[a] + (IF a = winner_ THEN 1 ELSE 0)
      BY <1>1, <1>2, <1>3, SMT
    <3>3. reported'.after[a] = reported.after[a] + (IF a = best THEN 1 ELSE 0)
      BY <1>1, <1>2, <1>3, SMT
    <3>4. reported.before[a] \in Nat /\ reported.after[a] \in Nat
      BY <1>3
    <3> DEFINE first == IF a = DUEL_RRIP THEN 1 ELSE 0
               left == IF a = winner_ THEN 1 ELSE 0
               entered == IF a = best THEN 1 ELSE 0
               b == reported.before[a]
               c == reported.after[a]
               bb == reported'.before[a]
               cc == reported'.after[a]
    <3>5. first \in Int /\ left \in Int /\ entered \in Int /\ b \in Int /\ c \in Int
      BY <3>4
    <3>6. b - c = first - left /\ bb = b + left /\ cc = c + entered
      BY <3>1, <3>2, <3>3
    <3>7. bb - cc = first - entered
      <4> HIDE DEF first, left, entered, b, c, bb, cc
      <4> QED BY <3>5, <3>6, SMT
    <3> QED BY <3>7
  <2> QED BY <1>2, <2>1 DEF TransitionChain
<1>6. NoMissLost'
  BY <1>2 DEF IInv, NoMissLost
<1> QED BY <1>2, <1>4, <1>5, <1>6 DEF IInv, TypeOK

LEMMA NextIInv == IInv /\ [Next]_vars => IInv'
PROOF
<1> SUFFICES ASSUME IInv, [Next]_vars PROVE IInv'
  OBVIOUS
<1>1. CASE UNCHANGED vars
  BY <1>1 DEF vars, shared, history, IInv, TypeOK, TransitionChain, NoMissLost
<1>2. ASSUME NEW t \in Threads, NEW set \in Sets, Start(t, set)
      PROVE  IInv'
  BY <1>2, StartIInv
<1>3. ASSUME NEW t \in Threads, NEW set \in Sets, Follow(t, set)
      PROVE  IInv'
  BY <1>1, <1>3 DEF Follow
<1>4. ASSUME NEW t \in Threads, Step(t)
      PROVE  IInv'
  BY <1>4, CountMissIInv, SampleIInv, DrainIInv, DecideIInv, InstallIInv DEF Step
<1> QED BY <1>1, <1>2, <1>3, <1>4 DEF Next

(* The variables keep their types, a draining call always has an arm left,    *)
(* the reported transitions form one chain and no sampled miss is lost.       *)
THEOREM Invariance == Spec => []IInv
PROOF
<1> QED BY InitIInv, NextIInv, PTL DEF Spec

(* Invariant 4 of test_ecg_online_dueling_concurrency.cc, for every number of *)
(* threads and every schedule: before and after of the completed windows form *)
(* one chain from the first winner to the present one.                        *)
THEOREM ChainHolds == Spec => []TransitionChain
PROOF
<1>1. IInv => TransitionChain
  BY DEF IInv
<1> QED BY <1>1, Invariance, PTL

(* The fetch_add and exchange of misses_ lose and duplicate no miss, for      *)
(* every number of threads and every schedule.                                *)
THEOREM MissesConserved == Spec => []NoMissLost
PROOF
<1>1. IInv => NoMissLost
  BY DEF IInv
<1> QED BY <1>1, Invariance, PTL

-----------------------------------------------------------------------------
(* The windows.                                                               *)
LEMMA NextQuotient ==
    ASSUME NEW K \in Nat \ {0}, NEW s \in Nat
    PROVE  (s + 1) \div K = (s \div K) + (IF (s + 1) % K = 0 THEN 1 ELSE 0)
PROOF
<1> DEFINE p == s \div K
           r == s % K
           q == (s + 1) \div K
           u == (s + 1) % K
<1>1. r \in 0 .. K - 1 /\ p \in Int /\ s = K * p + r
  BY ModBounds
<1>2. u \in 0 .. K - 1 /\ q \in Int /\ s + 1 = K * q + u
  BY ModBounds
<1>3. u = IF r = K - 1 THEN 0 ELSE r + 1
  BY NextRemainder
<1> HIDE DEF p, r, q, u
<1>4. K * q = K * (p + (IF u = 0 THEN 1 ELSE 0))
  <2>1. CASE r = K - 1
    <3>1. K * (p + 1) = K * p + K
      BY <1>1, SMT
    <3> QED BY <1>1, <1>2, <1>3, <2>1, <3>1, SMT
  <2>2. CASE r # K - 1
    <3>1. u = r + 1 /\ u # 0
      BY <1>1, <1>3, <2>2, SMT
    <3>2. p + 0 = p
      BY <1>1, SMT
    <3> QED BY <1>1, <1>2, <3>1, <3>2, SMT
  <2> QED BY <2>1, <2>2
<1>5. ASSUME NEW x \in Int, NEW y \in Int, K * x = K * y PROVE x = y
  <2>1. CASE x < y
    <3>1. K * (x + 1) <= K * y /\ K * (x + 1) = K * x + K
      BY <2>1, SMT
    <3> QED BY <1>5, <3>1, SMT
  <2>2. CASE y < x
    <3>1. K * (y + 1) <= K * x /\ K * (y + 1) = K * y + K
      BY <2>2, SMT
    <3> QED BY <1>5, <3>1, SMT
  <2> QED BY <2>1, <2>2, SMT
<1>6. q = p + (IF u = 0 THEN 1 ELSE 0)
  BY <1>1, <1>2, <1>4, <1>5, SMT
<1> QED BY <1>6 DEF p, q, u

ClosingCalls == {t \in Threads : Closing(t)}
Sampling == {t \in Threads : pc[t] = "sample"}
Taken(k) == {a \in Arms : a < k}

(* The last window that was closed has taken the misses of its first k arms,  *)
(* or of all: those that have come to these arms since were sampled after it. *)
LeftBehind(k) ==
    /\ k \in 0 .. DUEL_ARM_COUNT
    /\ k = DUEL_ARM_COUNT \/ \E t \in Threads : pc[t] = "drain" /\ call[t].arm = k
    /\ SumFunctionOnSet(misses_, Taken(k))
         <= (sampled_misses_ % kWindowMisses) + Cardinality(Sampling)

WindowsInv ==
    /\ IsFiniteSet(ClosingCalls) /\ IsFiniteSet(Sampling)
    /\ EachWindowReportedOnce
    /\ \E k \in 0 .. DUEL_ARM_COUNT : LeftBehind(k)

LEMMA ArmsFinite == IsFiniteSet(Arms) /\ \A k : Taken(k) \in SUBSET Arms /\ IsFiniteSet(Taken(k))
PROOF
<1>1. IsFiniteSet(Arms)
  BY ArmsNonEmpty, FS_Interval, SMT DEF Arms
<1>2. \A k : Taken(k) \in SUBSET Arms
  BY DEF Taken
<1> QED BY <1>1, <1>2, FS_Subset

LEMMA TakenAll == Taken(DUEL_ARM_COUNT) = Arms /\ Taken(0) = {}
PROOF
<1>1. \A a \in Arms : a < DUEL_ARM_COUNT /\ ~ (a < 0)
  BY ArmsNonEmpty, SMT DEF Arms
<1> QED BY <1>1 DEF Taken

(* A thread comes to a place, leaves it, or neither.                          *)
LEMMA OneMore ==
    ASSUME NEW S, IsFiniteSet(S), NEW t, NEW R
    PROVE  /\ R = S \cup {t} /\ t \notin S =>
                 IsFiniteSet(R) /\ Cardinality(R) = Cardinality(S) + 1
           /\ R = S \ {t} /\ t \in S =>
                 IsFiniteSet(R) /\ Cardinality(R) = Cardinality(S) - 1
           /\ Cardinality(S) \in Nat
BY FS_AddElement, FS_RemoveElement, FS_CardinalityType

LEMMA InitWindows == Init => WindowsInv
PROOF
<1> SUFFICES ASSUME Init PROVE WindowsInv
  OBVIOUS
<1>1. ClosingCalls = {} /\ Sampling = {}
  BY DEF Init, ClosingCalls, Closing, Sampling
<1>2. IsFiniteSet({}) /\ Cardinality({}) = 0
  BY FS_EmptySet
<1>3. 0 % kWindowMisses = 0 /\ 0 \div kWindowMisses = 0
  BY WindowAssumption, SMT
<1>4. EachWindowReportedOnce
  <2>1. reported.windows = 0 /\ sampled_misses_ = 0
    BY DEF Init
  <2>2. reported.windows + Cardinality(ClosingCalls) = sampled_misses_ \div kWindowMisses
    BY <1>1, <1>2, <1>3, <2>1
  <2> QED BY <2>2 DEF EachWindowReportedOnce, ClosingCalls
<1>5. SumFunctionOnSet(misses_, Arms) = 0
  <2>1. \A a \in Arms : misses_[a] = 0
    BY DEF Init, Zero
  <2> QED BY <2>1, ArmsFinite, SumOfZeros
<1>6. LeftBehind(DUEL_ARM_COUNT)
  BY <1>1, <1>2, <1>3, <1>5, TakenAll, ArmsNonEmpty, SMT DEF Init, LeftBehind
<1> QED BY <1>1, <1>2, <1>4, <1>6, ArmsNonEmpty, SMT DEF WindowsInv

(* A step of a thread that leaves the misses and the samples alone, or a call *)
(* that starts.                                                               *)
LEMMA ElsewhereWindows ==
    ASSUME IInv, WindowsInv, NEW t \in Threads, NEW to \in {"count", "install"},
           pc[t] \in {"idle", "decide"}, pc[t] = "decide" <=> to = "install",
           pc' = [pc EXCEPT ![t] = to], \A r \in Threads \ {t} : call'[r] = call[r],
           UNCHANGED <<misses_, sampled_misses_, reported>>
    PROVE  WindowsInv'
PROOF
<1>1. \A r \in Threads : pc'[r] = IF r = t THEN to ELSE pc[r]
  BY DEF IInv, TypeOK
<1>2. Sampling' = Sampling
  BY <1>1 DEF Sampling
<1>3. ClosingCalls' = ClosingCalls
  BY <1>1 DEF ClosingCalls, Closing
<1>4. EachWindowReportedOnce'
  BY <1>3 DEF WindowsInv, EachWindowReportedOnce, ClosingCalls
<1>5. ASSUME NEW k, LeftBehind(k) PROVE LeftBehind(k)'
  BY <1>1, <1>2, <1>5 DEF LeftBehind
<1> QED BY <1>2, <1>3, <1>4, <1>5 DEF WindowsInv

LEMMA CountMissWindows ==
    ASSUME IInv, WindowsInv, NEW t \in Threads, CountMiss(t)
    PROVE  WindowsInv'
PROOF
<1> DEFINE l == call[t].leader
<1>1. l \in Arms
  BY DEF CountMiss, IInv, TypeOK
<1> HIDE DEF l
<1>2. /\ misses_' = [misses_ EXCEPT ![l] = misses_[l] + 1]
      /\ pc' = [pc EXCEPT ![t] = "sample"] /\ pc[t] = "count"
      /\ UNCHANGED <<sampled_misses_, call, reported>>
  BY DEF CountMiss, l
<1>3. \A r \in Threads : pc'[r] = IF r = t THEN "sample" ELSE pc[r]
  BY <1>2 DEF IInv, TypeOK
<1>4. Sampling' = Sampling \cup {t} /\ t \notin Sampling
  BY <1>2, <1>3 DEF Sampling
<1>5. IsFiniteSet(Sampling') /\ Cardinality(Sampling') = Cardinality(Sampling) + 1
      /\ Cardinality(Sampling) \in Nat
  BY <1>4, OneMore DEF WindowsInv
<1>6. ClosingCalls' = ClosingCalls
  BY <1>2, <1>3 DEF ClosingCalls, Closing
<1>7. EachWindowReportedOnce'
  BY <1>2, <1>6 DEF WindowsInv, EachWindowReportedOnce, ClosingCalls
<1>8. /\ misses_ \in [Arms -> Nat] /\ misses_' \in [Arms -> Nat]
      /\ \A a \in Arms \ {l} : misses_'[a] = misses_[a]
      /\ misses_'[l] = misses_[l] + 1
  BY <1>1, <1>2, SMT DEF IInv, TypeOK
<1>9. ASSUME NEW k, LeftBehind(k) PROVE LeftBehind(k)'
  <2> DEFINE before == SumFunctionOnSet(misses_, Taken(k))
             after == SumFunctionOnSet(misses_', Taken(k))
  <2>1. Taken(k) \in SUBSET Arms /\ IsFiniteSet(Taken(k))
    BY ArmsFinite
  <2>2. before \in Nat
    BY <1>8, <2>1, SumIsNatural
  <2>3. after \in {before, before + 1}
    <3>1. CASE l \in Taken(k)
      <4>1. after = before - misses_[l] + misses_'[l]
        BY <1>8, <2>1, <3>1, SumOfChanged
      <4>2. misses_[l] \in Nat
        BY <1>1, <1>8
      <4> HIDE DEF before, after
      <4> QED BY <1>8, <2>2, <4>1, <4>2, SMT
    <3>2. CASE l \notin Taken(k)
      BY <1>8, <2>1, <3>2, SumOfAlike
    <3> QED BY <3>1, <3>2
  <2>4. before <= (sampled_misses_ % kWindowMisses) + Cardinality(Sampling)
    BY <1>9 DEF LeftBehind
  <2>5. (sampled_misses_ % kWindowMisses) \in Nat
    BY ModBounds, WindowAssumption DEF IInv, TypeOK
  <2> DEFINE rest == sampled_misses_ % kWindowMisses
  <2> HIDE DEF before, after, rest
  <2>6. after <= rest + Cardinality(Sampling')
    BY <1>5, <2>2, <2>3, <2>4, <2>5, SMT DEF rest
  <2>7. k = DUEL_ARM_COUNT \/ \E r \in Threads : pc'[r] = "drain" /\ call'[r].arm = k
    BY <1>2, <1>3, <1>9 DEF LeftBehind
  <2> QED BY <1>2, <1>9, <2>6, <2>7 DEF LeftBehind, after, rest
<1> QED BY <1>5, <1>6, <1>7, <1>9 DEF WindowsInv

LEMMA SampleAndReturnWindows ==
    ASSUME IInv, WindowsInv, NEW t \in Threads, SampleAndReturn(t)
    PROVE  WindowsInv'
PROOF
<1> DEFINE s == sampled_misses_
           K == kWindowMisses
<1>1. /\ UNCHANGED <<misses_, reported>> /\ s' = s + 1 /\ (s + 1) % K # 0
      /\ pc[t] = "sample" /\ pc' = [pc EXCEPT ![t] = "idle"]
      /\ call' = [call EXCEPT ![t] = IdleCall]
      /\ s \in Nat /\ K \in Nat \ {0}
  BY WindowAssumption DEF SampleAndReturn, ClosesWindow, history, IInv, TypeOK
<1>2. \A r \in Threads : pc'[r] = (IF r = t THEN "idle" ELSE pc[r])
                         /\ (r # t => call'[r] = call[r])
  BY <1>1 DEF IInv, TypeOK
<1>3. /\ Sampling' = Sampling \ {t} /\ t \in Sampling
      /\ ClosingCalls' = ClosingCalls
  BY <1>1, <1>2 DEF Sampling, ClosingCalls, Closing
<1>4. /\ IsFiniteSet(Sampling') /\ Cardinality(Sampling') = Cardinality(Sampling) - 1
      /\ Cardinality(Sampling) \in Nat
  BY <1>3, OneMore DEF WindowsInv
<1>5. (s + 1) \div K = s \div K
  <2>1. (s + 1) \div K = (s \div K) + 0 /\ s \div K \in Int
    BY <1>1, NextQuotient, ModBounds
  <2> QED BY <2>1, SMT
<1>6. EachWindowReportedOnce'
  BY <1>1, <1>3, <1>5 DEF WindowsInv, EachWindowReportedOnce, ClosingCalls
<1>7. (s + 1) % K = (s % K) + 1 /\ s % K \in Nat
  <2>1. (s + 1) % K = IF s % K = K - 1 THEN 0 ELSE (s % K) + 1
    BY <1>1, NextRemainder
  <2>2. s % K \in 0 .. K - 1
    BY <1>1, ModBounds
  <2> QED BY <1>1, <2>1, <2>2
<1>8. ASSUME NEW k, LeftBehind(k) PROVE LeftBehind(k)'
  <2>1. SumFunctionOnSet(misses_, Taken(k)) <= (s % K) + Cardinality(Sampling)
    BY <1>8 DEF LeftBehind
  <2> DEFINE rest == s % K
             sum == SumFunctionOnSet(misses_, Taken(k))
  <2>2. (s + 1) % K = rest + 1 /\ rest \in Nat /\ sum <= rest + Cardinality(Sampling)
    BY <1>7, <2>1
  <2> HIDE DEF rest, sum
  <2>3. sum <= ((s + 1) % K) + Cardinality(Sampling')
    BY <1>4, <2>2, SMT
  <2>4. k = DUEL_ARM_COUNT \/ \E r \in Threads : pc'[r] = "drain" /\ call'[r].arm = k
    BY <1>1, <1>2, <1>8 DEF LeftBehind
  <2> QED BY <1>1, <1>8, <2>3, <2>4 DEF LeftBehind, sum
<1> QED BY <1>3, <1>4, <1>6, <1>8 DEF WindowsInv

LEMMA SampleAndCloseWindows ==
    ASSUME IInv, WindowsInv, NEW t \in Threads, SampleAndClose(t)
    PROVE  WindowsInv'
PROOF
<1> DEFINE s == sampled_misses_
           K == kWindowMisses
<1>1. /\ UNCHANGED <<misses_, reported, call>> /\ s' = s + 1 /\ (s + 1) % K = 0
      /\ pc[t] = "sample" /\ pc' = [pc EXCEPT ![t] = "drain"]
      /\ s \in Nat /\ K \in Nat \ {0} /\ reported.windows \in Nat
  BY WindowAssumption DEF SampleAndClose, ClosesWindow, history, IInv, TypeOK
<1>2. \A r \in Threads : pc'[r] = (IF r = t THEN "drain" ELSE pc[r])
  BY <1>1 DEF IInv, TypeOK
<1>3. /\ Sampling' = Sampling \ {t} /\ t \in Sampling
      /\ ClosingCalls' = ClosingCalls \cup {t} /\ t \notin ClosingCalls
  BY <1>1, <1>2 DEF Sampling, ClosingCalls, Closing
<1>4. /\ IsFiniteSet(Sampling') /\ Cardinality(Sampling') = Cardinality(Sampling) - 1
      /\ Cardinality(Sampling) \in Nat
  BY <1>3, OneMore DEF WindowsInv
<1>5. /\ IsFiniteSet(ClosingCalls')
      /\ Cardinality(ClosingCalls') = Cardinality(ClosingCalls) + 1
      /\ Cardinality(ClosingCalls) \in Nat
  BY <1>3, OneMore DEF WindowsInv
<1>6. (s + 1) \div K = (s \div K) + 1
  BY <1>1, NextQuotient
<1>7. EachWindowReportedOnce'
  <2>1. reported.windows + Cardinality(ClosingCalls) = s \div K
    BY DEF WindowsInv, EachWindowReportedOnce, ClosingCalls
  <2>2. reported.windows + Cardinality(ClosingCalls') = (s + 1) \div K
    BY <1>1, <1>5, <1>6, <2>1
  <2> QED BY <1>1, <2>2 DEF EachWindowReportedOnce, ClosingCalls
<1>8. LeftBehind(0)'
  <2>1. SumFunctionOnSet(misses_', Taken(0)) = 0
    BY TakenAll, SumOfNothing
  <2>2. pc'[t] = "drain" /\ call'[t].arm = 0
    BY <1>1, <1>2 DEF IInv
  <2>3. Cardinality(Sampling') \in Nat
    BY <1>4, FS_CardinalityType
  <2>4. 0 <= (s' % K) + Cardinality(Sampling')
    BY <1>1, <2>3
  <2>5. 0 \in 0 .. DUEL_ARM_COUNT
    BY ArmsNonEmpty, SMT
  <2> QED BY <2>1, <2>2, <2>4, <2>5 DEF LeftBehind
<1> QED BY <1>4, <1>5, <1>7, <1>8, ArmsNonEmpty, SMT DEF WindowsInv

LEMMA DrainWindows ==
    ASSUME IInv, WindowsInv, NEW t \in Threads, Drain(t)
    PROVE  WindowsInv'
PROOF
<1>0. PICK arm : arm = call[t].arm
  OBVIOUS
<1> DEFINE next == IF arm + 1 = DUEL_ARM_COUNT THEN "decide" ELSE "drain"
<1>1. arm \in Arms /\ arm + 1 \in 0 .. DUEL_ARM_COUNT
  <2>1. arm \in 0 .. DUEL_ARM_COUNT /\ arm < DUEL_ARM_COUNT
    BY <1>0 DEF Drain, IInv, TypeOK, Calls
  <2> QED BY <2>1, ArmsNonEmpty, SMT DEF Arms
<1>2. /\ pc[t] = "drain" /\ pc' = [pc EXCEPT ![t] = next]
      /\ misses_' = [misses_ EXCEPT ![arm] = 0]
      /\ UNCHANGED <<sampled_misses_, reported>>
  BY <1>0 DEF Drain
<1>3. /\ call'[t].arm = arm + 1
      /\ \A r \in Threads \ {t} : call'[r] = call[r]
  BY <1>0 DEF Drain, IInv, TypeOK, Calls
<1>4. next \in {"drain", "decide"} /\ \A r \in Threads : pc'[r] = IF r = t THEN next ELSE pc[r]
  BY <1>2 DEF IInv, TypeOK
<1>5. Sampling' = Sampling /\ ClosingCalls' = ClosingCalls
  BY <1>2, <1>4 DEF Sampling, ClosingCalls, Closing
<1>6. EachWindowReportedOnce'
  BY <1>2, <1>5 DEF WindowsInv, EachWindowReportedOnce, ClosingCalls
<1>7. /\ misses_ \in [Arms -> Nat] /\ misses_' \in [Arms -> Nat]
      /\ \A a \in Arms \ {arm} : misses_'[a] = misses_[a]
      /\ misses_'[arm] = 0
  BY <1>1, <1>2 DEF IInv, TypeOK
<1> DEFINE Sum(k) == SumFunctionOnSet(misses_, Taken(k))
           Left(k) == SumFunctionOnSet(misses_', Taken(k))
           bound == (sampled_misses_ % kWindowMisses) + Cardinality(Sampling)
(* Draining an arm takes from the sums.                                       *)
<1>8. \A k : Sum(k) \in Nat /\ Left(k) \in Nat /\ Left(k) <= Sum(k)
  <2> SUFFICES ASSUME NEW k PROVE Sum(k) \in Nat /\ Left(k) \in Nat /\ Left(k) <= Sum(k)
    OBVIOUS
  <2>1. Taken(k) \in SUBSET Arms /\ IsFiniteSet(Taken(k))
    BY ArmsFinite
  <2>2. Sum(k) \in Nat /\ Left(k) \in Nat
    BY <1>7, <2>1, SumIsNatural
  <2>3. CASE arm \in Taken(k)
    <3>1. Left(k) = Sum(k) - misses_[arm] + misses_'[arm]
      BY <1>7, <2>1, <2>3, SumOfChanged
    <3>2. misses_[arm] \in Nat
      BY <1>1, <1>7
    <3> HIDE DEF Sum, Left
    <3> QED BY <1>7, <2>2, <3>1, <3>2, SMT
  <2>4. CASE arm \notin Taken(k)
    <3>1. Left(k) = Sum(k)
      BY <1>7, <2>1, <2>4, SumOfAlike
    <3> HIDE DEF Sum, Left
    <3> QED BY <2>2, <3>1, SMT
  <2> QED BY <2>2, <2>3, <2>4
(* The arm drained is one more that is taken, with nothing left in it.        *)
<1>9. Left(arm + 1) = Left(arm)
  <2>1. Taken(arm) = Taken(arm + 1) \ {arm} /\ arm \in Taken(arm + 1)
    <3>1. arm \in Nat /\ \A a \in Arms : a \in Nat
      BY <1>1, ArmsNonEmpty
    <3>2. \A a \in Arms : a < arm <=> a < arm + 1 /\ a # arm
      BY <3>1, SMT
    <3>3. arm < arm + 1
      BY <3>1, SMT
    <3> QED BY <1>1, <3>2, <3>3 DEF Taken
  <2>2. /\ IsFiniteSet(Taken(arm + 1))
        /\ \A a \in Taken(arm + 1) : misses_'[a] \in Nat
    BY <1>7, ArmsFinite
  <2>3. Left(arm + 1) = misses_'[arm] + Left(arm)
    BY <2>1, <2>2, SumWithout
  <2>4. Left(arm) \in Nat
    BY <1>8
  <2> HIDE DEF Left
  <2> QED BY <1>7, <2>3, <2>4, SMT
<1>10. bound \in Int
  <2>1. Cardinality(Sampling) \in Nat
    BY FS_CardinalityType DEF WindowsInv
  <2>2. sampled_misses_ % kWindowMisses \in Nat
    BY ModBounds, WindowAssumption DEF IInv, TypeOK
  <2> QED BY <2>1, <2>2
<1> HIDE DEF Sum, Left, bound
<1>11. ASSUME NEW k \in 0 .. DUEL_ARM_COUNT, LeftBehind(k), k # arm \/ arm = DUEL_ARM_COUNT
       PROVE  LeftBehind(k)'
  <2>1. Sum(k) <= bound
    BY <1>11 DEF LeftBehind, Sum, bound
  <2>2. Left(k) <= bound
    BY <1>8, <1>10, <2>1, SMT
  <2>3. Left(k) <= (sampled_misses_' % kWindowMisses) + Cardinality(Sampling')
    BY <1>2, <1>5, <2>2 DEF bound
  <2>4. k = DUEL_ARM_COUNT \/ \E r \in Threads : pc'[r] = "drain" /\ call'[r].arm = k
    BY <1>0, <1>3, <1>4, <1>11 DEF LeftBehind
  <2> QED BY <1>11, <2>3, <2>4 DEF LeftBehind, Left
<1>12. ASSUME LeftBehind(arm) PROVE LeftBehind(arm + 1)'
  <2>1. Sum(arm) <= bound
    BY <1>12 DEF LeftBehind, Sum, bound
  <2>2. Left(arm + 1) <= bound
    BY <1>8, <1>9, <1>10, <2>1, SMT
  <2>3. Left(arm + 1) <= (sampled_misses_' % kWindowMisses) + Cardinality(Sampling')
    BY <1>2, <1>5, <2>2 DEF bound
  <2>4. arm + 1 = DUEL_ARM_COUNT \/ (pc'[t] = "drain" /\ call'[t].arm = arm + 1)
    BY <1>3, <1>4
  <2> QED BY <1>1, <2>3, <2>4 DEF LeftBehind, Left
<1>13. \E k \in 0 .. DUEL_ARM_COUNT : LeftBehind(k)'
  <2>1. PICK k \in 0 .. DUEL_ARM_COUNT : LeftBehind(k)
    BY DEF WindowsInv
  <2>2. CASE k = arm
    <3>1. LeftBehind(arm + 1)'
      BY <1>12, <2>1, <2>2
    <3> QED BY <1>1, <3>1
  <2>3. CASE k # arm
    BY <1>11, <2>1, <2>3
  <2> QED BY <2>2, <2>3
<1> QED BY <1>5, <1>6, <1>13 DEF WindowsInv

LEMMA InstallWindows ==
    ASSUME IInv, WindowsInv, NEW t \in Threads, Install(t)
    PROVE  WindowsInv'
PROOF
<1>1. /\ pc[t] = "install" /\ pc' = [pc EXCEPT ![t] = "idle"]
      /\ call' = [call EXCEPT ![t] = IdleCall]
      /\ reported'.windows = reported.windows + 1
      /\ UNCHANGED <<misses_, sampled_misses_>>
  BY DEF Install
<1>2. \A r \in Threads : pc'[r] = (IF r = t THEN "idle" ELSE pc[r])
                         /\ (r # t => call'[r] = call[r])
  BY <1>1 DEF IInv, TypeOK
<1>3. /\ Sampling' = Sampling
      /\ ClosingCalls' = ClosingCalls \ {t} /\ t \in ClosingCalls
  BY <1>1, <1>2 DEF Sampling, ClosingCalls, Closing
<1>4. /\ IsFiniteSet(ClosingCalls')
      /\ Cardinality(ClosingCalls') = Cardinality(ClosingCalls) - 1
      /\ Cardinality(ClosingCalls) \in Nat
  BY <1>3, OneMore DEF WindowsInv
<1>5. EachWindowReportedOnce'
  <2>1. reported.windows + Cardinality(ClosingCalls) = sampled_misses_ \div kWindowMisses
    BY DEF WindowsInv, EachWindowReportedOnce, ClosingCalls
  <2>2. reported.windows \in Nat
    BY DEF IInv, TypeOK
  <2>3. reported'.windows + Cardinality(ClosingCalls')
          = reported.windows + Cardinality(ClosingCalls)
    BY <1>1, <1>4, <2>2, SMT
  <2> QED BY <1>1, <2>1, <2>3 DEF EachWindowReportedOnce, ClosingCalls
<1>6. ASSUME NEW k, LeftBehind(k) PROVE LeftBehind(k)'
  <2>1. k = DUEL_ARM_COUNT \/ \E r \in Threads : pc'[r] = "drain" /\ call'[r].arm = k
    BY <1>1, <1>2, <1>6 DEF LeftBehind
  <2> QED BY <1>1, <1>3, <1>6, <2>1 DEF LeftBehind
<1> QED BY <1>3, <1>4, <1>5, <1>6 DEF WindowsInv

LEMMA NextWindows == IInv /\ WindowsInv /\ [Next]_vars => WindowsInv'
PROOF
<1> SUFFICES ASSUME IInv, WindowsInv, [Next]_vars PROVE WindowsInv'
  OBVIOUS
<1>1. CASE UNCHANGED vars
  <2>1. \A k : LeftBehind(k)' = LeftBehind(k)
    BY <1>1 DEF vars, shared, LeftBehind, Sampling
  <2> QED BY <1>1, <2>1 DEF vars, shared, history, WindowsInv, EachWindowReportedOnce,
                            ClosingCalls, Closing, Sampling
<1>2. ASSUME NEW t \in Threads, NEW set \in Sets, Start(t, set)
      PROVE  WindowsInv'
  <2>1. \A r \in Threads \ {t} : call'[r] = call[r]
    BY <1>2 DEF Start, IInv, TypeOK
  <2> QED BY <1>2, <2>1, ElsewhereWindows DEF Start, shared
<1>3. ASSUME NEW t \in Threads, NEW set \in Sets, Follow(t, set)
      PROVE  WindowsInv'
  BY <1>1, <1>3 DEF Follow
<1>4. ASSUME NEW t \in Threads, Decide(t)
      PROVE  WindowsInv'
  <2>1. \A r \in Threads \ {t} : call'[r] = call[r]
    BY <1>4 DEF Decide, IInv, TypeOK
  <2> QED BY <1>4, <2>1, ElsewhereWindows DEF Decide, shared, history
<1>5. ASSUME NEW t \in Threads, Step(t)
      PROVE  WindowsInv'
  BY <1>4, <1>5, CountMissWindows, SampleAndReturnWindows, SampleAndCloseWindows,
     DrainWindows, InstallWindows DEF Step
<1> QED BY <1>1, <1>2, <1>3, <1>5 DEF Next

(* The calls that close a window are finitely many and are counted with the   *)
(* windows reported; and what a window has taken of the arms it has drained   *)
(* stays taken but for the misses since.                                      *)
THEOREM WindowsInvariance == Spec => []WindowsInv
PROOF
<1> QED BY InitWindows, NextWindows, Invariance, PTL DEF Spec

(* Invariant 1 of test_ecg_online_dueling_concurrency.cc, for every number of *)
(* threads, arms, sets and misses of a window: each window is reported by one *)
(* call and by no other.                                                      *)
THEOREM WindowsReported == Spec => []EachWindowReportedOnce
PROOF
<1>1. WindowsInv => EachWindowReportedOnce
  BY DEF WindowsInv
<1> QED BY <1>1, WindowsInvariance, PTL

(* Once every call has returned, the counters hold no miss that was sampled   *)
(* before the last full window ended.                                         *)
THEOREM LeftBehindHolds == Spec => []NothingLeftBehind
PROOF
<1>1. IInv /\ WindowsInv => NothingLeftBehind
  <2> SUFFICES ASSUME IInv, WindowsInv, AllReturned
               PROVE  SumFunction(misses_) <= sampled_misses_ % kWindowMisses
    BY DEF NothingLeftBehind
  <2>1. Sampling = {} /\ \A t \in Threads : pc[t] # "drain"
    BY DEF AllReturned, Sampling
  <2>2. Cardinality(Sampling) = 0
    BY <2>1, FS_EmptySet
  <2>3. PICK k \in 0 .. DUEL_ARM_COUNT : LeftBehind(k)
    BY DEF WindowsInv
  <2>4. k = DUEL_ARM_COUNT
    BY <2>1, <2>3 DEF LeftBehind
  <2>5. Taken(k) = Arms
    BY <2>4, TakenAll
  <2>6. SumFunctionOnSet(misses_, Arms) <= (sampled_misses_ % kWindowMisses) + 0
    BY <2>2, <2>3, <2>5 DEF LeftBehind
  <2>7. sampled_misses_ % kWindowMisses \in Nat
    BY ModBounds, WindowAssumption DEF IInv, TypeOK
  <2>8. DOMAIN misses_ = Arms
    BY DEF IInv, TypeOK
  <2> QED BY <2>6, <2>7, <2>8, SMT DEF SumFunction
<1> QED BY <1>1, Invariance, WindowsInvariance, PTL

-----------------------------------------------------------------------------
(* The refinement of one core.                                                *)
LEMMA WindowPositive ==
    /\ kWindowMisses \in Nat /\ kWindowMisses > 0
    /\ COUNTER_VALUES \in Nat /\ COUNTER_VALUES > kWindowMisses
    /\ SAMPLE_VALUES \in Nat /\ SAMPLE_VALUES >= kWindowMisses
BY WindowAssumption, WidthAssumption, SMT

-----------------------------------------------------------------------------
(* The invariant of a single core.  The hardware's counters, as the mapping   *)
(* reads them off the software's, never exceed the samples of the window,     *)
(* which is why the hardware's few bits suffice; a call that has counted its  *)
(* miss finds it in the counter or, once drained, in its window; a window is  *)
(* closed only at a multiple of kWindowMisses, and what it has drained is 0.  *)
CoreType ==
    /\ misses_ \in [Arms -> Nat]
    /\ sampled_misses_ \in Nat
    /\ winner_ \in Arms
    /\ pc \in [Threads -> PcValues]
    /\ call \in [Threads -> Calls]

CountedMiss(a) ==
    IF Closing(core) /\ a < call[core].arm THEN call[core].window[a] ELSE misses_[a]

CoreInv ==
    /\ CoreType
    /\ pc[core] # "idle" => call[core].leader \in Arms
    /\ pc[core] \in {"count", "sample"} => call[core].arm = 0
    /\ pc[core] = "drain" => call[core].arm < DUEL_ARM_COUNT
    /\ pc[core] \in {"decide", "install"} => call[core].arm = DUEL_ARM_COUNT
    /\ pc[core] \notin {"idle", "count"} => CountedMiss(call[core].leader) >= 1
    /\ Closing(core) => /\ sampled_misses_ % kWindowMisses = 0
                        /\ \A a \in Arms : a < call[core].arm => misses_[a] = 0
    /\ pc[core] = "install" => call[core].best = BestArm(call[core].window, winner_)
    /\ \A a \in Arms : misses_q[a] \in 0 .. sampled_misses_q

-----------------------------------------------------------------------------
OneCore == \E t : Threads = {t}

LEMMA CoreIsTheThread == OneCore => core \in Threads /\ \A t \in Threads : t = core
BY DEF OneCore, core

LEMMA SelectorArms ==
    /\ Selector!Arms = Arms
    /\ Selector!DUEL_RRIP = DUEL_RRIP
    /\ \A w, i : Selector!BestArm(w, i) = BestArm(w, i)
BY DEF Selector!Arms, Arms, Selector!DUEL_RRIP, DUEL_RRIP, Selector!BestArm, BestArm

LEMMA InitSimulates ==
    ASSUME Init, core \in Threads
    PROVE  CoreInv /\ Selector!Init
PROOF
<1>1. /\ misses_ = [a \in Arms |-> 0] /\ sampled_misses_ = 0 /\ winner_ = DUEL_RRIP
      /\ pc[core] = "idle" /\ ~ Closing(core)
  BY DEF Init, Zero, Closing
<1>2. 0 % kWindowMisses = 0
  BY WindowPositive, ModSmall, SMT
<1>3. sampled_misses_q = 0
  BY <1>1, <1>2 DEF sampled_misses_q
<1>4. misses_q = [a \in Arms |-> 0]
  BY <1>1, SMT DEF misses_q
<1>5. CoreType
  BY <1>1, ArmsNonEmpty, IdleCallType DEF Init, CoreType, PcValues
<1>6. CoreInv
  BY <1>1, <1>3, <1>4, <1>5 DEF CoreInv
<1> QED BY <1>1, <1>3, <1>4, <1>6, SelectorArms DEF Selector!Init

LEMMA StartSimulates ==
    ASSUME CoreInv, core \in Threads, NEW set \in Sets, Start(core, set)
    PROVE  CoreInv' /\ UNCHANGED Selector!vars
PROOF
<1>1. /\ pc[core] = "idle" /\ pc'[core] = "count"
      /\ ~ Closing(core) /\ ~ Closing(core)'
  BY DEF Start, CoreInv, CoreType, Closing
<1>2. LeaderArm(set) \in Arms
  BY LeaderIsArm, SetsAssumption DEF Start
<1>3. /\ call'[core].leader = LeaderArm(set)
      /\ call'[core].arm = 0
  BY DEF Start, CoreInv, CoreType, IdleCall
<1>4. UNCHANGED <<misses_, sampled_misses_, winner_>>
  BY DEF Start, shared
<1>5. misses_q' = misses_q
  BY <1>1, <1>4 DEF misses_q
<1>6. sampled_misses_q' = sampled_misses_q
  BY <1>1, <1>4 DEF sampled_misses_q
<1>7. CoreType'
  <2>1. [IdleCall EXCEPT !.leader = LeaderArm(set), !.before = winner_]
          \in Calls
    BY <1>2, ArmsNonEmpty, IdleCallType DEF IdleCall, Calls, CoreInv, CoreType
  <2> QED BY <2>1, <1>4 DEF Start, CoreInv, CoreType, PcValues
<1>8. CoreInv'
  BY <1>1, <1>2, <1>3, <1>5, <1>6, <1>7 DEF CoreInv
<1> QED BY <1>4, <1>5, <1>6, <1>8 DEF Selector!vars

LEMMA CountMissSimulates ==
    ASSUME CoreInv, core \in Threads, CountMiss(core)
    PROVE  CoreInv' /\ UNCHANGED Selector!vars
PROOF
<1> DEFINE l == call[core].leader
<1>1. /\ pc[core] = "count" /\ pc'[core] = "sample"
      /\ ~ Closing(core) /\ ~ Closing(core)'
      /\ l \in Arms /\ call[core].arm = 0
  BY DEF CountMiss, CoreInv, CoreType, Closing
<1>2. UNCHANGED <<sampled_misses_, winner_, call>>
  BY DEF CountMiss
<1>3. /\ misses_' \in [Arms -> Nat]
      /\ misses_'[l] = misses_[l] + 1
      /\ misses_[l] \in Nat
      /\ \A a \in Arms : a # l => misses_'[a] = misses_[a]
  BY <1>1, SMT DEF CountMiss, CoreInv, CoreType
<1>4. misses_q' = misses_q
  <2>1. ASSUME NEW a \in Arms
        PROVE  misses_q'[a] = misses_q[a]
    BY <1>1, <1>2, <1>3, <2>1, SMT DEF misses_q, CoreInv, CoreType
  <2> QED BY <2>1 DEF misses_q
<1>5. sampled_misses_q' = sampled_misses_q
  BY <1>1, <1>2 DEF sampled_misses_q
<1>6. CountedMiss(l)' >= 1
  BY <1>1, <1>2, <1>3, SMT DEF CountedMiss
<1>7. CoreType'
  BY <1>1, <1>2, <1>3 DEF CountMiss, CoreInv, CoreType, PcValues
<1>8. CoreInv'
  BY <1>1, <1>2, <1>4, <1>5, <1>6, <1>7 DEF CoreInv
<1> QED BY <1>2, <1>4, <1>5, <1>8 DEF Selector!vars

(* A sample within the window is the hardware's miss: neither counter wraps.  *)
LEMMA SampleAndReturnSimulates ==
    ASSUME CoreInv, core \in Threads, SampleAndReturn(core)
    PROVE  CoreInv' /\ Selector!RecordMiss(call[core].leader)
PROOF
<1> DEFINE l == call[core].leader
           s == sampled_misses_q
<1>1. /\ pc[core] = "sample" /\ pc'[core] = "idle"
      /\ ~ Closing(core) /\ ~ Closing(core)'
      /\ l \in Arms
      /\ sampled_misses_ \in Nat
  BY DEF SampleAndReturn, CoreInv, CoreType, Closing
<1>2. UNCHANGED <<misses_, winner_>> /\ sampled_misses_' = sampled_misses_ + 1
  BY DEF SampleAndReturn
<1>3. /\ s = sampled_misses_ % kWindowMisses
      /\ s \in 0 .. kWindowMisses - 1
      /\ s # kWindowMisses - 1
      /\ sampled_misses_q' = s + 1
  <2>1. s = sampled_misses_ % kWindowMisses
    BY <1>1 DEF sampled_misses_q
  <2>2. s \in 0 .. kWindowMisses - 1
    BY <2>1, <1>1, WindowAssumption, ModBounds
  <2>3. (sampled_misses_ + 1) % kWindowMisses = IF s = kWindowMisses - 1 THEN 0 ELSE s + 1
    BY <2>1, <1>1, WindowAssumption, NextRemainder
  <2>4. (sampled_misses_ + 1) % kWindowMisses # 0
    BY DEF SampleAndReturn, ClosesWindow
  <2>5. sampled_misses_q' = (sampled_misses_ + 1) % kWindowMisses
    BY <1>1, <1>2 DEF sampled_misses_q
  <2> HIDE DEF s
  <2> QED BY <2>1, <2>2, <2>3, <2>4, <2>5
<1>4. /\ \A a \in Arms : misses_q[a] \in 0 .. s
      /\ \A a \in Arms : misses_[a] \in Nat
  BY DEF CoreInv, CoreType
<1>5. \A a \in Arms : misses_q'[a] = misses_q[a] + (IF a = l THEN 1 ELSE 0)
  <2>1. ASSUME NEW a \in Arms
        PROVE  /\ misses_q[a] = misses_[a] - (IF a = l THEN 1 ELSE 0)
               /\ misses_q'[a] = misses_[a]
    BY <1>1, <1>2, <1>4, <2>1, SMT DEF misses_q
  <2> QED BY <2>1, <1>4, SMT
<1>6. Selector!WindowCount(l) = misses_q'
  <2> HIDE DEF s
  <2>1. (misses_q[l] + 1) % COUNTER_VALUES = misses_q[l] + 1
    <3>1. misses_q[l] + 1 \in 0 .. COUNTER_VALUES - 1
      BY <1>1, <1>3, <1>4, WindowPositive, SMT
    <3> QED BY <3>1, WindowPositive, ModSmall
  <2>2. misses_q = [a \in Arms |-> misses_q[a]] /\ misses_q' = [a \in Arms |-> misses_q'[a]]
    BY DEF misses_q
  <2>3. Selector!WindowCount(l) = [misses_q EXCEPT ![l] = misses_q[l] + 1]
    BY <2>1 DEF Selector!WindowCount
  <2>4. ASSUME NEW a \in Arms
        PROVE  [misses_q EXCEPT ![l] = misses_q[l] + 1][a] = misses_q'[a]
    BY <1>1, <1>4, <1>5, <2>2, SMT
  <2> HIDE DEF l
  <2> QED BY <2>2, <2>3, <2>4, Zenon
<1>7. (s + 1) % SAMPLE_VALUES = s + 1
  <2> HIDE DEF s
  <2>1. s + 1 \in 0 .. SAMPLE_VALUES - 1
    BY <1>3, WindowPositive, SMT
  <2> QED BY <2>1, WindowPositive, ModSmall
<1>8. Selector!RecordMiss(l)
  BY <1>2, <1>3, <1>6, <1>7 DEF Selector!RecordMiss
<1>9. CoreInv'
  <2>1. CoreType'
    <3>1. IdleCall \in Calls
      BY IdleCallType
    <3>2. sampled_misses_' \in Nat
      BY <1>1, <1>2
    <3> QED BY <1>2, <3>1, <3>2 DEF SampleAndReturn, CoreInv, CoreType, PcValues
  <2>2. \A a \in Arms : misses_q'[a] \in 0 .. sampled_misses_q'
    <3> HIDE DEF s
    <3> QED BY <1>3, <1>4, <1>5, SMT
  <2> QED BY <1>1, <2>1, <2>2 DEF CoreInv
<1> QED BY <1>8, <1>9

LEMMA SampleAndCloseSimulates ==
    ASSUME CoreInv, core \in Threads, SampleAndClose(core)
    PROVE  CoreInv' /\ UNCHANGED Selector!vars
PROOF
<1> DEFINE l == call[core].leader
<1>1. /\ pc[core] = "sample" /\ pc'[core] = "drain"
      /\ ~ Closing(core) /\ Closing(core)'
      /\ l \in Arms /\ call[core].arm = 0
      /\ sampled_misses_ \in Nat
  BY DEF SampleAndClose, CoreInv, CoreType, Closing
<1>2. /\ UNCHANGED <<misses_, winner_, call>>
      /\ sampled_misses_' = sampled_misses_ + 1
      /\ (sampled_misses_ + 1) % kWindowMisses = 0
  BY DEF SampleAndClose, ClosesWindow
<1>3. sampled_misses_q' = sampled_misses_q
  <2>1. sampled_misses_q' = kWindowMisses - 1
    BY <1>1 DEF sampled_misses_q
  <2>2. sampled_misses_q = sampled_misses_ % kWindowMisses
    BY <1>1 DEF sampled_misses_q
  <2>3. sampled_misses_ % kWindowMisses \in 0 .. kWindowMisses - 1
    BY <1>1, WindowAssumption, ModBounds
  <2>4. 0 = IF sampled_misses_ % kWindowMisses = kWindowMisses - 1
            THEN 0 ELSE (sampled_misses_ % kWindowMisses) + 1
    BY <1>1, <1>2, WindowAssumption, NextRemainder
  <2> DEFINE s == sampled_misses_ % kWindowMisses
  <2> HIDE DEF s
  <2>5. s \in 0 .. kWindowMisses - 1 /\ 0 = IF s = kWindowMisses - 1 THEN 0 ELSE s + 1
    BY <2>3, <2>4 DEF s
  <2>6. s = kWindowMisses - 1
    BY <2>5, SMT
  <2> QED BY <2>1, <2>2, <2>6 DEF s
<1>4. \A a \in Arms : a \in Nat /\ misses_[a] \in Nat
  BY ArmsNonEmpty DEF CoreInv, CoreType
<1>5. misses_q' = misses_q
  <2>1. ASSUME NEW a \in Arms
        PROVE  misses_q'[a] = misses_q[a]
    BY <1>1, <1>2, <1>4, <2>1, SMT DEF misses_q
  <2> QED BY <2>1 DEF misses_q
<1>6. CountedMiss(l) >= 1 /\ CountedMiss(l)' = CountedMiss(l)
  BY <1>1, <1>2, <1>4, SMT DEF CountedMiss, CoreInv
<1>7. CoreType'
  BY <1>1, <1>2 DEF SampleAndClose, CoreInv, CoreType, PcValues
<1>8. CoreInv'
  <2>1. call'[core].arm < DUEL_ARM_COUNT
    BY <1>1, <1>2, ArmsNonEmpty, SMT
  <2>2. \A a \in Arms : ~ (a < call'[core].arm)
    BY <1>1, <1>2, <1>4, SMT
  <2> QED BY <1>1, <1>2, <1>3, <1>5, <1>6, <1>7, <2>1, <2>2 DEF CoreInv
<1> QED BY <1>2, <1>3, <1>5, <1>8 DEF Selector!vars

(* Draining moves an arm's misses from the counter to the window: the         *)
(* hardware sees neither.                                                     *)
LEMMA DrainSimulates ==
    ASSUME CoreInv, core \in Threads, Drain(core)
    PROVE  CoreInv' /\ UNCHANGED Selector!vars
PROOF
<1> DEFINE l == call[core].leader
           k == call[core].arm
<1>1. /\ pc[core] = "drain" /\ Closing(core)
      /\ k \in Arms /\ k + 1 \in 0 .. DUEL_ARM_COUNT /\ l \in Arms
  <2>1. k \in Nat /\ k < DUEL_ARM_COUNT
    BY DEF Drain, CoreInv, CoreType, Calls
  <2>2. k \in Arms /\ k + 1 \in 0 .. DUEL_ARM_COUNT
    BY <2>1, ArmsNonEmpty, SMT DEF Arms
  <2> QED BY <2>2 DEF Drain, CoreInv, Closing
<1>2. /\ pc'[core] = IF k + 1 = DUEL_ARM_COUNT THEN "decide" ELSE "drain"
      /\ Closing(core)'
  BY DEF Drain, CoreInv, CoreType, Closing
<1>3. /\ call'[core] = [call[core] EXCEPT
                          !.window = [call[core].window EXCEPT ![k] = misses_[k]],
                          !.arm = k + 1]
      /\ call' = [call EXCEPT ![core] = call'[core]]
  BY DEF Drain, CoreInv, CoreType
<1>4. /\ call'[core].leader = l
      /\ call'[core].arm = k + 1
      /\ call'[core].window = [call[core].window EXCEPT ![k] = misses_[k]]
      /\ call'[core] \in Calls
  <2>1. /\ call[core] \in Calls
        /\ [call[core].window EXCEPT ![k] = misses_[k]] \in [Arms -> Nat]
    BY <1>1, ArmsNonEmpty DEF CoreInv, CoreType, Calls
  <2> DEFINE u == [call[core].window EXCEPT ![k] = misses_[k]]
             n == k + 1
             d == call'[core]
             c == call[core]
  <2>2. c \in Calls /\ u \in [Arms -> Nat] /\ n \in 0 .. DUEL_ARM_COUNT
        /\ d = [c EXCEPT !.window = u, !.arm = n]
    BY <2>1, <1>1, <1>3
  <2>3. d \in Calls /\ d.leader = c.leader /\ d.arm = n /\ d.window = u
    <3> HIDE DEF u, n, d, c
    <3> QED BY <2>2 DEF Calls
  <2> QED BY <2>3
<1>5. /\ \A a \in Arms : a \in Nat /\ misses_[a] \in Nat /\ call[core].window[a] \in Nat
      /\ call'[core].window[k] = misses_[k]
      /\ \A a \in Arms : a # k => call'[core].window[a] = call[core].window[a]
  BY <1>1, <1>4, ArmsNonEmpty DEF CoreInv, CoreType, Calls
<1>6. /\ UNCHANGED <<sampled_misses_, winner_>>
      /\ misses_' \in [Arms -> Nat]
      /\ misses_'[k] = 0
      /\ \A a \in Arms : a # k => misses_'[a] = misses_[a]
  BY <1>1 DEF Drain, CoreInv, CoreType
<1>7. \A a \in Arms : a < k => misses_[a] = 0
  BY <1>1 DEF CoreInv
<1> HIDE DEF k, l
<1>8. \A a \in Arms : (a < k + 1) <=> (a < k \/ a = k)
  BY <1>1, <1>5, SMT
<1>9. misses_q' = misses_q
  <2>1. ASSUME NEW a \in Arms
        PROVE  misses_q'[a] = misses_q[a]
    <3>1. misses_q[a] = misses_[a] + (IF a < k THEN call[core].window[a] ELSE 0)
                        - (IF a = l THEN 1 ELSE 0)
      BY <1>1 DEF misses_q, k, l
    <3>2. misses_q'[a] = misses_'[a] + (IF a < k + 1 THEN call'[core].window[a] ELSE 0)
                         - (IF a = l THEN 1 ELSE 0)
      BY <1>2, <1>4 DEF misses_q
    <3>3. CASE a = k
      BY <3>1, <3>2, <3>3, <1>5, <1>6, <1>8, SMT
    <3>4. CASE a # k
      BY <3>1, <3>2, <3>4, <1>5, <1>6, <1>8, SMT
    <3> QED BY <3>3, <3>4
  <2> QED BY <2>1 DEF misses_q
<1>10. sampled_misses_q' = sampled_misses_q
  BY <1>1, <1>2 DEF sampled_misses_q
<1>11. CountedMiss(call[core].leader)' >= 1
  <2>1. CountedMiss(l) >= 1
    BY <1>1 DEF CoreInv, l
  <2>2. CountedMiss(l) = IF l < k THEN call[core].window[l] ELSE misses_[l]
    BY <1>1 DEF CountedMiss, k
  <2>3. CountedMiss(call[core].leader)' = IF l < k + 1 THEN call'[core].window[l] ELSE misses_'[l]
    BY <1>2, <1>4 DEF CountedMiss
  <2>4. CASE l = k
    BY <2>1, <2>2, <2>3, <2>4, <1>1, <1>5, <1>6, <1>8
  <2>5. CASE l # k
    BY <2>1, <2>2, <2>3, <2>5, <1>1, <1>5, <1>6, <1>8
  <2> QED BY <2>4, <2>5
<1>12. CoreType'
  BY <1>2, <1>3, <1>4, <1>6 DEF Drain, CoreInv, CoreType, PcValues
<1>13. \A a \in Arms : a < k + 1 => misses_'[a] = 0
  BY <1>6, <1>7, <1>8
<1>14. CoreInv'
  <2>1. pc'[core] = "drain" => k + 1 < DUEL_ARM_COUNT
    BY <1>1, <1>2, ArmsNonEmpty, SMT
  <2>2. pc'[core] = "decide" => k + 1 = DUEL_ARM_COUNT
    BY <1>2
  <2>3. pc'[core] \in {"drain", "decide"}
    BY <1>2
  <2> QED BY <1>1, <1>2, <1>4, <1>6, <1>9, <1>10, <1>11, <1>12, <1>13, <2>1, <2>2, <2>3
          DEF CoreInv
<1> QED BY <1>6, <1>9, <1>10, <1>14 DEF Selector!vars

LEMMA DecideSimulates ==
    ASSUME CoreInv, core \in Threads, Decide(core)
    PROVE  CoreInv' /\ UNCHANGED Selector!vars
PROOF
<1> DEFINE best == BestArm(call[core].window, winner_)
<1>1. /\ pc[core] = "decide" /\ pc'[core] = "install"
      /\ Closing(core) /\ Closing(core)'
      /\ UNCHANGED <<misses_, sampled_misses_, winner_>>
  BY DEF Decide, CoreInv, CoreType, Closing, shared
<1>2. best \in Arms
  BY BestArmIsArm DEF CoreInv, CoreType, Calls
<1>3. /\ call'[core] = [call[core] EXCEPT !.best = best]
      /\ call' = [call EXCEPT ![core] = call'[core]]
  BY DEF Decide, CoreInv, CoreType
<1>4. /\ call'[core].leader = call[core].leader
      /\ call'[core].arm = call[core].arm
      /\ call'[core].window = call[core].window
      /\ call'[core].best = best
      /\ call'[core] \in Calls
  BY <1>2, <1>3, DecidedCall DEF CoreInv, CoreType
<1>5. misses_q' = misses_q /\ sampled_misses_q' = sampled_misses_q
  BY <1>1, <1>4 DEF misses_q, sampled_misses_q
<1>6. CountedMiss(call[core].leader)' = CountedMiss(call[core].leader)
  BY <1>1, <1>4 DEF CountedMiss
<1>7. CoreType'
  BY <1>1, <1>3, <1>4 DEF Decide, CoreInv, CoreType, PcValues
<1>8. CoreInv'
  BY <1>1, <1>4, <1>5, <1>6, <1>7 DEF CoreInv
<1> QED BY <1>1, <1>5, <1>8 DEF Selector!vars

(* The exchange of the winner is the hardware's miss that ends the window:    *)
(* the drained window is the hardware's, the current miss included.           *)
LEMMA InstallSimulates ==
    ASSUME CoreInv, core \in Threads, Install(core)
    PROVE  CoreInv' /\ Selector!RecordMiss(call[core].leader)
PROOF
<1> DEFINE l == call[core].leader
           w == call[core].window
<1>1. /\ pc[core] = "install" /\ pc'[core] = "idle"
      /\ Closing(core) /\ ~ Closing(core)'
      /\ l \in Arms /\ w \in [Arms -> Nat]
      /\ call[core].arm = DUEL_ARM_COUNT
      /\ call[core].best = BestArm(w, winner_)
      /\ call[core].best \in Arms
      /\ sampled_misses_ % kWindowMisses = 0
  BY DEF Install, CoreInv, CoreType, Calls, Closing
<1>2. /\ UNCHANGED <<misses_, sampled_misses_>>
      /\ winner_' = BestArm(w, winner_)
  BY <1>1 DEF Install
<1>3. \A a \in Arms : a < DUEL_ARM_COUNT /\ misses_[a] = 0
  <2>1. \A a \in Arms : a < DUEL_ARM_COUNT
    BY ArmsNonEmpty, SMT DEF Arms
  <2> QED BY <2>1, <1>1 DEF CoreInv
<1>4. sampled_misses_q = kWindowMisses - 1 /\ sampled_misses_q' = 0
  BY <1>1, <1>2 DEF sampled_misses_q
<1>5. ASSUME NEW a \in Arms
      PROVE  /\ misses_q[a] = w[a] - (IF a = l THEN 1 ELSE 0)
             /\ misses_q[a] \in 0 .. kWindowMisses - 1
             /\ misses_q'[a] = 0
  <2>1. misses_q[a] = 0 + w[a] - (IF a = l THEN 1 ELSE 0)
    BY <1>1, <1>3 DEF misses_q
  <2>2. misses_q'[a] = 0 + 0 - 0
    BY <1>1, <1>2, <1>3 DEF misses_q
  <2>3. misses_q[a] \in 0 .. kWindowMisses - 1
    BY <1>4 DEF CoreInv
  <2>4. w[a] \in Nat
    BY <1>1
  <2> HIDE DEF w, l
  <2> QED BY <2>1, <2>2, <2>3, <2>4, SMT
<1>6. misses_q' = [a \in Arms |-> 0]
  BY <1>5 DEF misses_q
<1>7. Selector!WindowCount(l) = w
  <2>1. (misses_q[l] + 1) % COUNTER_VALUES = misses_q[l] + 1
    <3>1. misses_q[l] + 1 \in 0 .. COUNTER_VALUES - 1
      BY <1>1, <1>5, WindowPositive, SMT
    <3> QED BY <3>1, WindowPositive, ModSmall
  <2>2. misses_q = [a \in Arms |-> misses_q[a]] /\ w = [a \in Arms |-> w[a]]
    BY <1>1 DEF misses_q
  <2>3. Selector!WindowCount(l) = [misses_q EXCEPT ![l] = misses_q[l] + 1]
    BY <2>1 DEF Selector!WindowCount
  <2>4. ASSUME NEW a \in Arms
        PROVE  [misses_q EXCEPT ![l] = misses_q[l] + 1][a] = w[a]
    <3>1. w[a] \in Nat
      BY <1>1
    <3> HIDE DEF w, l
    <3> QED BY <1>1, <1>5, <2>2, <3>1, SMT
  <2> HIDE DEF w, l
  <2> QED BY <2>2, <2>3, <2>4, Zenon
<1>8. Selector!RecordMiss(l)
  BY <1>2, <1>4, <1>6, <1>7, SelectorArms DEF Selector!RecordMiss
<1>9. CoreInv'
  <2>1. IdleCall \in Calls
    BY IdleCallType
  <2>2. CoreType'
    BY <1>1, <1>2, <2>1 DEF Install, CoreInv, CoreType, PcValues
  <2>3. \A a \in Arms : misses_q'[a] \in 0 .. sampled_misses_q'
    BY <1>4, <1>5, SMT
  <2> QED BY <1>1, <2>2, <2>3 DEF CoreInv
<1> QED BY <1>8, <1>9

-----------------------------------------------------------------------------
LEMMA StepSimulates ==
    ASSUME OneCore, CoreInv, [Next]_vars
    PROVE  CoreInv' /\ [Selector!Next]_(Selector!vars)
PROOF
<1> USE CoreIsTheThread
<1>1. CASE UNCHANGED vars
  <2>1. UNCHANGED <<misses_, sampled_misses_, winner_, pc, call>>
    BY <1>1 DEF vars, shared
  <2>2. misses_q' = misses_q /\ sampled_misses_q' = sampled_misses_q
        /\ \A a \in Arms : CountedMiss(a)' = CountedMiss(a)
    BY <2>1 DEF misses_q, sampled_misses_q, CountedMiss, Closing
  <2> QED BY <2>1, <2>2 DEF CoreInv, CoreType, Closing, CountedMiss, Selector!vars
<1>2. ASSUME Next, ~ UNCHANGED vars
      PROVE  CoreInv' /\ [Selector!Next]_(Selector!vars)
  <2>1. Step(core) \/ \E set \in Sets : Start(core, set) \/ Follow(core, set)
    BY <1>2 DEF Next
  <2>2. ASSUME NEW set \in Sets, Start(core, set)
        PROVE  CoreInv' /\ UNCHANGED Selector!vars
    BY <2>2, StartSimulates
  <2>3. ASSUME NEW set \in Sets, Follow(core, set)
        PROVE  FALSE
    BY <1>2, <2>3 DEF Follow
  <2>4. CASE CountMiss(core)
    BY <2>4, CountMissSimulates
  <2>5. CASE SampleAndReturn(core)
    <3>1. call[core].leader \in Selector!Arms
      BY <2>5, SelectorArms DEF SampleAndReturn, CoreInv
    <3> QED BY <2>5, <3>1, SampleAndReturnSimulates DEF Selector!Next
  <2>6. CASE SampleAndClose(core)
    BY <2>6, SampleAndCloseSimulates
  <2>7. CASE Drain(core)
    BY <2>7, DrainSimulates
  <2>8. CASE Decide(core)
    BY <2>8, DecideSimulates
  <2>9. CASE Install(core)
    <3>1. call[core].leader \in Selector!Arms
      BY <2>9, SelectorArms DEF Install, CoreInv
    <3> QED BY <2>9, <3>1, InstallSimulates DEF Selector!Next
  <2> QED BY <2>1, <2>2, <2>3, <2>4, <2>5, <2>6, <2>7, <2>8, <2>9 DEF Step
<1> QED BY <1>1, <1>2

(* Whatever the number of arms, the window length and the counter widths, a   *)
(* simulation with one core drives the software selector through exactly the  *)
(* behaviours of the hardware selector, and the hardware's counters, wide     *)
(* enough for one window, never wrap.                                         *)
THEOREM SequentialRefinement ==
    ASSUME OneCore
    PROVE  Spec => ImplementsSelector
PROOF
<1>1. Init => CoreInv /\ Selector!Init
  BY InitSimulates, CoreIsTheThread
<1>2. CoreInv /\ [Next]_vars => CoreInv' /\ [Selector!Next]_(Selector!vars)
  BY StepSimulates
<1> QED BY <1>1, <1>2, PTL DEF Spec, ImplementsSelector, Selector!Spec
-----------------------------------------------------------------------------
(* The incumbent and the exchange.                                            *)

(* The arm chosen, when it is not the incumbent, has missed strictly less.    *)
LEMMA BestArmIsLess ==
    ASSUME NEW w \in [Arms -> Nat], NEW i \in Arms, BestArm(w, i) # i
    PROVE  w[BestArm(w, i)] < w[i]
PROOF
<1> DEFINE Least(a) == \A b \in Arms : w[a] <= w[b]
           L == {a \in Arms : Least(a)}
           T == {w[a] : a \in Arms}
<1>1. BestArm(w, i) = IF Least(i) THEN i
                      ELSE CHOOSE a \in Arms : Least(a) /\ \A b \in Arms : Least(b) => a <= b
  BY DEF BestArm
<1>2. ~ Least(i)
  BY <1>1
<1>3. T \in SUBSET Nat /\ T # {}
  OBVIOUS
<1>4. PICK x \in T : \A y \in T : x <= y
  BY <1>3, LeastNatural
<1>5. L \in SUBSET Nat /\ L # {}
  <2>1. PICK a \in Arms : w[a] = x
    BY <1>4
  <2>2. Least(a)
    BY <1>4, <2>1
  <2> QED BY <2>2, ArmsNonEmpty
<1>6. PICK c \in L : \A b \in L : c <= b
  BY <1>5, LeastNatural
<1>7. c \in Arms /\ Least(c) /\ \A b \in Arms : Least(b) => c <= b
  BY <1>6
<1> DEFINE m == CHOOSE a \in Arms : Least(a) /\ \A b \in Arms : Least(b) => a <= b
<1>8. m \in Arms /\ Least(m)
  <2> HIDE DEF Least
  <2> QED BY <1>7
<1>9. PICK b \in Arms : w[b] < w[i]
  <2>1. PICK b \in Arms : ~ (w[i] <= w[b])
    BY <1>2
  <2> QED BY <2>1, SMT
<1>10. BestArm(w, i) = m
  BY <1>1, <1>2
<1> HIDE DEF m
<1>11. w[m] <= w[b] /\ w[m] \in Nat /\ w[b] \in Nat /\ w[i] \in Nat
  BY <1>8
<1> QED BY <1>9, <1>10, <1>11, SMT

(* What a call chose is still the best arm while no other window has been      *)
(* installed since: only an exchange moves the winner.                         *)
FreshInv ==
    \A t \in Threads : pc[t] = "install" =>
        /\ seen[t] <= reported.windows
        /\ seen[t] = reported.windows => call[t].best = BestArm(call[t].window, winner_)

LEMMA OtherCallFresh ==
    ASSUME FreshInv, NEW u \in Threads, pc[u] = "install",
           pc'[u] = pc[u], call'[u] = call[u], UNCHANGED <<seen, reported, winner_>>
    PROVE  /\ seen'[u] <= reported'.windows
           /\ seen'[u] = reported'.windows => call'[u].best = BestArm(call'[u].window, winner_')
BY DEF FreshInv

LEMMA NextFresh ==
    ASSUME IInv, FreshInv, [Next]_vars
    PROVE  FreshInv'
PROOF
<1>1. /\ pc \in [Threads -> PcValues] /\ call \in [Threads -> Calls] /\ winner_ \in Arms
      /\ seen \in [Threads -> Nat] /\ reported.windows \in Nat
  BY DEF IInv, TypeOK, PcValues
<1>2. CASE UNCHANGED vars
  BY <1>2 DEF vars, shared, history, FreshInv
<1>3. ASSUME NEW t \in Threads, NEW set \in Sets, Start(t, set) PROVE FreshInv'
  <2>1. ASSUME NEW u \in Threads, pc'[u] = "install"
        PROVE  u # t /\ pc[u] = "install" /\ pc'[u] = pc[u] /\ call'[u] = call[u]
    BY <1>1, <1>3, <2>1 DEF Start
  <2>2. UNCHANGED <<seen, reported, winner_>>
    BY <1>3 DEF Start, shared
  <2> QED BY <2>1, <2>2, OtherCallFresh DEF FreshInv
<1>4. ASSUME NEW t \in Threads,
             CountMiss(t) \/ SampleAndReturn(t) \/ SampleAndClose(t) \/ Drain(t)
      PROVE  FreshInv'
  <2>1. ASSUME NEW u \in Threads, pc'[u] = "install"
        PROVE  u # t /\ pc[u] = "install" /\ pc'[u] = pc[u] /\ call'[u] = call[u]
    BY <1>1, <1>4, <2>1 DEF CountMiss, SampleAndReturn, SampleAndClose, Drain
  <2>2. UNCHANGED <<seen, reported, winner_>>
    BY <1>4 DEF CountMiss, SampleAndReturn, SampleAndClose, Drain, history
  <2> QED BY <2>1, <2>2, OtherCallFresh DEF FreshInv
<1>5. ASSUME NEW t \in Threads, Decide(t) PROVE FreshInv'
  <2> DEFINE best == BestArm(call[t].window, winner_)
  <2>1. /\ call' = [call EXCEPT ![t] = [call[t] EXCEPT !.best = best]]
        /\ seen' = [seen EXCEPT ![t] = reported.windows]
        /\ winner_' = winner_ /\ reported' = reported
        /\ pc' = [pc EXCEPT ![t] = "install"]
    BY <1>1, <1>5 DEF Decide, shared
  <2>2. call[t] \in Calls /\ best \in Arms
    BY <1>1, BestArmIsArm DEF Calls
  <2> HIDE DEF best
  <2>3. call'[t].window = call[t].window /\ call'[t].best = best
    BY <1>1, <2>1, <2>2, DecidedCall
  <2>4. ASSUME NEW u \in Threads, pc'[u] = "install"
        PROVE  /\ seen'[u] <= reported'.windows
               /\ seen'[u] = reported'.windows => call'[u].best = BestArm(call'[u].window, winner_')
    <3>1. CASE u = t
      <4>1. seen'[u] = reported'.windows /\ reported'.windows \in Nat
        BY <1>1, <2>1, <3>1
      <4>2. seen'[u] <= reported'.windows
        BY <4>1, SMT
      <4> QED BY <2>1, <2>3, <3>1, <4>2 DEF best
    <3>2. CASE u # t
      <4>1. pc[u] = "install" /\ seen'[u] = seen[u] /\ call'[u] = call[u]
        BY <1>1, <2>1, <2>4, <3>2
      <4> QED BY <2>1, <4>1 DEF FreshInv
    <3> QED BY <3>1, <3>2
  <2> QED BY <2>4 DEF FreshInv
<1>6. ASSUME NEW t \in Threads, Install(t) PROVE FreshInv'
  <2>1. /\ reported'.windows = reported.windows + 1 /\ seen' = seen
        /\ pc' = [pc EXCEPT ![t] = "idle"]
    BY <1>6 DEF Install
  <2>2. ASSUME NEW u \in Threads, pc'[u] = "install"
        PROVE  seen'[u] <= reported'.windows /\ seen'[u] # reported'.windows
    <3>1. pc[u] = "install" /\ seen[u] \in Nat
      BY <1>1, <2>1, <2>2
    <3>2. seen[u] <= reported.windows
      BY <3>1 DEF FreshInv
    <3> QED BY <1>1, <2>1, <3>1, <3>2, SMT
  <2> QED BY <2>2 DEF FreshInv
<1>7. ASSUME NEW t \in Threads, NEW set \in Sets, Follow(t, set) PROVE FreshInv'
  BY <1>2, <1>7 DEF Follow
<1> QED BY <1>2, <1>3, <1>4, <1>5, <1>6, <1>7 DEF Next, Step

LEMMA InstallAfterLoad ==
    ASSUME IInv, FreshInv, [Next]_vars, NEW t \in Threads,
           pc[t] = "install", pc'[t] = "idle", winner_' # winner_,
           call[t].window[winner_'] >= call[t].window[winner_]
    PROVE  reported.windows > seen[t]
PROOF
<1>1. /\ pc \in [Threads -> PcValues] /\ call[t].window \in [Arms -> Nat]
      /\ winner_ \in Arms /\ call[t].best \in Arms
      /\ seen[t] \in Nat /\ reported.windows \in Nat
  BY DEF IInv, TypeOK, PcValues, Calls
<1>2. PICK u \in Threads : Step(u) \/ \E set \in Sets : Start(u, set) \/ Follow(u, set)
  BY DEF Next, vars, shared
<1>3. u = t
  BY <1>1, <1>2 DEF Step, Start, Follow, CountMiss, SampleAndReturn, SampleAndClose, Drain,
                    Decide, Install, vars
<1>4. Install(t)
  BY <1>1, <1>2, <1>3 DEF Step, Start, Follow, CountMiss, SampleAndReturn, SampleAndClose, Drain,
                          Decide
<1>5. winner_' = call[t].best
  BY <1>4 DEF Install
<1>6. seen[t] # reported.windows
  <2> SUFFICES ASSUME seen[t] = reported.windows PROVE FALSE
    OBVIOUS
  <2>1. call[t].best = BestArm(call[t].window, winner_)
    BY DEF FreshInv
  <2>2. call[t].window[call[t].best] < call[t].window[winner_]
    BY <1>1, <1>5, <2>1, BestArmIsLess
  <2>3. call[t].window[call[t].best] \in Nat /\ call[t].window[winner_] \in Nat
    BY <1>1
  <2> QED BY <1>5, <2>2, <2>3, SMT
<1>7. seen[t] <= reported.windows
  BY DEF FreshInv
<1> QED BY <1>1, <1>6, <1>7, SMT

(* "Ties keeping the incumbent winner" (comment of recordMiss), as far as it  *)
(* is true with any number of threads, arms and misses of a window: an arm    *)
(* that did not beat the winner it replaces is installed only by a call that  *)
(* another window overtook between its load of the winner and its exchange.   *)
THEOREM UpsetsAreOverlaps == Spec => UpsetOnlyByOverlap
PROOF
<1>1. Init => FreshInv
  BY DEF Init, FreshInv
<1>2. IInv /\ FreshInv /\ [Next]_vars => FreshInv'
  BY NextFresh
<1>3. IInv /\ FreshInv /\ [Next]_vars
        => [\A t \in Threads :
              /\ pc[t] = "install" /\ pc'[t] = "idle" /\ winner_' # winner_
              /\ call[t].window[winner_'] >= call[t].window[winner_]
              => reported.windows > seen[t]]_vars
  BY InstallAfterLoad
<1> QED BY <1>1, <1>2, <1>3, InitIInv, NextIInv, PTL DEF Spec, UpsetOnlyByOverlap
=============================================================================
