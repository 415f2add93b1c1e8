--------------------------- MODULE ReuseBind_proof ---------------------------
(* The merge of the requests of a miss, for any number of requests, requestors *)
(* and contexts: the hardware slot knows what was merged into it, and the     *)
(* MSHR of gem5, which rebuilds its state from requests it has itself         *)
(* overwritten, binds the lines that the slot would.                          *)
EXTENDS MshrReuseBind, ReuseBindSlot, Sums, SequenceTheorems

(* What the registers s know of the requests S merged into them: each tells   *)
(* something of the set, and a conflict has a reason among its members.       *)
Sound(s, S) ==
    s.selected_valid /\ ~ s.conflicted =>
        /\ Agree(S)
        /\ \E in \in S : /\ s.requestor = in.requestor
                         /\ SamePayload(s, in)
                         /\ \A other \in S : other.sequence <= in.sequence
        /\ \A in \in S : in.sequence = s.sequence => in.data = s.data

Knows(s, S) ==
    /\ s \in Slots /\ S \subseteq Incoming
    /\ s.saw_target <=> S # {}
    /\ s.selected_valid <=> s.saw_reuse_plan
    /\ s.conflicted => s.selected_valid
    /\ s.selected_valid <=> \E in \in S : in.plan
    /\ Sound(s, S)
    /\ s.conflicted => ~ (Agree(S) /\ OneRecordPerLoad(S))

(* A request keeps its place in the merged set: what fails of a set of        *)
(* requests fails of every larger one.                                        *)
LEMMA AgreeIsMonotone ==
    ASSUME NEW S, NEW T, S \subseteq T, Agree(T) /\ OneRecordPerLoad(T)
    PROVE  Agree(S) /\ OneRecordPerLoad(S)
BY DEF Agree, OneRecordPerLoad

(* The sequence numbers compared by the merge are integers.                   *)
LEMMA SequencesAreIntegers ==
    /\ \A in \in Incoming : in.sequence \in Int
    /\ \A s \in Slots : s.sequence \in Int
<1>1. Sequences \subseteq Int
  BY SequencesAssumption
<1>2. QED
  BY <1>1 DEF Incoming, Slots

(* The two ways a merge changes the record kept.                              *)
LEMMA KeepFacts ==
    ASSUME NEW s \in Slots, NEW in \in Incoming
    PROVE  /\ Keep(s, in) \in Slots
           /\ Keep(s, in).selected_valid
           /\ Keep(s, in).conflicted = s.conflicted
           /\ Keep(s, in).requestor = in.requestor
           /\ Keep(s, in).context = in.context
           /\ Keep(s, in).sequence = in.sequence
           /\ Keep(s, in).data = in.data
BY DEF Keep, Slots, Incoming

LEMMA ConflictFacts ==
    ASSUME NEW s \in Slots
    PROVE  /\ Conflict(s) \in Slots
           /\ Conflict(s).conflicted
           /\ Conflict(s).selected_valid = s.selected_valid
BY DEF Conflict, Slots

(* What MergePlan does to a slot, case by case.                               *)
LEMMA PlanCases ==
    ASSUME NEW s \in Slots, NEW in \in Incoming
    PROVE  LET t == MergePlan(s, in) IN
           /\ t \in Slots
           /\ s.conflicted => t.conflicted /\ t.selected_valid = s.selected_valid
           /\ ~ s.conflicted =>
                  /\ t.selected_valid
                  /\ t.conflicted <=>
                       \/ Untrusted(s, in)
                       \/ s.selected_valid /\ Foreign(s, in)
                       \/ /\ s.selected_valid
                          /\ in.sequence = s.sequence
                          /\ ~ SamePayload(s, in)
                  /\ ~ t.conflicted =>
                       \/ /\ ~ s.selected_valid \/ in.sequence > s.sequence
                          /\ t.requestor = in.requestor /\ t.context = in.context
                          /\ t.sequence = in.sequence /\ t.data = in.data
                       \/ /\ s.selected_valid /\ in.sequence <= s.sequence
                          /\ t.requestor = s.requestor /\ t.context = s.context
                          /\ t.sequence = s.sequence /\ t.data = s.data
<1> s.sequence \in Int /\ in.sequence \in Int
  BY SequencesAreIntegers
<1>1. CASE s.conflicted
  BY <1>1 DEF MergePlan
<1>2. CASE ~ s.conflicted /\ Untrusted(s, in)
  <2>1. MergePlan(s, in) = Conflict(Keep(s, in))
    BY <1>2 DEF MergePlan
  <2>2. QED
    BY <1>2, <2>1, KeepFacts, ConflictFacts
<1>3. CASE ~ s.conflicted /\ ~ Untrusted(s, in) /\ ~ s.selected_valid
  <2>1. MergePlan(s, in) = Keep(s, in)
    BY <1>3 DEF MergePlan
  <2>2. QED
    BY <1>3, <2>1, KeepFacts
<1>4. CASE ~ s.conflicted /\ ~ Untrusted(s, in) /\ s.selected_valid /\ Foreign(s, in)
  <2>1. MergePlan(s, in) = Conflict(s)
    BY <1>4 DEF MergePlan
  <2>2. QED
    BY <1>4, <2>1, ConflictFacts
<1>5. CASE ~ s.conflicted /\ ~ Untrusted(s, in) /\ s.selected_valid /\ ~ Foreign(s, in)
  <2>1. MergePlan(s, in) = MergeSame(s, in)
    BY <1>5 DEF MergePlan
  <2>2. CASE in.sequence > s.sequence
    <3>1. MergeSame(s, in) = Keep(s, in)
      BY <2>2 DEF MergeSame
    <3>2. in.sequence # s.sequence /\ ~ in.sequence <= s.sequence
      BY <2>2
    <3>3. MergePlan(s, in) = Keep(s, in)
      BY <2>1, <3>1
    <3>4. PICK t : t = MergePlan(s, in)
      OBVIOUS
    <3>5. /\ t \in Slots /\ t.selected_valid /\ ~ t.conflicted
          /\ t.requestor = in.requestor /\ t.context = in.context
          /\ t.sequence = in.sequence /\ t.data = in.data
      BY <1>5, <3>3, <3>4, KeepFacts
    <3>6. QED
      BY <1>5, <2>2, <3>2, <3>4, <3>5
  <2>3. CASE in.sequence = s.sequence /\ ~ SamePayload(s, in)
    <3>1. MergeSame(s, in) = Conflict(s)
      BY <2>3 DEF MergeSame
    <3>2. QED
      BY <1>5, <2>1, <2>3, <3>1, ConflictFacts
  <2>4. CASE in.sequence <= s.sequence /\ (in.sequence = s.sequence => SamePayload(s, in))
    <3>1. MergeSame(s, in) = s
      BY <2>4 DEF MergeSame
    <3>2. QED
      BY <1>5, <2>1, <2>4, <3>1
  <2>5. QED
    BY <2>2, <2>3, <2>4
<1>6. QED
  BY <1>1, <1>2, <1>3, <1>4, <1>5 DEF Slots

(* What SlotMerge does to a slot, case by case.                               *)
LEMMA MergeCases ==
    ASSUME NEW s \in Slots, NEW in \in Incoming
    PROVE  LET t == SlotMerge(s, in) IN
           /\ t \in Slots
           /\ t.saw_target
           /\ t.saw_reuse_plan <=> in.plan \/ s.saw_reuse_plan
           /\ ~ in.plan => /\ t.selected_valid = s.selected_valid
                           /\ t.conflicted <=> s.conflicted \/ s.saw_reuse_plan
                           /\ t.requestor = s.requestor /\ t.context = s.context
                           /\ t.sequence = s.sequence /\ t.data = s.data
           /\ in.plan /\ s.conflicted =>
                  t.conflicted /\ t.selected_valid = s.selected_valid
           /\ in.plan /\ ~ s.conflicted =>
                  /\ t.selected_valid
                  /\ t.conflicted <=>
                       \/ Untrusted(s, in)
                       \/ s.selected_valid /\ Foreign(s, in)
                       \/ /\ s.selected_valid
                          /\ in.sequence = s.sequence
                          /\ ~ SamePayload(s, in)
                  /\ ~ t.conflicted =>
                       \/ /\ ~ s.selected_valid \/ in.sequence > s.sequence
                          /\ t.requestor = in.requestor /\ t.context = in.context
                          /\ t.sequence = in.sequence /\ t.data = in.data
                       \/ /\ s.selected_valid /\ in.sequence <= s.sequence
                          /\ t.requestor = s.requestor /\ t.context = s.context
                          /\ t.sequence = s.sequence /\ t.data = s.data
<1>1. CASE ~ in.plan
  <2>1. SlotMerge(s, in) = [s EXCEPT !.saw_target = TRUE,
                                     !.conflicted = s.conflicted \/ s.saw_reuse_plan]
    BY <1>1 DEF SlotMerge
  <2>2. QED
    BY <1>1, <2>1 DEF Slots, Incoming
<1>2. CASE in.plan
  <2>1. PICK p : p = MergePlan(s, in)
    OBVIOUS
  <2>2. SlotMerge(s, in) = [p EXCEPT !.saw_target = TRUE, !.saw_reuse_plan = TRUE]
    BY <1>2, <2>1 DEF SlotMerge
  <2>3. p \in Slots
    BY <2>1, PlanCases
  <2>4. /\ SlotMerge(s, in) \in Slots
        /\ SlotMerge(s, in).saw_target /\ SlotMerge(s, in).saw_reuse_plan
        /\ SlotMerge(s, in).selected_valid = p.selected_valid
        /\ SlotMerge(s, in).conflicted = p.conflicted
        /\ SlotMerge(s, in).requestor = p.requestor
        /\ SlotMerge(s, in).context = p.context
        /\ SlotMerge(s, in).sequence = p.sequence
        /\ SlotMerge(s, in).data = p.data
    BY <2>2, <2>3 DEF Slots
  <2>5. QED
    BY <1>2, <2>1, <2>4, PlanCases
<1>3. QED
  BY <1>1, <1>2 DEF Incoming

(* The empty slot knows that nothing was merged, and a merge adds to what is  *)
(* known.                                                                     *)
LEMMA EmptyKnows == Knows(EmptySlot, {})
<1>1. EmptySlot \in Slots
  BY ContextsAssumption, SequencesAssumption, DefaultsAssumption DEF EmptySlot, Slots
<1>2. QED
  BY <1>1 DEF Knows, Sound, EmptySlot

LEMMA MergeKnows ==
    ASSUME NEW s, NEW S, Knows(s, S), NEW in \in Incoming
    PROVE  Knows(SlotMerge(s, in), S \cup {in})
<1>0. PICK t : t = SlotMerge(s, in)
  OBVIOUS
<1> DEFINE T == S \cup {in}
<1>1. s \in Slots /\ S \subseteq Incoming
  BY DEF Knows
<1>2. /\ t \in Slots /\ t.saw_target
      /\ t.saw_reuse_plan <=> in.plan \/ s.saw_reuse_plan
      /\ ~ in.plan => /\ t.selected_valid = s.selected_valid
                      /\ t.conflicted <=> s.conflicted \/ s.saw_reuse_plan
                      /\ t.requestor = s.requestor /\ t.context = s.context
                      /\ t.sequence = s.sequence /\ t.data = s.data
      /\ in.plan /\ s.conflicted => t.conflicted /\ t.selected_valid = s.selected_valid
  BY <1>0, <1>1, MergeCases
<1>3. in.plan /\ ~ s.conflicted =>
          /\ t.selected_valid
          /\ t.conflicted <=>
               \/ Untrusted(s, in)
               \/ s.selected_valid /\ Foreign(s, in)
               \/ s.selected_valid /\ in.sequence = s.sequence /\ ~ SamePayload(s, in)
          /\ ~ t.conflicted =>
               \/ /\ ~ s.selected_valid \/ in.sequence > s.sequence
                  /\ t.requestor = in.requestor /\ t.context = in.context
                  /\ t.sequence = in.sequence /\ t.data = in.data
               \/ /\ s.selected_valid /\ in.sequence <= s.sequence
                  /\ t.requestor = s.requestor /\ t.context = s.context
                  /\ t.sequence = s.sequence /\ t.data = s.data
  BY <1>0, <1>1, MergeCases
<1>4. /\ s.saw_target <=> S # {}
      /\ s.selected_valid <=> s.saw_reuse_plan
      /\ s.conflicted => s.selected_valid
      /\ s.selected_valid <=> \E x \in S : x.plan
      /\ Sound(s, S)
      /\ s.conflicted => ~ (Agree(S) /\ OneRecordPerLoad(S))
  BY DEF Knows
<1>5. /\ in.plan \in BOOLEAN /\ s.conflicted \in BOOLEAN /\ t.conflicted \in BOOLEAN
      /\ s.selected_valid \in BOOLEAN /\ t.selected_valid \in BOOLEAN
      /\ s.saw_reuse_plan \in BOOLEAN /\ t.saw_reuse_plan \in BOOLEAN
      /\ t.saw_target \in BOOLEAN
  BY <1>1, <1>2 DEF Slots, Incoming
<1>6. /\ t.saw_target <=> T # {}
      /\ t.selected_valid <=> t.saw_reuse_plan
      /\ t.conflicted => t.selected_valid
      /\ t.selected_valid <=> \E x \in T : x.plan
  <2>1. t.selected_valid <=> in.plan \/ s.selected_valid
    BY <1>2, <1>3, <1>4, <1>5
  <2>2. in \in T /\ S \subseteq T /\ \A x \in T : x = in \/ x \in S
    OBVIOUS
  <2> HIDE DEF T
  <2>3. (\E x \in T : x.plan) <=> in.plan \/ s.selected_valid
    BY <1>4, <2>2
  <2>4. t.conflicted => t.selected_valid
    BY <1>2, <1>3, <1>4, <1>5
  <2>5. QED
    BY <1>2, <1>4, <1>5, <2>1, <2>2, <2>3, <2>4
<1>7. Sound(t, T)
  <2>1. SUFFICES ASSUME t.selected_valid, ~ t.conflicted PROVE Sound(t, T)
    BY DEF Sound
  <2>2. in.plan /\ ~ s.conflicted
    BY <2>1, <1>2, <1>4, <1>5
  <2>3. ~ Untrusted(s, in) /\ ValidContext(in)
    BY <2>1, <2>2, <1>3 DEF Untrusted
  <2>4. CASE ~ s.selected_valid
    <3>1. T = {in}
      BY <2>3, <2>4, <1>4 DEF Untrusted
    <3>2. /\ t.requestor = in.requestor /\ t.context = in.context
          /\ t.sequence = in.sequence /\ t.data = in.data
      BY <2>1, <2>2, <2>4, <1>3
    <3>3. in.sequence \in Int
      BY SequencesAreIntegers
    <3>4. QED
      BY <2>2, <2>3, <3>1, <3>2, <3>3 DEF Sound, Agree, SamePayload
  <2>5. CASE s.selected_valid
    <3>2. PICK kept \in S :
            /\ s.requestor = kept.requestor
            /\ SamePayload(s, kept)
            /\ \A other \in S : other.sequence <= kept.sequence
      BY <1>4, <2>2, <2>5 DEF Sound
    <3>3. Agree(S) /\ \A r \in S : r.sequence = s.sequence => r.data = s.data
      BY <1>4, <2>2, <2>5 DEF Sound
    <3>4. ~ Foreign(s, in) /\ (in.sequence = s.sequence => SamePayload(s, in))
      BY <2>1, <2>2, <2>5, <1>3
    <3>5. Agree(T)
      <4>1. in.requestor = kept.requestor /\ in.context = kept.context
        BY <3>2, <3>4 DEF Foreign, SamePayload
      <4>2. QED
        BY <2>2, <2>3, <3>3, <4>1 DEF Agree
    <3>6. \A r \in T : r.sequence \in Int
      BY <1>1, SequencesAreIntegers
    <3>0. s.sequence \in Int /\ in.sequence \in Int
      BY <1>1, SequencesAreIntegers
    <3>7. CASE in.sequence > s.sequence
      <4>1. /\ t.requestor = in.requestor /\ t.context = in.context
            /\ t.sequence = in.sequence /\ t.data = in.data
        BY <3>0, <3>7, <2>1, <2>2, <2>5, <1>3
      <4>2. \A other \in T : other.sequence <= in.sequence /\ (other # in => other.sequence < in.sequence)
        BY <3>2, <3>6, <3>7 DEF SamePayload
      <4>3. \A r \in T : r.sequence = t.sequence => r.data = t.data
        BY <4>1, <4>2, <3>6
      <4>4. in \in T /\ SamePayload(t, in)
        BY <4>1 DEF SamePayload
      <4>5. QED
        BY <3>5, <4>1, <4>2, <4>3, <4>4 DEF Sound
    <3>8. CASE ~ in.sequence > s.sequence
      <4>1. /\ t.requestor = s.requestor /\ t.context = s.context
            /\ t.sequence = s.sequence /\ t.data = s.data
        BY <3>0, <3>8, <2>1, <2>2, <2>5, <1>3
      <4>2. kept \in T /\ t.requestor = kept.requestor /\ SamePayload(t, kept)
        BY <3>2, <4>1 DEF SamePayload
      <4>3. \A other \in T : other.sequence <= kept.sequence
        BY <3>0, <3>2, <3>8 DEF SamePayload
      <4>4. \A r \in T : r.sequence = t.sequence => r.data = t.data
        BY <3>3, <3>4, <4>1 DEF SamePayload
      <4>5. QED
        BY <3>5, <4>2, <4>3, <4>4 DEF Sound
    <3>9. QED
      BY <3>7, <3>8
  <2>6. QED
    BY <1>5, <2>4, <2>5
<1>8. t.conflicted => ~ (Agree(T) /\ OneRecordPerLoad(T))
  <2>1. SUFFICES ASSUME t.conflicted, Agree(T) /\ OneRecordPerLoad(T) PROVE FALSE
    OBVIOUS
  <2>2. Agree(S) /\ OneRecordPerLoad(S)
    BY <2>1, AgreeIsMonotone
  <2>3. ~ s.conflicted
    BY <1>4, <2>2
  <2>4. in.plan /\ ValidContext(in) /\ in \in T
    BY <2>1 DEF Agree
  <2>5. CASE ~ s.selected_valid
    <3>1. Untrusted(s, in)
      BY <2>1, <2>3, <2>4, <2>5, <1>3
    <3>2. S # {}
      BY <3>1, <2>4, <1>4 DEF Untrusted
    <3>3. QED
      BY <2>2, <2>5, <3>2, <1>4 DEF Agree
  <2>6. CASE s.selected_valid
    <3>1. PICK kept \in S : s.requestor = kept.requestor /\ SamePayload(s, kept)
      BY <1>4, <2>3, <2>6 DEF Sound
    <3>2. kept.requestor = in.requestor /\ kept.context = in.context
      BY <2>1 DEF Agree
    <3>3. ~ Untrusted(s, in) /\ ~ Foreign(s, in)
      BY <2>4, <2>6, <3>1, <3>2 DEF Untrusted, Foreign, SamePayload
    <3>4. in.sequence = s.sequence /\ ~ SamePayload(s, in)
      BY <3>3, <2>1, <2>3, <2>4, <2>6, <1>3
    <3>5. in.data = kept.data
      BY <3>1, <3>4, <2>1 DEF OneRecordPerLoad, SamePayload
    <3>6. QED
      BY <3>1, <3>2, <3>4, <3>5 DEF SamePayload
  <2>7. QED
    BY <1>5, <2>5, <2>6
<1>9. T \subseteq Incoming
  BY <1>1
<1>10. Knows(t, T)
  BY <1>2, <1>6, <1>7, <1>8, <1>9 DEF Knows
<1>11. QED
  BY <1>0, <1>10
-----------------------------------------------------------------------------
(* The hardware slot.                                                         *)

IInv == Knows(slot, merged)

(* The registers always tell what was merged: the invariant behind both       *)
(* halves of the rule that reuse_bind_request_merge implements.               *)
THEOREM Invariance == SlotSpec => []IInv
<1>1. SlotInit => IInv
  BY EmptyKnows DEF SlotInit, IInv
<1>2. IInv /\ [SlotNext]_slotVars => IInv'
  <2> SUFFICES ASSUME IInv, [SlotNext]_slotVars PROVE IInv'
    OBVIOUS
  <2>1. CASE Clear
    BY <2>1, EmptyKnows DEF Clear, IInv
  <2>2. ASSUME NEW in \in Incoming, Merge(in) PROVE IInv'
    BY <2>2, MergeKnows DEF Merge, IInv
  <2>3. CASE UNCHANGED slotVars
    BY <2>3 DEF slotVars, IInv
  <2>4. QED
    BY <2>1, <2>2, <2>3 DEF SlotNext
<1>3. QED
  BY <1>1, <1>2, PTL DEF SlotSpec

(* A line is bound only to the record of the latest of requests that agree    *)
(* (reuse_bind_request_merge), for any number of requests and contexts.       *)
THEOREM SoundnessHolds == SlotSpec => []BoundSound
<1>1. IInv => BoundSound
  BY DEF IInv, Knows, Sound, BoundSound, Bound
<1>2. QED
  BY Invariance, <1>1, PTL

(* Requests that agree are bound: the merge never refuses a record without a  *)
(* reason among the requests of the miss.                                     *)
THEOREM CompletenessHolds == SlotSpec => []BoundComplete
<1>1. IInv => BoundComplete
  BY DEF IInv, Knows, BoundComplete, Bound, Agree
<1>2. QED
  BY Invariance, <1>1, PTL
-----------------------------------------------------------------------------
(* The folds over a list of requests.                                         *)

Follows(f, n, base, step) == f[0] = base /\ \A i \in 1 .. n : f[i] = step[i][f[i - 1]]

LEMMA Recursion ==
    ASSUME NEW n \in Nat, NEW D, NEW base \in D, NEW step \in [1 .. n -> [D -> D]]
    PROVE  \E f \in [0 .. n -> D] : Follows(f, n, base, step)
<1> DEFINE Right(f, k) == f[0] = base /\ \A i \in 1 .. k : f[i] = step[i][f[i - 1]]
           Good == {k \in Nat : k <= n => \E f \in [0 .. k -> D] : Right(f, k)}
<1>1. 0 \in Good
  <2>1. [i \in 0 .. 0 |-> base] \in [0 .. 0 -> D] /\ Right([i \in 0 .. 0 |-> base], 0)
    BY SMT
  <2> HIDE DEF Right
  <2>2. QED
    BY <2>1
<1>2. ASSUME NEW k \in Good PROVE k + 1 \in Good
  <2>1. k \in Nat /\ k + 1 \in Nat
    BY SMT
  <2>2. SUFFICES ASSUME k + 1 <= n PROVE \E g \in [0 .. k + 1 -> D] : Right(g, k + 1)
    BY <2>1
  <2>3. PICK f \in [0 .. k -> D] : Right(f, k)
    BY <2>1, <2>2, SMT
  <2> DEFINE g == [i \in 0 .. k + 1 |-> IF i = k + 1 THEN step[k + 1][f[k]] ELSE f[i]]
  <2>4. step[k + 1][f[k]] \in D
    <3>1. k + 1 \in 1 .. n /\ k \in 0 .. k
      BY <2>1, <2>2, SMT
    <3>2. QED
      BY <3>1
  <2>5. g \in [0 .. k + 1 -> D]
    <3>1. ASSUME NEW i \in 0 .. k + 1, i # k + 1 PROVE f[i] \in D
      <4>1. i \in 0 .. k
        BY <2>1, <3>1, SMT
      <4>2. QED
        BY <4>1
    <3>2. QED
      BY <2>4, <3>1
  <2>6. g[0] = base
    <3>1. 0 \in 0 .. k + 1 /\ 0 # k + 1
      BY <2>1, SMT
    <3>2. QED
      BY <2>3, <3>1
  <2>7. ASSUME NEW i \in 1 .. k + 1 PROVE g[i] = step[i][g[i - 1]]
    <3>1. i \in 0 .. k + 1 /\ i - 1 \in 0 .. k + 1 /\ i - 1 # k + 1
      BY <2>1, SMT
    <3>2. g[i - 1] = f[i - 1]
      BY <3>1
    <3>3. CASE i = k + 1
      <4>1. i - 1 = k
        BY <2>1, <3>3, SMT
      <4>2. QED
        BY <3>1, <3>2, <3>3, <4>1
    <3>4. CASE i # k + 1
      <4>1. i \in 1 .. k
        BY <2>1, <3>4, SMT
      <4>2. QED
        BY <2>3, <3>1, <3>2, <3>4, <4>1
    <3>5. QED
      BY <3>3, <3>4
  <2>8. Right(g, k + 1)
    BY <2>6, <2>7
  <2> HIDE DEF Right, g
  <2>9. QED
    BY <2>5, <2>8
<1> HIDE DEF Right
<1>3. Good = Nat
  <2>1. Good \in SUBSET Nat
    OBVIOUS
  <2> HIDE DEF Good
  <2>2. QED
    BY <1>1, <1>2, <2>1, SetInduction
<1>4. \E f \in [0 .. n -> D] : Right(f, n)
  BY <1>3
<1>5. QED
  BY <1>4 DEF Right, Follows

(* What holds of the first element of a fold and is kept by a step.           *)
LEMMA Upward ==
    ASSUME NEW a \in Nat, NEW n \in Nat, NEW Good \in SUBSET (a .. n), a <= n, a \in Good,
           \A i \in Good : i < n => i + 1 \in Good
    PROVE  \A i \in a .. n : i \in Good
<1> DEFINE Reached == {k \in Nat : a + k <= n => a + k \in Good}
<1>1. 0 \in Reached
  BY SMT
<1>2. ASSUME NEW k \in Reached PROVE k + 1 \in Reached
  <2>1. k \in Nat /\ k + 1 \in Nat /\ a + k \in Nat
    BY SMT
  <2>2. SUFFICES ASSUME a + (k + 1) <= n PROVE a + (k + 1) \in Good
    BY <2>1
  <2>3. a + k < n /\ a + k <= n /\ a + (k + 1) = (a + k) + 1
    BY <2>1, <2>2, SMT
  <2>4. a + k \in Good
    BY <2>3
  <2>5. QED
    BY <2>3, <2>4
<1>3. Reached = Nat
  <2>1. Reached \in SUBSET Nat
    OBVIOUS
  <2> HIDE DEF Reached
  <2>2. QED
    BY <1>1, <1>2, <2>1, SetInduction
<1>4. ASSUME NEW i \in a .. n PROVE i \in Good
  <2>1. i - a \in Nat /\ a + (i - a) = i /\ i <= n
    BY SMT
  <2>2. i - a \in Reached
    BY <1>3, <2>1
  <2>3. QED
    BY <2>1, <2>2
<1>5. QED
  BY <1>4

Merges == [st : States, q : [Requests -> Incoming]]
Start(q) == [st |-> ResetState, q |-> q]

LEMMA ExtensionTypes ==
    /\ \A who \in Requestors : NoExtension(who) \in Incoming
    /\ ResetState \in States /\ EmptySlot \in Slots
    /\ \A in \in Incoming : /\ in.plan \in BOOLEAN /\ in.conflicted \in BOOLEAN
                            /\ in.requestor \in Requestors /\ in.sequence \in Int
BY ContextsAssumption, SequencesAssumption, DefaultsAssumption, SequencesAreIntegers
   DEF NoExtension, Incoming, ResetState, States, EmptySlot, Slots

LEMMA MarkTypes ==
    ASSUME NEW q \in [Requests -> Incoming], NEW r \in Requests
    PROVE  /\ MarkConflict(q, r) \in [Requests -> Incoming]
           /\ MarkConflict(q, r)[r].plan /\ MarkConflict(q, r)[r].conflicted
           /\ MarkConflict(q, r)[r].requestor = q[r].requestor
           /\ q[r].plan => MarkConflict(q, r)[r] = [q[r] EXCEPT !.conflicted = TRUE]
           /\ \A t \in Requests \ {r} : MarkConflict(q, r)[t] = q[t]
<1> DEFINE x == q[r]
           y == IF x.plan THEN [x EXCEPT !.conflicted = TRUE]
                ELSE [NoExtension(x.requestor) EXCEPT !.plan = TRUE, !.conflicted = TRUE]
<1>1. x \in Incoming
  OBVIOUS
<1>2. MarkConflict(q, r) = [q EXCEPT ![r] = y]
  BY DEF MarkConflict
<1> HIDE DEF x
<1>3. y \in Incoming /\ y.plan /\ y.conflicted /\ y.requestor = x.requestor
  <2>1. NoExtension(x.requestor) \in Incoming /\ x.requestor \in Requestors
    BY <1>1, ExtensionTypes
  <2>2. CASE x.plan
    BY <1>1, <2>2 DEF Incoming
  <2>3. CASE ~ x.plan
    BY <2>1, <2>3 DEF Incoming, NoExtension
  <2>4. QED
    BY <2>2, <2>3
<1>4. x.plan => y = [x EXCEPT !.conflicted = TRUE]
  OBVIOUS
<1> HIDE DEF y
<1>5. QED
  BY <1>2, <1>3, <1>4 DEF x

LEMMA CopyTypes ==
    ASSUME NEW q \in [Requests -> Incoming], NEW to \in Requests, NEW from \in Requests
    PROVE  /\ CopyExtension(q, to, from) \in [Requests -> Incoming]
           /\ CopyExtension(q, to, from)[to] = [q[from] EXCEPT !.requestor = q[to].requestor]
           /\ \A t \in Requests \ {to} : CopyExtension(q, to, from)[t] = q[t]
<1>1. [q[from] EXCEPT !.requestor = q[to].requestor] \in Incoming
  BY DEF Incoming
<1>2. QED
  BY <1>1 DEF CopyExtension

LEMMA CopyLeaves ==
    ASSUME NEW q \in [Requests -> Incoming], NEW to \in Requests, NEW from \in Requests,
           NEW t \in Requests \ {to}
    PROVE  CopyExtension(q, to, from)[t] = q[t]
BY DEF CopyExtension

LEMMA MarkLeaves ==
    ASSUME NEW q \in [Requests -> Incoming], NEW r \in Requests, NEW t \in Requests \ {r}
    PROVE  MarkConflict(q, r)[t] = q[t]
BY DEF MarkConflict

LEMMA MarkRecord ==
    ASSUME NEW q \in [Requests -> Incoming], NEW r \in Requests
    PROVE  /\ MarkConflict(q, r) \in [Requests -> Incoming]
           /\ MarkConflict(q, r)[r].plan /\ MarkConflict(q, r)[r].conflicted
           /\ MarkConflict(q, r)[r].requestor = q[r].requestor
BY MarkTypes

LEMMA CopyRecord ==
    ASSUME NEW q \in [Requests -> Incoming], NEW to \in Requests, NEW from \in Requests
    PROVE  /\ CopyExtension(q, to, from) \in [Requests -> Incoming]
           /\ CopyExtension(q, to, from)[to].requestor = q[to].requestor
<1>1. q[from] \in Incoming /\ q[to].requestor \in Requestors
  BY DEF Incoming
<1>2. CopyExtension(q, to, from)[to].requestor = q[to].requestor
  BY <1>1 DEF CopyExtension, Incoming
<1>3. QED
  BY <1>2, CopyTypes

(* What a merge of gem5 does, case by case: it refuses a request, or takes,   *)
(* copies or leaves alone its record.                                         *)
Refuses(m, x, t) ==
    /\ t \in Merges
    /\ t.st.saw_target /\ t.st.saw_reuse_plan /\ t.st.conflicted /\ t.st.selected = x
    /\ t.q = MarkConflict(m.q, x)

(* Two states with one selected request, and one record of it.                *)
SameChoice(s, t) ==
    /\ t.selected = s.selected /\ t.requestor = s.requestor
    /\ t.context = s.context /\ t.sequence = s.sequence

Seen(m) == [m EXCEPT !.st.saw_target = TRUE]
SeenPlan(m) == [Seen(m) EXCEPT !.st.saw_reuse_plan = TRUE]

LEMMA SeenTypes ==
    ASSUME NEW m \in Merges
    PROVE  /\ Seen(m) \in Merges /\ SeenPlan(m) \in Merges
           /\ Seen(m).q = m.q /\ SeenPlan(m).q = m.q
           /\ Seen(m).st.saw_target /\ SeenPlan(m).st.saw_target
           /\ SameChoice(m.st, Seen(m).st) /\ SameChoice(m.st, SeenPlan(m).st)
           /\ Seen(m).st.conflicted = m.st.conflicted /\ SeenPlan(m).st.conflicted = m.st.conflicted
           /\ Seen(m).st.saw_reuse_plan = m.st.saw_reuse_plan /\ SeenPlan(m).st.saw_reuse_plan
BY DEF Seen, SeenPlan, Merges, States, SameChoice

LEMMA SetConflictFacts ==
    ASSUME NEW m \in Merges, m.st.selected \in Requests
    PROVE  /\ SetConflict(m) \in Merges
           /\ SetConflict(m).st.conflicted /\ SetConflict(m).st.selected = m.st.selected
           /\ SetConflict(m).st.saw_target = m.st.saw_target
           /\ SetConflict(m).st.saw_reuse_plan = m.st.saw_reuse_plan
           /\ SetConflict(m).q = MarkConflict(m.q, m.st.selected)
<1>1. PICK n : n = [m EXCEPT !.st.conflicted = TRUE]
  OBVIOUS
<1>2. /\ n \in Merges /\ n.q = m.q /\ n.st.conflicted /\ n.st.selected = m.st.selected
      /\ n.st.saw_target = m.st.saw_target /\ n.st.saw_reuse_plan = m.st.saw_reuse_plan
  BY <1>1 DEF Merges, States
<1>3. n.st.selected # NoRequest
  BY <1>2, NoRequestAssumption
<1>4. SetConflict(m) = [n EXCEPT !.q = MarkConflict(n.q, n.st.selected)]
  BY <1>1, <1>3 DEF SetConflict, MarkSelected
<1>5. MarkConflict(n.q, n.st.selected) \in [Requests -> Incoming]
  BY <1>2, <1>3, MarkTypes DEF Merges
<1>6. QED
  BY <1>2, <1>3, <1>4, <1>5 DEF Merges

LEMMA SelectFacts ==
    ASSUME NEW m \in Merges, NEW r \in Requests
    PROVE  /\ Select(m, r) \in Merges
           /\ Select(m, r).q = m.q
           /\ Select(m, r).st.selected = r /\ Select(m, r).st.requestor = m.q[r].requestor
           /\ Select(m, r).st.context = m.q[r].context
           /\ Select(m, r).st.sequence = m.q[r].sequence
           /\ Select(m, r).st.conflicted = m.st.conflicted
           /\ Select(m, r).st.saw_target = m.st.saw_target
           /\ Select(m, r).st.saw_reuse_plan = m.st.saw_reuse_plan
BY DEF Select, Merges, States, Incoming

LEMMA MergeLeaves ==
    ASSUME NEW m \in Merges, NEW r \in Requests, ~ m.q[r].plan, ~ m.st.saw_reuse_plan
    PROVE  /\ MergeRequest(m, r) \in Merges /\ MergeRequest(m, r).q = m.q
           /\ MergeRequest(m, r).st.saw_target /\ ~ MergeRequest(m, r).st.saw_reuse_plan
           /\ MergeRequest(m, r).st.conflicted = m.st.conflicted
           /\ MergeRequest(m, r).st.selected = m.st.selected
<1>1. MergeRequest(m, r) = Seen(m)
  BY DEF MergeRequest, Seen
<1>2. QED
  BY <1>1, SeenTypes DEF SameChoice, Merges, States

LEMMA MergePlanIs ==
    ASSUME NEW m \in Merges, NEW r \in Requests, m.q[r].plan
    PROVE  MergeRequest(m, r) = MergeTwoEpoch(SeenPlan(m), r, m.st.saw_target)
BY DEF MergeRequest, SeenPlan, Seen

(* The selected request is refused what it carries.                           *)
LEMMA MergeRefuses ==
    ASSUME NEW m \in Merges, NEW r \in Requests, m.st.saw_reuse_plan, m.st.selected \in Requests,
           \/ ~ m.q[r].plan
           \/ m.st.conflicted
           \/ ValidContext(m.q[r]) /\ (m.st.requestor # m.q[r].requestor \/ m.st.context # m.q[r].context)
           \/ /\ ValidContext(m.q[r])
              /\ m.q[r].sequence = m.st.sequence /\ ~ SamePayload(m.q[m.st.selected], m.q[r])
    PROVE  Refuses(m, m.st.selected, MergeRequest(m, r))
<1>0. m.st \in States /\ m.q \in [Requests -> Incoming] /\ m.q[r] \in Incoming
      /\ m.st.selected # NoRequest /\ m.q[r].sequence \in Int
  BY NoRequestAssumption, ExtensionTypes DEF Merges
<1>1. CASE ~ m.q[r].plan
  <2>1. MergeRequest(m, r) = SetConflict(Seen(m))
    BY <1>1 DEF MergeRequest, Seen
  <2>2. PICK p : p = Seen(m)
    OBVIOUS
  <2>3. /\ p \in Merges /\ p.st.selected = m.st.selected /\ p.q = m.q
        /\ p.st.saw_target /\ p.st.saw_reuse_plan
    BY <2>2, SeenTypes DEF SameChoice
  <2>4. p.st.selected \in Requests
    BY <2>3
  <2>5. QED
    BY <2>1, <2>2, <2>3, <2>4, SetConflictFacts DEF Refuses
<1>2. PICK n : n = SeenPlan(m)
  OBVIOUS
<1>3. /\ n \in Merges /\ n.q = m.q /\ n.st \in States
      /\ n.st.saw_target /\ n.st.saw_reuse_plan
      /\ n.st.conflicted = m.st.conflicted /\ n.st.selected = m.st.selected
      /\ n.st.requestor = m.st.requestor /\ n.st.context = m.st.context
      /\ n.st.sequence = m.st.sequence
  BY <1>0, <1>2, SeenTypes DEF Merges, SameChoice
<1>4. CASE m.q[r].plan /\ m.st.conflicted
  <2>1. MergeRequest(m, r) = [n EXCEPT !.q = MarkConflict(n.q, n.st.selected)]
    BY <1>0, <1>2, <1>3, <1>4, MergePlanIs DEF MergeTwoEpoch, MarkSelected
  <2>2. MarkConflict(n.q, n.st.selected) \in [Requests -> Incoming]
    BY <1>0, <1>3, MarkTypes
  <2>3. QED
    BY <1>3, <1>4, <2>1, <2>2 DEF Refuses, Merges
<1>5. CASE m.q[r].plan /\ ~ m.st.conflicted
  <2>1. ValidContext(m.q[r])
    BY <1>5
  <2>2. MergeRequest(m, r) = MergeSelected(n, r)
    BY <1>0, <1>2, <1>3, <1>5, <2>1, MergePlanIs DEF MergeTwoEpoch
  <2>3. MergeSelected(n, r) = SetConflict(n)
    BY <1>0, <1>3, <1>5 DEF MergeSelected
  <2>4. QED
    BY <1>3, <2>2, <2>3, SetConflictFacts DEF Refuses
<1>6. QED
  BY <1>1, <1>4, <1>5

(* The request merged is: its record cannot be trusted, or it is the first    *)
(* with a record after others without.                                        *)
LEMMA MergeRefusesNew ==
    ASSUME NEW m \in Merges, NEW r \in Requests, m.q[r].plan, ~ m.st.conflicted,
           ~ ValidContext(m.q[r]) \/ (m.st.selected = NoRequest /\ m.st.saw_target)
    PROVE  Refuses(m, r, MergeRequest(m, r))
<1>1. PICK n : n = SeenPlan(m)
  OBVIOUS
<1>2. /\ n \in Merges /\ n.q = m.q /\ n.st \in States
      /\ n.st.saw_target /\ n.st.saw_reuse_plan
      /\ n.st.conflicted = m.st.conflicted /\ n.st.selected = m.st.selected
  BY <1>1, SeenTypes DEF Merges, SameChoice
<1>3. MergeRequest(m, r) = SetConflict(Select(n, r))
  BY <1>1, <1>2, MergePlanIs DEF MergeTwoEpoch
<1>4. PICK p : p = Select(n, r)
  OBVIOUS
<1>5. p \in Merges /\ p.q = m.q /\ p.st.selected = r /\ p.st.saw_target /\ p.st.saw_reuse_plan /\ p.st \in States
  BY <1>2, <1>4, SelectFacts DEF Merges
<1>6. p.st.selected \in Requests
  BY <1>5
<1>7. QED
  BY <1>3, <1>4, <1>5, <1>6, SetConflictFacts DEF Refuses

LEMMA MergeSelects ==
    ASSUME NEW m \in Merges, NEW r \in Requests, m.q[r].plan, ~ m.st.conflicted,
           ValidContext(m.q[r]), m.st.selected = NoRequest, ~ m.st.saw_target
    PROVE  /\ MergeRequest(m, r) \in Merges /\ MergeRequest(m, r).q = m.q
           /\ MergeRequest(m, r).st.saw_target /\ MergeRequest(m, r).st.saw_reuse_plan
           /\ ~ MergeRequest(m, r).st.conflicted /\ MergeRequest(m, r).st.selected = r
           /\ MergeRequest(m, r).st.requestor = m.q[r].requestor
           /\ MergeRequest(m, r).st.context = m.q[r].context
           /\ MergeRequest(m, r).st.sequence = m.q[r].sequence
<1>1. PICK n : n = SeenPlan(m)
  OBVIOUS
<1>2. /\ n \in Merges /\ n.q = m.q /\ n.st \in States
      /\ n.st.saw_target /\ n.st.saw_reuse_plan
      /\ n.st.conflicted = m.st.conflicted /\ n.st.selected = m.st.selected
  BY <1>1, SeenTypes DEF Merges, SameChoice
<1>3. MergeRequest(m, r) = Select(n, r)
  BY <1>1, <1>2, MergePlanIs DEF MergeTwoEpoch
<1>4. QED
  BY <1>2, <1>3, SelectFacts

LEMMA MergeTakes ==
    ASSUME NEW m \in Merges, NEW r \in Requests, m.q[r].plan, ~ m.st.conflicted,
           ValidContext(m.q[r]), m.st.selected \in Requests,
           m.st.requestor = m.q[r].requestor, m.st.context = m.q[r].context,
           m.q[r].sequence = m.st.sequence => SamePayload(m.q[m.st.selected], m.q[r])
    PROVE  /\ MergeRequest(m, r) \in Merges
           /\ MergeRequest(m, r).st.saw_target /\ MergeRequest(m, r).st.saw_reuse_plan
           /\ ~ MergeRequest(m, r).st.conflicted
           /\ MergeRequest(m, r).st.selected = m.st.selected
           /\ MergeRequest(m, r).st.requestor = m.st.requestor
           /\ MergeRequest(m, r).st.context = m.st.context
           /\ MergeRequest(m, r).st.sequence = IF m.q[r].sequence > m.st.sequence
                                               THEN m.q[r].sequence ELSE m.st.sequence
           /\ MergeRequest(m, r).q = IF m.q[r].sequence > m.st.sequence
                                     THEN CopyExtension(m.q, m.st.selected, r) ELSE m.q
<1>0. m.q \in [Requests -> Incoming] /\ m.q[r] \in Incoming /\ m.st \in States
      /\ m.st.selected # NoRequest /\ m.q[r].sequence \in Sequences
  BY NoRequestAssumption DEF Merges, Incoming
<1>1. PICK n : n = SeenPlan(m)
  OBVIOUS
<1>2. /\ n \in Merges /\ n.q = m.q /\ n.st \in States
      /\ n.st.saw_target /\ n.st.saw_reuse_plan
  BY <1>1, SeenTypes DEF Merges
<1>3. /\ n.st.conflicted = m.st.conflicted /\ n.st.selected = m.st.selected
      /\ n.st.requestor = m.st.requestor /\ n.st.context = m.st.context
      /\ n.st.sequence = m.st.sequence
  BY <1>1, SeenTypes DEF SameChoice
<1>4. MergeRequest(m, r) = MergeSelected(n, r)
  BY <1>0, <1>1, <1>2, <1>3, MergePlanIs DEF MergeTwoEpoch
<1>5. CASE m.q[r].sequence > m.st.sequence
  <2>1. MergeSelected(n, r) = [n EXCEPT !.q = CopyExtension(n.q, n.st.selected, r),
                                        !.st.sequence = n.q[r].sequence]
    BY <1>2, <1>3, <1>5 DEF MergeSelected
  <2>2. CopyExtension(n.q, n.st.selected, r) \in [Requests -> Incoming]
    BY <1>0, <1>2, <1>3, CopyTypes
  <2>3. PICK c : c = CopyExtension(n.q, n.st.selected, r)
    OBVIOUS
  <2>4. PICK p : p = [n EXCEPT !.q = c, !.st.sequence = n.q[r].sequence]
    OBVIOUS
  <2>5. /\ p \in Merges /\ p.q = c /\ p.st.sequence = n.q[r].sequence
        /\ p.st.saw_target = n.st.saw_target /\ p.st.saw_reuse_plan = n.st.saw_reuse_plan
        /\ p.st.conflicted = n.st.conflicted /\ p.st.selected = n.st.selected
        /\ p.st.requestor = n.st.requestor /\ p.st.context = n.st.context
    BY <1>0, <1>2, <2>2, <2>3, <2>4 DEF Merges, States
  <2>6. MergeRequest(m, r) = p
    BY <1>4, <2>1, <2>3, <2>4
  <2>7. c = CopyExtension(m.q, m.st.selected, r) /\ n.q[r].sequence = m.q[r].sequence
    BY <1>2, <1>3, <2>3
  <2>8. /\ p.st.saw_target /\ p.st.saw_reuse_plan /\ ~ p.st.conflicted
        /\ p.st.selected = m.st.selected /\ p.st.requestor = m.st.requestor
        /\ p.st.context = m.st.context /\ p.st.sequence = m.q[r].sequence
    BY <1>2, <1>3, <2>5, <2>7
  <2>9. QED
    BY <1>5, <2>5, <2>6, <2>7, <2>8
<1>6. CASE ~ (m.q[r].sequence > m.st.sequence)
  <2>1. MergeSelected(n, r) = n
    BY <1>2, <1>3, <1>6 DEF MergeSelected
  <2>2. QED
    BY <1>2, <1>3, <1>4, <1>6, <2>1
<1>7. QED
  BY <1>5, <1>6

LEMMA MergeRequestType ==
    ASSUME NEW m \in Merges, NEW r \in Requests
    PROVE  MergeRequest(m, r) \in Merges
<1>1. m.q \in [Requests -> Incoming] /\ m.q[r] \in Incoming /\ m.st \in States
      /\ m.st.selected \in Requests \cup {NoRequest}
  BY DEF Merges, States
<1>2. CASE ~ m.q[r].plan /\ ~ m.st.saw_reuse_plan
  BY <1>2, MergeLeaves
<1>3. CASE m.st.selected = NoRequest
  <2>1. CASE ~ m.q[r].plan /\ m.st.saw_reuse_plan
    <3>0. PICK p : p = Seen(m)
      OBVIOUS
    <3>1. PICK n : n = [p EXCEPT !.st.conflicted = TRUE]
      OBVIOUS
    <3>2. n \in Merges /\ n.st.selected = NoRequest
      <4>1. p \in Merges /\ p.st.selected = NoRequest
        BY <1>3, <3>0, SeenTypes DEF SameChoice
      <4>2. QED
        BY <3>1, <4>1 DEF Merges, States
    <3>3. MergeRequest(m, r) = MarkSelected(n)
      BY <2>1, <3>0, <3>1 DEF MergeRequest, Seen, SetConflict
    <3>4. QED
      BY <3>2, <3>3 DEF MarkSelected
  <2>2. CASE m.q[r].plan /\ m.st.conflicted
    <3>1. PICK n : n = SeenPlan(m)
      OBVIOUS
    <3>2. n \in Merges /\ n.st.selected = NoRequest /\ n.st.conflicted
      BY <1>3, <2>2, <3>1, SeenTypes DEF SameChoice
    <3>3. QED
      BY <2>2, <3>1, <3>2, MergePlanIs DEF MergeTwoEpoch, MarkSelected
  <2>3. CASE m.q[r].plan /\ ~ m.st.conflicted
    <3>1. CASE ~ ValidContext(m.q[r]) \/ m.st.saw_target
      BY <1>3, <2>3, <3>1, MergeRefusesNew DEF Refuses
    <3>2. CASE ValidContext(m.q[r]) /\ ~ m.st.saw_target
      BY <1>3, <2>3, <3>2, MergeSelects
    <3>3. QED
      BY <3>1, <3>2
  <2>4. QED
    BY <1>2, <2>1, <2>2, <2>3
<1>4. CASE m.st.selected \in Requests
  <2>1. CASE ~ m.q[r].plan /\ m.st.saw_reuse_plan
    BY <1>4, <2>1, MergeRefuses DEF Refuses
  <2>2. CASE m.q[r].plan /\ m.st.conflicted
    <3>1. PICK n : n = SeenPlan(m)
      OBVIOUS
    <3>2. n \in Merges /\ n.st.selected = m.st.selected /\ n.st.conflicted /\ n.q = m.q
      BY <2>2, <3>1, SeenTypes DEF SameChoice
    <3>3. MergeRequest(m, r) = [n EXCEPT !.q = MarkConflict(n.q, n.st.selected)]
      BY <1>4, <2>2, <3>1, <3>2, NoRequestAssumption, MergePlanIs DEF MergeTwoEpoch, MarkSelected
    <3>4. MarkConflict(n.q, n.st.selected) \in [Requests -> Incoming]
      BY <1>1, <1>4, <3>2, MarkTypes
    <3>5. QED
      BY <3>2, <3>3, <3>4 DEF Merges
  <2>3. CASE m.q[r].plan /\ ~ m.st.conflicted /\ ~ ValidContext(m.q[r])
    BY <2>3, MergeRefusesNew DEF Refuses
  <2>4. CASE m.q[r].plan /\ ~ m.st.conflicted /\ ValidContext(m.q[r])
    <3>1. PICK n : n = SeenPlan(m)
      OBVIOUS
    <3>2. /\ n \in Merges /\ n.q = m.q /\ n.st.conflicted = m.st.conflicted
          /\ n.st.selected = m.st.selected /\ n.st.selected \in Requests
      BY <1>4, <3>1, SeenTypes DEF SameChoice
    <3>3. MergeRequest(m, r) = MergeSelected(n, r)
      BY <1>4, <2>4, <3>1, <3>2, NoRequestAssumption, MergePlanIs DEF MergeTwoEpoch
    <3>4. SetConflict(n) \in Merges
      BY <3>2, SetConflictFacts
    <3>5. [n EXCEPT !.q = CopyExtension(n.q, n.st.selected, r), !.st.sequence = n.q[r].sequence] \in Merges
      <4>1. PICK c : c = CopyExtension(n.q, n.st.selected, r)
        OBVIOUS
      <4>2. c \in [Requests -> Incoming]
        BY <1>1, <3>2, <4>1, CopyTypes
      <4>3. n.q[r].sequence \in Sequences
        BY <1>1, <3>2 DEF Incoming
      <4>4. [n EXCEPT !.q = c, !.st.sequence = n.q[r].sequence] \in Merges
        BY <3>2, <4>2, <4>3 DEF Merges, States
      <4>5. QED
        BY <4>1, <4>4
    <3>6. QED
      BY <3>2, <3>3, <3>4, <3>5 DEF MergeSelected
  <2>5. QED
    BY <1>2, <2>1, <2>2, <2>3, <2>4
<1>5. QED
  BY <1>1, <1>3, <1>4

(* A rebuild merges the requests one by one.                                  *)
Rebuilds(f, q, L, sn) ==
    /\ Rebuild(q, L, sn) = f[Len(L)] /\ f[0] = Start(q)
    /\ \A i \in 1 .. Len(L) :
          f[i] = IF L[i] \in sn THEN f[i - 1] ELSE MergeRequest(f[i - 1], L[i])

LEMMA RebuildIs ==
    ASSUME NEW q \in [Requests -> Incoming], NEW L \in Seq(Requests), NEW sn
    PROVE  \E f \in [0 .. Len(L) -> Merges] : Rebuilds(f, q, L, sn)
<1> DEFINE n == Len(L)
           Step(i, m) == IF L[i] \in sn THEN m ELSE MergeRequest(m, L[i])
           Value(f, i) == IF i = 0 THEN Start(q) ELSE Step(i, f[i - 1])
           step == [i \in 1 .. n |-> [m \in Merges |-> Step(i, m)]]
<1>1. n \in Nat /\ \A i \in 1 .. n : L[i] \in Requests
  OBVIOUS
<1>2. Start(q) \in Merges
  BY ExtensionTypes DEF Start, Merges
<1>3. \A i \in 1 .. n : \A m \in Merges : Step(i, m) \in Merges
  BY <1>1, MergeRequestType
<1> HIDE DEF n, Step
<1>4. step \in [1 .. n -> [Merges -> Merges]]
  BY <1>3
<1>5. \E f \in [0 .. n -> Merges] : Follows(f, n, Start(q), step)
  <2> HIDE DEF step
  <2>1. QED
    BY <1>1, <1>2, <1>4, Recursion
<1>6. PICK f \in [0 .. n -> Merges] : f[0] = Start(q) /\ \A i \in 1 .. n : f[i] = step[i][f[i - 1]]
  BY <1>5 DEF Follows
<1>7. \A i \in 1 .. n : f[i - 1] \in Merges
  <2>1. \A i \in 1 .. n : i - 1 \in 0 .. n
    BY <1>1, SMT
  <2>2. QED
    BY <2>1
<1>8. f = [i \in 0 .. n |-> Value(f, i)]
  <2>1. ASSUME NEW i \in 0 .. n PROVE f[i] = Value(f, i)
    <3>1. CASE i = 0
      BY <1>6, <3>1
    <3>2. CASE i # 0
      <4>1. i \in 1 .. n
        BY <1>1, <3>2, SMT
      <4>2. QED
        BY <1>6, <1>7, <3>2, <4>1
    <3>3. QED
      BY <3>1, <3>2
  <2> HIDE DEF Value
  <2>2. QED
    BY <2>1
<1> DEFINE g == CHOOSE h : h = [i \in 0 .. n |-> Value(h, i)]
<1>9. g = [i \in 0 .. n |-> Value(g, i)]
  <2> HIDE DEF Value
  <2>1. \E h : h = [i \in 0 .. n |-> Value(h, i)]
    BY <1>8
  <2>2. QED
    BY <2>1
<1>10. Rebuild(q, L, sn) = g[n]
  BY DEF Rebuild, Start, n, Step
<1> HIDE DEF g
<1>11. \A i \in 0 .. n : g[i] = Value(g, i)
  <2> HIDE DEF Value
  <2>1. QED
    BY <1>9
<1>12. g[0] = Start(q) /\ \A i \in 1 .. n : g[i] = Step(i, g[i - 1])
  <2>1. \A i \in 1 .. n : i \in 0 .. n /\ i # 0
    BY <1>1, SMT
  <2>2. 0 \in 0 .. n
    BY <1>1, SMT
  <2>3. QED
    BY <1>11, <2>1, <2>2
<1>13. g \in [0 .. n -> Merges]
  <2> DEFINE Good == {i \in 0 .. n : g[i] \in Merges}
  <2>1. 0 \in Good /\ Good \in SUBSET (0 .. n) /\ 0 <= n
    BY <1>1, <1>2, <1>12, SMT
  <2>2. ASSUME NEW i \in Good, i < n PROVE i + 1 \in Good
    <3>1. i + 1 \in 1 .. n /\ i + 1 \in 0 .. n /\ (i + 1) - 1 = i
      BY <1>1, <2>2, SMT
    <3>2. g[i + 1] = Step(i + 1, g[i])
      BY <1>12, <3>1
    <3>3. QED
      BY <1>3, <3>1, <3>2
  <2> HIDE DEF Good
  <2>3. \A i \in 0 .. n : i \in Good
    BY <1>1, <2>1, <2>2, Upward
  <2>4. \A i \in 0 .. n : g[i] \in Merges
    BY <2>3 DEF Good
  <2>5. QED
    BY <1>9, <2>4
<1>14. Rebuilds(g, q, L, sn)
  BY <1>10, <1>12 DEF n, Step, Rebuilds
<1>15. QED
  BY <1>13, <1>14 DEF n

LEMMA SlotsAre ==
    ASSUME NEW L \in Seq(Requests), NEW sn, NEW e \in [Requests -> Incoming]
    PROVE  /\ HardwareSlots(L, sn, e) \in [0 .. Len(L) -> Slots]
           /\ HardwareSlots(L, sn, e)[0] = EmptySlot
           /\ \A i \in 1 .. Len(L) :
                 HardwareSlots(L, sn, e)[i] =
                     IF L[i] \in sn THEN HardwareSlots(L, sn, e)[i - 1]
                     ELSE SlotMerge(HardwareSlots(L, sn, e)[i - 1], e[L[i]])
<1> DEFINE n == Len(L)
           Step(i, s) == IF L[i] \in sn THEN s ELSE SlotMerge(s, e[L[i]])
           Value(f, i) == IF i = 0 THEN EmptySlot ELSE Step(i, f[i - 1])
           step == [i \in 1 .. n |-> [s \in Slots |-> Step(i, s)]]
<1>1. n \in Nat /\ \A i \in 1 .. n : e[L[i]] \in Incoming
  OBVIOUS
<1>2. EmptySlot \in Slots
  BY ExtensionTypes
<1>3. \A i \in 1 .. n : \A s \in Slots : Step(i, s) \in Slots
  BY <1>1, MergeCases
<1> HIDE DEF n, Step
<1>4. step \in [1 .. n -> [Slots -> Slots]]
  BY <1>3
<1>5. \E f \in [0 .. n -> Slots] : Follows(f, n, EmptySlot, step)
  <2> HIDE DEF step
  <2>1. QED
    BY <1>1, <1>2, <1>4, Recursion
<1>6. PICK f \in [0 .. n -> Slots] : f[0] = EmptySlot /\ \A i \in 1 .. n : f[i] = step[i][f[i - 1]]
  BY <1>5 DEF Follows
<1>7. \A i \in 1 .. n : f[i - 1] \in Slots
  <2>1. \A i \in 1 .. n : i - 1 \in 0 .. n
    BY <1>1, SMT
  <2>2. QED
    BY <2>1
<1>8. f = [i \in 0 .. n |-> Value(f, i)]
  <2>1. ASSUME NEW i \in 0 .. n PROVE f[i] = Value(f, i)
    <3>1. CASE i = 0
      BY <1>6, <3>1
    <3>2. CASE i # 0
      <4>1. i \in 1 .. n
        BY <1>1, <3>2, SMT
      <4>2. QED
        BY <1>6, <1>7, <3>2, <4>1
    <3>3. QED
      BY <3>1, <3>2
  <2> HIDE DEF Value
  <2>2. QED
    BY <2>1
<1> DEFINE g == HardwareSlots(L, sn, e)
<1>9. g = [i \in 0 .. n |-> Value(g, i)]
  <2>1. g = CHOOSE h : h = [i \in 0 .. n |-> Value(h, i)]
    BY DEF HardwareSlots, n, Step
  <2> HIDE DEF Value, g
  <2>2. \E h : h = [i \in 0 .. n |-> Value(h, i)]
    BY <1>8
  <2>3. QED
    BY <2>1, <2>2
<1> HIDE DEF g
<1>11. \A i \in 0 .. n : g[i] = Value(g, i)
  <2> HIDE DEF Value
  <2>1. QED
    BY <1>9
<1>12. g[0] = EmptySlot /\ \A i \in 1 .. n : g[i] = Step(i, g[i - 1])
  <2>1. \A i \in 1 .. n : i \in 0 .. n /\ i # 0
    BY <1>1, SMT
  <2>2. 0 \in 0 .. n
    BY <1>1, SMT
  <2>3. QED
    BY <1>11, <2>1, <2>2
<1>13. g \in [0 .. n -> Slots]
  <2> DEFINE Good == {i \in 0 .. n : g[i] \in Slots}
  <2>1. 0 \in Good /\ Good \in SUBSET (0 .. n) /\ 0 <= n
    BY <1>1, <1>2, <1>12, SMT
  <2>2. ASSUME NEW i \in Good, i < n PROVE i + 1 \in Good
    <3>1. i + 1 \in 1 .. n /\ i + 1 \in 0 .. n /\ (i + 1) - 1 = i
      BY <1>1, <2>2, SMT
    <3>2. g[i + 1] = Step(i + 1, g[i])
      BY <1>12, <3>1
    <3>3. QED
      BY <1>3, <3>1, <3>2
  <2> HIDE DEF Good
  <2>3. \A i \in 0 .. n : i \in Good
    BY <1>1, <2>1, <2>2, Upward
  <2>4. \A i \in 0 .. n : g[i] \in Slots
    BY <2>3 DEF Good
  <2>5. QED
    BY <1>9, <2>4
<1>14. QED
  BY <1>12, <1>13 DEF n, Step, g

(* The requests merged of the first i of a list.                              *)
Members(L, sn, i) == {L[j] : j \in 1 .. i} \ sn

LEMMA NextMember ==
    ASSUME NEW L \in Seq(Requests), NEW sn, NEW i \in 0 .. Len(L), i < Len(L)
    PROVE  /\ i + 1 \in 1 .. Len(L) /\ i + 1 \in 0 .. Len(L) /\ (i + 1) - 1 = i /\ L[i + 1] \in Requests
           /\ L[i + 1] \in sn => Members(L, sn, i + 1) = Members(L, sn, i)
           /\ L[i + 1] \notin sn => Members(L, sn, i + 1) = Members(L, sn, i) \cup {L[i + 1]}
<1>1. Len(L) \in Nat /\ i + 1 \in 1 .. Len(L) /\ i + 1 \in 0 .. Len(L) /\ (i + 1) - 1 = i
  BY SMT
<1>2. L[i + 1] \in Requests
  BY <1>1
<1>3. 1 .. i + 1 = (1 .. i) \cup {i + 1}
  BY SMT
<1>4. {L[j] : j \in 1 .. i + 1} = {L[j] : j \in 1 .. i} \cup {L[i + 1]}
  BY <1>3
<1>5. QED
  BY <1>1, <1>2, <1>4 DEF Members

LEMMA AllMembers ==
    ASSUME NEW L \in Seq(Requests), NEW sn
    PROVE  /\ Members(L, sn, Len(L)) = Range(L) \ sn
           /\ \A i \in 0 .. Len(L) : Members(L, sn, i) \subseteq Range(L) \ sn
           /\ Members(L, sn, 0) = {}
           /\ \A x \in Range(L) : x \in Requests
<1>1. DOMAIN L = 1 .. Len(L) /\ Len(L) \in Nat
  OBVIOUS
<1>2. Members(L, sn, Len(L)) = Range(L) \ sn
  BY <1>1 DEF Members, Range
<1>3. ASSUME NEW i \in 0 .. Len(L) PROVE Members(L, sn, i) \subseteq Range(L) \ sn
  <2>1. 1 .. i \subseteq DOMAIN L
    BY <1>1, SMT
  <2>2. QED
    BY <2>1 DEF Members, Range
<1>4. Members(L, sn, 0) = {}
  <2>1. 1 .. 0 = {}
    BY SMT
  <2>2. QED
    BY <2>1 DEF Members
<1>5. QED
  BY <1>1, <1>2, <1>3, <1>4 DEF Range

LEMMA SlotsKnow ==
    ASSUME NEW L \in Seq(Requests), NEW sn, NEW e \in [Requests -> Incoming]
    PROVE  \A i \in 0 .. Len(L) : Knows(HardwareSlots(L, sn, e)[i], Carried(e, Members(L, sn, i)))
<1> DEFINE S == HardwareSlots(L, sn, e)
           M(i) == Members(L, sn, i)
           Good == {i \in 0 .. Len(L) : Knows(S[i], Carried(e, M(i)))}
<1>1. 0 \in Good
  <2>1. Carried(e, M(0)) = {}
    BY AllMembers DEF Carried
  <2>2. S[0] = EmptySlot /\ 0 \in 0 .. Len(L)
    BY SlotsAre
  <2>3. QED
    BY <2>1, <2>2, EmptyKnows
<1>2. ASSUME NEW i \in Good, i < Len(L) PROVE i + 1 \in Good
  <2>1. i \in 0 .. Len(L) /\ Knows(S[i], Carried(e, M(i)))
    OBVIOUS
  <2>2. /\ i + 1 \in 1 .. Len(L) /\ i + 1 \in 0 .. Len(L) /\ (i + 1) - 1 = i /\ L[i + 1] \in Requests
        /\ L[i + 1] \in sn => M(i + 1) = M(i)
        /\ L[i + 1] \notin sn => M(i + 1) = M(i) \cup {L[i + 1]}
    BY <1>2, <2>1, NextMember
  <2>3. S[i + 1] = IF L[i + 1] \in sn THEN S[i] ELSE SlotMerge(S[i], e[L[i + 1]])
    BY <2>2, SlotsAre
  <2> HIDE DEF S, M
  <2>4. CASE L[i + 1] \in sn
    BY <2>1, <2>2, <2>3, <2>4
  <2>5. CASE L[i + 1] \notin sn
    <3>1. Carried(e, M(i + 1)) = Carried(e, M(i)) \cup {e[L[i + 1]]}
      BY <2>2, <2>5 DEF Carried
    <3>2. e[L[i + 1]] \in Incoming
      BY <2>2
    <3>3. Knows(SlotMerge(S[i], e[L[i + 1]]), Carried(e, M(i)) \cup {e[L[i + 1]]})
      BY <2>1, <3>2, MergeKnows
    <3>4. QED
      BY <2>2, <2>3, <2>5, <3>1, <3>3
  <2>6. QED
    BY <2>4, <2>5
<1>3. 0 \in Nat /\ Len(L) \in Nat /\ 0 <= Len(L) /\ Good \in SUBSET (0 .. Len(L))
  OBVIOUS
<1> HIDE DEF Good
<1>4. \A i \in 0 .. Len(L) : i \in Good
  BY <1>1, <1>2, <1>3, Upward
<1>5. QED
  BY <1>4 DEF Good

(* A conflict of the slot stays until it is cleared.                          *)
LEMMA ConflictStays ==
    ASSUME NEW L \in Seq(Requests), NEW sn, NEW e \in [Requests -> Incoming],
           NEW k \in 0 .. Len(L), HardwareSlots(L, sn, e)[k].conflicted
    PROVE  HardwareSlots(L, sn, e)[Len(L)].conflicted
<1> DEFINE S == HardwareSlots(L, sn, e)
           Good == {i \in k .. Len(L) : S[i].conflicted}
<1>1. k \in Nat /\ Len(L) \in Nat /\ k <= Len(L) /\ Good \in SUBSET (k .. Len(L)) /\ Len(L) \in k .. Len(L)
  OBVIOUS
<1>2. k \in Good
  BY <1>1
<1>3. ASSUME NEW i \in Good, i < Len(L) PROVE i + 1 \in Good
  <2>1. i \in k .. Len(L) /\ S[i].conflicted
    OBVIOUS
  <2>2. i \in 0 .. Len(L) /\ i + 1 \in k .. Len(L) /\ i + 1 \in 1 .. Len(L) /\ (i + 1) - 1 = i
    BY <1>1, <1>3, <2>1, SMT
  <2>3. S[i + 1] = IF L[i + 1] \in sn THEN S[i] ELSE SlotMerge(S[i], e[L[i + 1]])
    BY <2>2, SlotsAre
  <2>4. S[i] \in Slots /\ e[L[i + 1]] \in Incoming
    BY <2>2, SlotsAre
  <2> HIDE DEF S
  <2>5. S[i + 1].conflicted
    BY <2>1, <2>3, <2>4, MergeCases
  <2>6. QED
    BY <2>2, <2>5
<1> HIDE DEF Good
<1>4. \A i \in k .. Len(L) : i \in Good
  BY <1>1, <1>2, <1>3, Upward
<1>5. QED
  BY <1>1, <1>4 DEF Good

(* A list and a longer one that begins with it.                               *)
Longer(L, sn, e, K, kn, d) ==
    /\ Len(L) <= Len(K)
    /\ \A i \in 1 .. Len(L) : /\ K[i] = L[i] /\ d[K[i]] = e[L[i]]
                              /\ K[i] \in kn <=> L[i] \in sn

LEMMA LongerSlots ==
    ASSUME NEW L \in Seq(Requests), NEW sn, NEW e \in [Requests -> Incoming],
           NEW K \in Seq(Requests), NEW kn, NEW d \in [Requests -> Incoming],
           Longer(L, sn, e, K, kn, d)
    PROVE  \A i \in 0 .. Len(L) : HardwareSlots(K, kn, d)[i] = HardwareSlots(L, sn, e)[i]
<1> DEFINE S == HardwareSlots(L, sn, e)
           T == HardwareSlots(K, kn, d)
           Good == {i \in 0 .. Len(L) : T[i] = S[i]}
<1>1. 0 \in Nat /\ Len(L) \in Nat /\ Len(K) \in Nat /\ 0 <= Len(L) /\ Good \in SUBSET (0 .. Len(L))
  OBVIOUS
<1>2. 0 \in Good
  BY <1>1, SlotsAre
<1>3. ASSUME NEW i \in Good, i < Len(L) PROVE i + 1 \in Good
  <2>1. i \in 0 .. Len(L) /\ T[i] = S[i]
    OBVIOUS
  <2>2. Len(L) <= Len(K)
    BY DEF Longer
  <2>3. i + 1 \in 0 .. Len(L) /\ i + 1 \in 1 .. Len(L) /\ i + 1 \in 1 .. Len(K) /\ (i + 1) - 1 = i
    BY <1>1, <1>3, <2>1, <2>2, SMT
  <2>4. S[i + 1] = IF L[i + 1] \in sn THEN S[i] ELSE SlotMerge(S[i], e[L[i + 1]])
    BY <2>3, SlotsAre
  <2>5. T[i + 1] = IF K[i + 1] \in kn THEN T[i] ELSE SlotMerge(T[i], d[K[i + 1]])
    BY <2>3, SlotsAre
  <2>6. K[i + 1] = L[i + 1] /\ d[K[i + 1]] = e[L[i + 1]] /\ (K[i + 1] \in kn <=> L[i + 1] \in sn)
    BY <2>3 DEF Longer
  <2> HIDE DEF S, T
  <2>7. QED
    BY <2>1, <2>3, <2>4, <2>5, <2>6
<1> HIDE DEF Good
<1>4. \A i \in 0 .. Len(L) : i \in Good
  BY <1>1, <1>2, <1>3, Upward
<1>5. QED
  BY <1>4 DEF Good
-----------------------------------------------------------------------------
(* What a rebuild leaves in the requests of a miss and what its state tells:  *)
(* L is the list of the targets, sn the snoops among them, e what each        *)
(* request carried when it arrived, me what it has been merged with.          *)

Mine(L, sn) == Range(L) \ sn
Final(L, sn, e) == HardwareSlots(L, sn, e)[Len(L)]

Spoiled(S) == ~ Agree(S) /\ \E in \in S : in.plan \/ in.conflicted

(* Why the line of a list may be refused.                                     *)
Reason(L, sn, e, me) == Final(L, sn, e).conflicted \/ \E r \in Mine(L, sn) : Spoiled(me[r])

(* The extension x of a request that carried y.                               *)
Marked(x, y) == x.plan /\ x.conflicted /\ x.requestor = y.requestor
RecordOf(x, y, s) ==
    /\ s.selected_valid /\ ~ s.conflicted
    /\ x.plan /\ ~ x.conflicted /\ x.requestor = y.requestor /\ SamePayload(s, x)

(* Only the first request is ever given a later record; another is only       *)
(* marked, and then what it met does not agree.                               *)
TailOK(x, y, S) == x = y \/ (y.plan /\ x = [y EXCEPT !.conflicted = TRUE] /\ ~ Agree(S))

FrontOK(x, L, sn, e, me) ==
    \/ x = e[L[1]]
    \/ Marked(x, e[L[1]]) /\ Reason(L, sn, e, me)
    \/ e[L[1]].plan /\ \E k \in 1 .. Len(L) : RecordOf(x, e[L[1]], HardwareSlots(L, sn, e)[k])

Miss(L, sn, e, me) ==
    /\ L \in Seq(Requests) /\ L # <<>> /\ IsInjective(L) /\ L[1] \notin sn
    /\ e \in [Requests -> Incoming] /\ me \in [Requests -> SUBSET Incoming]
    /\ \A r, t \in Mine(L, sn) : e[t] \in me[r]

Ready(q, L, sn, e, me) ==
    /\ q \in [Requests -> Incoming]
    /\ \A r \in Mine(L, sn) \ {L[1]} : TailOK(q[r], e[r], me[r])
    /\ FrontOK(q[L[1]], L, sn, e, me)

(* The state after some of the list: a conflict with its reason, no record    *)
(* yet, or the record of the hardware slot, perhaps of one further on.        *)
Refused(st, L, sn, e, me) ==
    st.conflicted /\ st.saw_reuse_plan /\ st.selected \in Mine(L, sn) /\ Reason(L, sn, e, me)

Choice(st, front, s) ==
    /\ ~ st.conflicted /\ st.saw_reuse_plan /\ st.selected = front
    /\ st.requestor = s.requestor /\ st.context = s.context /\ st.sequence = s.sequence

Loop(i, m, q, L, sn, e, me) ==
    /\ m \in Merges /\ m.st.saw_target
    /\ \A r \in Requests \ Mine(L, sn) : m.q[r] = q[r]
    /\ Ready(m.q, L, sn, e, me)
    /\ \/ Refused(m.st, L, sn, e, me) /\ m.q[m.st.selected].plan /\ m.q[m.st.selected].conflicted
       \/ /\ ~ m.st.conflicted /\ ~ m.st.saw_reuse_plan /\ m.st.selected = NoRequest
          /\ \A r \in Members(L, sn, i) : ~ e[r].plan
          /\ m.q[L[1]] = e[L[1]]
       \/ /\ e[L[1]].plan
          /\ \E k \in i .. Len(L) : /\ Choice(m.st, L[1], HardwareSlots(L, sn, e)[k])
                                    /\ RecordOf(m.q[L[1]], e[L[1]], HardwareSlots(L, sn, e)[k])

LEMMA MissFacts ==
    ASSUME NEW L, NEW sn, NEW e, NEW me, Miss(L, sn, e, me)
    PROVE  /\ Len(L) \in Nat \ {0} /\ L[1] \in Requests /\ L[1] \in Mine(L, sn)
           /\ Mine(L, sn) \subseteq Requests
           /\ \A i \in 1 .. Len(L) : L[1] \in Members(L, sn, i)
           /\ \A i \in 2 .. Len(L) : L[i] # L[1] /\ L[i] \in Range(L) /\ L[i] \in Requests
           /\ \A i \in 0 .. Len(L) : Members(L, sn, i) \subseteq Mine(L, sn)
<1>1. L \in Seq(Requests) /\ L # <<>> /\ IsInjective(L) /\ L[1] \notin sn
  BY DEF Miss
<1>2. Len(L) \in Nat \ {0} /\ DOMAIN L = 1 .. Len(L)
  BY <1>1
<1>3. 1 \in 1 .. Len(L) /\ \A i \in 1 .. Len(L) : 1 \in 1 .. i
  BY <1>2, SMT
<1>4. L[1] \in Requests /\ L[1] \in Mine(L, sn)
  BY <1>1, <1>2, <1>3 DEF Mine, Range
<1>5. \A i \in 1 .. Len(L) : L[1] \in Members(L, sn, i)
  BY <1>1, <1>3 DEF Members
<1>6. ASSUME NEW i \in 2 .. Len(L) PROVE L[i] # L[1] /\ L[i] \in Range(L) /\ L[i] \in Requests
  <2>1. i \in 1 .. Len(L) /\ i # 1
    BY <1>2, SMT
  <2>2. QED
    BY <1>1, <1>2, <1>3, <2>1 DEF IsInjective, Range
<1>7. QED
  BY <1>1, <1>2, <1>4, <1>5, <1>6, AllMembers DEF Mine

LEMMA RecordFacts ==
    ASSUME NEW L, NEW sn, NEW e, NEW me, Miss(L, sn, e, me), NEW k \in 1 .. Len(L),
           HardwareSlots(L, sn, e)[k].selected_valid, ~ HardwareSlots(L, sn, e)[k].conflicted
    PROVE  LET s == HardwareSlots(L, sn, e)[k] IN
           /\ s \in Slots /\ s.sequence \in Int /\ s.context # 0
           /\ \A r \in Members(L, sn, k) :
                 /\ e[r].plan /\ ValidContext(e[r])
                 /\ e[r].requestor = s.requestor /\ e[r].context = s.context
                 /\ e[r].sequence <= s.sequence
                 /\ e[r].sequence = s.sequence => e[r].data = s.data
           /\ \E r \in Members(L, sn, k) : e[r].requestor = s.requestor /\ SamePayload(s, e[r])
<1>0. PICK s : s = HardwareSlots(L, sn, e)[k]
  OBVIOUS
<1>1. L \in Seq(Requests) /\ e \in [Requests -> Incoming] /\ k \in 0 .. Len(L)
  BY SMT DEF Miss
<1>2. Knows(s, Carried(e, Members(L, sn, k)))
  BY <1>0, <1>1, SlotsKnow
<1>3. s \in Slots /\ s.sequence \in Int
  BY <1>2, SequencesAreIntegers DEF Knows
<1>4. Sound(s, Carried(e, Members(L, sn, k))) /\ s.selected_valid /\ ~ s.conflicted
  BY <1>0, <1>2 DEF Knows
<1>5. PICK kept \in Carried(e, Members(L, sn, k)) :
          /\ s.requestor = kept.requestor /\ SamePayload(s, kept)
          /\ \A other \in Carried(e, Members(L, sn, k)) : other.sequence <= kept.sequence
  BY <1>4 DEF Sound
<1>6. PICK t \in Members(L, sn, k) : kept = e[t]
  BY DEF Carried
<1>7. ASSUME NEW r \in Members(L, sn, k)
      PROVE  /\ e[r].plan /\ ValidContext(e[r])
             /\ e[r].requestor = s.requestor /\ e[r].context = s.context
             /\ e[r].sequence <= s.sequence
             /\ e[r].sequence = s.sequence => e[r].data = s.data
  <2>1. e[r] \in Carried(e, Members(L, sn, k))
    BY DEF Carried
  <2>2. QED
    BY <1>4, <1>5, <2>1 DEF Sound, Agree, SamePayload
<1>8. s.context # 0
  BY <1>5, <1>6, <1>7 DEF ValidContext, SamePayload
<1>9. QED
  BY <1>0, <1>3, <1>5, <1>6, <1>7, <1>8

(* A mark on one that is marked already changes nothing.                      *)
LEMMA MarkAgain ==
    ASSUME NEW q \in [Requests -> Incoming], NEW r \in Requests, q[r].plan, q[r].conflicted
    PROVE  MarkConflict(q, r) = q
<1>1. q[r] \in Incoming /\ [q[r] EXCEPT !.conflicted = TRUE] \in Incoming
  BY DEF Incoming
<1>2. [q[r] EXCEPT !.conflicted = TRUE] = q[r]
  BY <1>1 DEF Incoming
<1>3. MarkConflict(q, r)[r] = q[r] /\ MarkConflict(q, r) \in [Requests -> Incoming]
  BY <1>2, MarkTypes
<1>4. \A t \in Requests \ {r} : MarkConflict(q, r)[t] = q[t]
  BY MarkTypes
<1>5. QED
  BY <1>3, <1>4

LEMMA FrontRefused ==
    ASSUME NEW L, NEW sn, NEW e, NEW me, Miss(L, sn, e, me), NEW q, NEW m \in Merges,
           \A r \in Requests \ Mine(L, sn) : m.q[r] = q[r],
           Ready(m.q, L, sn, e, me), m.q[L[1]].requestor = e[L[1]].requestor,
           NEW t, Refuses(m, L[1], t), Reason(L, sn, e, me), NEW i
    PROVE  Loop(i, t, q, L, sn, e, me)
<1>1. L[1] \in Requests /\ L[1] \in Mine(L, sn)
  BY MissFacts
<1>2. m.q \in [Requests -> Incoming] /\ t \in Merges /\ t.q = MarkConflict(m.q, L[1])
  BY DEF Merges, Refuses
<1>3. /\ t.q \in [Requests -> Incoming]
      /\ t.q[L[1]].plan /\ t.q[L[1]].conflicted /\ t.q[L[1]].requestor = e[L[1]].requestor
      /\ \A r \in Requests \ {L[1]} : t.q[r] = m.q[r]
  <2>1. PICK f : f = L[1]
    OBVIOUS
  <2>2. f \in Requests /\ t.q = MarkConflict(m.q, f)
    BY <1>1, <1>2, <2>1
  <2>3. PICK p \in [Requests -> Incoming] : p = m.q
    BY <1>2
  <2>4. PICK c : c = MarkConflict(p, f)
    OBVIOUS
  <2>5. /\ c \in [Requests -> Incoming] /\ c[f].plan /\ c[f].conflicted
        /\ c[f].requestor = p[f].requestor
    BY <2>2, <2>4, MarkTypes
  <2>6. \A r \in Requests \ {f} : c[r] = p[r]
    BY <2>2, <2>4, MarkTypes
  <2>7. QED
    BY <2>1, <2>2, <2>3, <2>4, <2>5, <2>6
<1>4. \A r \in Requests \ Mine(L, sn) : t.q[r] = q[r]
  BY <1>1, <1>3
<1>5. Ready(t.q, L, sn, e, me)
  <2>1. Marked(t.q[L[1]], e[L[1]])
    BY <1>3 DEF Marked
  <2>2. \A r \in Mine(L, sn) \ {L[1]} : TailOK(t.q[r], e[r], me[r])
    <3>1. Mine(L, sn) \subseteq Requests
      BY MissFacts
    <3>2. QED
      BY <1>3, <3>1 DEF Ready
  <2>3. QED
    BY <1>3, <2>1, <2>2 DEF Ready, FrontOK
<1>6. Refused(t.st, L, sn, e, me) /\ t.q[t.st.selected].plan /\ t.q[t.st.selected].conflicted
      /\ t.st.saw_target
  BY <1>1, <1>3 DEF Refused, Refuses
<1>7. QED
  BY <1>2, <1>4, <1>5, <1>6 DEF Loop

LEMMA OtherRefused ==
    ASSUME NEW L, NEW sn, NEW e, NEW me, Miss(L, sn, e, me), NEW q, NEW m \in Merges,
           \A r \in Requests \ Mine(L, sn) : m.q[r] = q[r],
           Ready(m.q, L, sn, e, me), NEW x \in Mine(L, sn) \ {L[1]}, m.q[x].plan,
           ~ Agree(me[x]), NEW t, Refuses(m, x, t), NEW i
    PROVE  Loop(i, t, q, L, sn, e, me)
<1>1. x \in Requests /\ L[1] \in Requests /\ Mine(L, sn) \subseteq Requests
  BY MissFacts
<1>2. m.q \in [Requests -> Incoming] /\ t \in Merges /\ t.q = MarkConflict(m.q, x)
  BY DEF Merges, Refuses
<1>3. /\ t.q \in [Requests -> Incoming]
      /\ t.q[x].plan /\ t.q[x].conflicted /\ t.q[x] = [m.q[x] EXCEPT !.conflicted = TRUE]
      /\ \A r \in Requests \ {x} : t.q[r] = m.q[r]
  BY <1>1, <1>2, MarkTypes
<1>4. TailOK(m.q[x], e[x], me[x]) /\ e[x] \in Incoming /\ e[x] \in me[x]
  BY <1>1 DEF Ready, Miss
<1>5. e[x].plan /\ t.q[x] = [e[x] EXCEPT !.conflicted = TRUE]
  <2>1. CASE m.q[x] = e[x]
    BY <1>3, <2>1
  <2>2. CASE m.q[x] # e[x]
    <3>1. e[x].plan /\ m.q[x] = [e[x] EXCEPT !.conflicted = TRUE]
      BY <1>4, <2>2 DEF TailOK
    <3>2. QED
      BY <1>3, <1>4, <3>1 DEF Incoming
  <2>3. QED
    BY <2>1, <2>2
<1>6. Reason(L, sn, e, me)
  BY <1>4, <1>5 DEF Reason, Spoiled
<1>7. Ready(t.q, L, sn, e, me)
  <2>1. TailOK(t.q[x], e[x], me[x])
    BY <1>5 DEF TailOK
  <2>2. \A r \in Mine(L, sn) \ {L[1]} : TailOK(t.q[r], e[r], me[r])
    BY <1>1, <1>3, <2>1 DEF Ready
  <2>3. FrontOK(t.q[L[1]], L, sn, e, me)
    BY <1>1, <1>3 DEF Ready
  <2>4. QED
    BY <1>3, <2>2, <2>3 DEF Ready
<1>8. Refused(t.st, L, sn, e, me) /\ t.q[t.st.selected].plan /\ t.q[t.st.selected].conflicted
      /\ t.st.saw_target
  BY <1>3, <1>6 DEF Refused, Refuses
<1>9. \A r \in Requests \ Mine(L, sn) : t.q[r] = q[r]
  BY <1>3
<1>10. QED
  BY <1>2, <1>7, <1>8, <1>9 DEF Loop

(* The first request of a list.                                               *)
LEMMA LoopFirst ==
    ASSUME NEW L, NEW sn, NEW e, NEW me, Miss(L, sn, e, me), NEW q, Ready(q, L, sn, e, me)
    PROVE  Loop(1, MergeRequest(Start(q), L[1]), q, L, sn, e, me)
<1> DEFINE f == L[1]
           m == Start(q)
           M == Mine(L, sn)
           S == HardwareSlots(L, sn, e)
<1>1. /\ Len(L) \in Nat \ {0} /\ f \in Requests /\ f \in M /\ M \subseteq Requests
      /\ \A k \in 1 .. Len(L) : f \in Members(L, sn, k)
  BY MissFacts
<1>2. /\ L \in Seq(Requests) /\ e \in [Requests -> Incoming] /\ f \notin sn
      /\ me \in [Requests -> SUBSET Incoming] /\ e[f] \in me[f] /\ e[f] \in Incoming
  BY <1>1 DEF Miss
<1>3. q \in [Requests -> Incoming] /\ q[f] \in Incoming /\ FrontOK(q[f], L, sn, e, me)
  BY <1>1 DEF Ready
<1>4. /\ m \in Merges /\ m.q = q /\ m.st.selected = NoRequest /\ ~ m.st.saw_target
      /\ ~ m.st.conflicted /\ ~ m.st.saw_reuse_plan
  BY <1>3, ExtensionTypes DEF Start, Merges, ResetState
<1>5. 1 \in 1 .. Len(L) /\ 1 \in 0 .. Len(L) /\ 0 \in 0 .. Len(L) /\ 1 - 1 = 0 /\ 0 < Len(L) /\ 0 + 1 = 1
  BY <1>1, SMT
<1>6. S[1] = SlotMerge(EmptySlot, e[f])
  BY <1>2, <1>5, SlotsAre
<1>7. Members(L, sn, 1) = {f}
  <2>1. L[0 + 1] = f /\ Members(L, sn, 0 + 1) = Members(L, sn, 0) \cup {f}
    BY <1>2, <1>5, NextMember
  <2>2. QED
    BY <1>2, <1>5, <2>1, AllMembers
<1>8. ASSUME NEW k \in 1 .. Len(L), RecordOf(q[f], e[f], S[k])
      PROVE  /\ ValidContext(q[f]) /\ q[f].plan /\ q[f].requestor = S[k].requestor
             /\ q[f].context = S[k].context /\ q[f].sequence = S[k].sequence
  <2>1. S[k].context # 0 /\ e[f].requestor = S[k].requestor
    BY <1>1, <1>8, RecordFacts DEF RecordOf
  <2>2. QED
    BY <1>8, <2>1 DEF RecordOf, ValidContext, SamePayload
<1> HIDE DEF f, m, M, S
<1>9. PICK t : t = MergeRequest(m, f)
  OBVIOUS
<1>10. CASE ~ q[f].plan
  <2>1. /\ t \in Merges /\ t.q = q /\ t.st.saw_target /\ ~ t.st.saw_reuse_plan
        /\ ~ t.st.conflicted /\ t.st.selected = NoRequest
    BY <1>1, <1>4, <1>9, <1>10, MergeLeaves
  <2>2. q[f] = e[f]
    BY <1>3, <1>10 DEF FrontOK, Marked, RecordOf, f
  <2>3. \A r \in Members(L, sn, 1) : ~ e[r].plan
    BY <1>7, <1>10, <2>2
  <2>4. Loop(1, t, q, L, sn, e, me)
    BY <2>1, <2>2, <2>3 DEF Loop, f
  <2>5. QED
    BY <1>9, <2>4 DEF f, m
<1>11. CASE q[f].plan /\ ~ ValidContext(q[f])
  <2>1. Refuses(m, f, t)
    BY <1>1, <1>4, <1>9, <1>11, MergeRefusesNew
  <2>2. q[f].requestor = e[f].requestor
    BY <1>3 DEF FrontOK, Marked, RecordOf, f
  <2>3. Reason(L, sn, e, me)
    <3>1. CASE q[f] = e[f]
      <4>1. Spoiled(me[f])
        BY <1>2, <1>11, <3>1 DEF Spoiled, Agree
      <4>2. QED
        BY <1>1, <4>1 DEF Reason, M
    <3>2. CASE q[f] # e[f]
      BY <1>3, <1>8, <1>11, <3>2 DEF FrontOK, f, S
    <3>3. QED
      BY <3>1, <3>2
  <2>4. Loop(1, t, q, L, sn, e, me)
    BY <1>4, <2>1, <2>2, <2>3, FrontRefused DEF f
  <2>5. QED
    BY <1>9, <2>4 DEF f, m
<1>12. CASE q[f].plan /\ ValidContext(q[f])
  <2>1. /\ t \in Merges /\ t.q = q /\ t.st.saw_target /\ t.st.saw_reuse_plan
        /\ ~ t.st.conflicted /\ t.st.selected = f
        /\ t.st.requestor = q[f].requestor /\ t.st.context = q[f].context
        /\ t.st.sequence = q[f].sequence
    BY <1>1, <1>4, <1>9, <1>12, MergeSelects
  <2>2. \E k \in 1 .. Len(L) : RecordOf(q[f], e[f], S[k]) /\ e[f].plan
    <3>1. CASE q[f] = e[f]
      <4>1. EmptySlot \in Slots /\ ~ EmptySlot.saw_target /\ ~ EmptySlot.conflicted
            /\ ~ EmptySlot.selected_valid
        BY ExtensionTypes DEF EmptySlot
      <4>2. ~ Untrusted(EmptySlot, e[f])
        BY <1>12, <3>1, <4>1 DEF Untrusted
      <4>3. S[1].selected_valid /\ ~ S[1].conflicted
        BY <1>2, <1>6, <1>12, <3>1, <4>1, <4>2, MergeCases
      <4>4. S[1].requestor = e[f].requestor /\ S[1].context = e[f].context
            /\ S[1].sequence = e[f].sequence /\ S[1].data = e[f].data
        BY <1>2, <1>6, <1>12, <3>1, <4>1, <4>3, MergeCases
      <4>5. RecordOf(q[f], e[f], S[1])
        BY <1>12, <3>1, <4>3, <4>4 DEF RecordOf, SamePayload, ValidContext
      <4>6. QED
        BY <1>5, <1>12, <3>1, <4>5
    <3>2. CASE q[f] # e[f]
      <4>1. ~ q[f].conflicted
        BY <1>12 DEF ValidContext
      <4>2. QED
        BY <1>3, <3>2, <4>1 DEF FrontOK, Marked, f, S
    <3>3. QED
      BY <3>1, <3>2
  <2>3. PICK k \in 1 .. Len(L) : RecordOf(q[f], e[f], S[k]) /\ e[f].plan
    BY <2>2
  <2>4. Choice(t.st, f, S[k])
    BY <1>8, <2>1, <2>3 DEF Choice
  <2>5. Loop(1, t, q, L, sn, e, me)
    BY <2>1, <2>3, <2>4 DEF Loop, f, S
  <2>6. QED
    BY <1>9, <2>5 DEF f, m
<1>13. QED
  BY <1>10, <1>11, <1>12

(* And every one after it.                                                    *)
LEMMA LoopNext ==
    ASSUME NEW L, NEW sn, NEW e, NEW me, Miss(L, sn, e, me), NEW q, NEW m,
           NEW i \in 1 .. Len(L), i < Len(L), Loop(i, m, q, L, sn, e, me)
    PROVE  Loop(i + 1, IF L[i + 1] \in sn THEN m ELSE MergeRequest(m, L[i + 1]), q, L, sn, e, me)
<1> DEFINE f == L[1]
           r == L[i + 1]
           M == Mine(L, sn)
           S == HardwareSlots(L, sn, e)
<1>1. /\ Len(L) \in Nat \ {0} /\ f \in Requests /\ f \in M /\ M \subseteq Requests
      /\ \A k \in 1 .. Len(L) : f \in Members(L, sn, k)
      /\ \A k \in 0 .. Len(L) : Members(L, sn, k) \subseteq M
      /\ \A k \in 2 .. Len(L) : L[k] # f /\ L[k] \in Range(L) /\ L[k] \in Requests
  BY MissFacts
<1>2. /\ i \in 0 .. Len(L) /\ i + 1 \in 1 .. Len(L) /\ i + 1 \in 2 .. Len(L) /\ (i + 1) - 1 = i
      /\ i + 1 \in 0 .. Len(L)
  BY <1>1, SMT
<1>3. r # f /\ r \in Requests
  BY <1>1, <1>2
<1>4. /\ L \in Seq(Requests) /\ e \in [Requests -> Incoming] /\ f \notin sn
      /\ me \in [Requests -> SUBSET Incoming] /\ e[f] \in me[f] /\ e[f] \in Incoming /\ e[r] \in Incoming
  BY <1>1, <1>3 DEF Miss
<1>5. /\ m \in Merges /\ m.st.saw_target /\ Ready(m.q, L, sn, e, me)
      /\ \A x \in Requests \ M : m.q[x] = q[x]
  BY DEF Loop
<1>6. m.q \in [Requests -> Incoming] /\ m.q[r] \in Incoming /\ m.q[f] \in Incoming /\ m.st \in States
  BY <1>1, <1>3, <1>5 DEF Merges
<1>7. S[i + 1] = IF r \in sn THEN S[i] ELSE SlotMerge(S[i], e[r])
  BY <1>2, <1>4, SlotsAre
<1>8. S[i] \in Slots
  BY <1>2, <1>4, SlotsAre
<1>9. /\ r \in sn => Members(L, sn, i + 1) = Members(L, sn, i)
      /\ r \notin sn => Members(L, sn, i + 1) = Members(L, sn, i) \cup {r}
  BY <1>2, <1>4, NextMember
<1>10. \A k \in i .. Len(L) : k \in 1 .. Len(L) /\ k \in 0 .. Len(L) /\ (k # i => k \in i + 1 .. Len(L))
  BY <1>1, SMT
<1> HIDE DEF f, M, S
<1>11. PICK t : t = MergeRequest(m, r)
  OBVIOUS
<1>12. CASE r \in sn
  <2>1. CASE Refused(m.st, L, sn, e, me) /\ m.q[m.st.selected].plan /\ m.q[m.st.selected].conflicted
    BY <1>5, <1>12, <2>1 DEF Loop, M
  <2>2. CASE /\ ~ m.st.conflicted /\ ~ m.st.saw_reuse_plan /\ m.st.selected = NoRequest
             /\ \A x \in Members(L, sn, i) : ~ e[x].plan
             /\ m.q[f] = e[f]
    BY <1>5, <1>9, <1>12, <2>2 DEF Loop, f, M
  <2>3. CASE /\ e[f].plan
             /\ \E k \in i .. Len(L) : Choice(m.st, f, S[k]) /\ RecordOf(m.q[f], e[f], S[k])
    <3>1. PICK k \in i .. Len(L) : Choice(m.st, f, S[k]) /\ RecordOf(m.q[f], e[f], S[k])
      BY <2>3
    <3>2. \E n \in i + 1 .. Len(L) : Choice(m.st, f, S[n]) /\ RecordOf(m.q[f], e[f], S[n])
      <4>1. CASE k = i
        <5>1. i + 1 \in i + 1 .. Len(L)
          BY <1>2, SMT
        <5>2. QED
          BY <1>7, <1>12, <3>1, <4>1, <5>1
      <4>2. CASE k # i
        BY <1>10, <3>1, <4>2
      <4>3. QED
        BY <4>1, <4>2
    <3>3. QED
      BY <1>5, <1>12, <2>3, <3>2 DEF Loop, f, M, S
  <2>4. QED
    BY <2>1, <2>2, <2>3 DEF Loop, f, S
<1>13. CASE r \notin sn
  <2>0. SUFFICES Loop(i + 1, t, q, L, sn, e, me)
    BY <1>11, <1>13
  <2>1. r \in M /\ r \in M \ {f} /\ e[r] \in me[r] /\ e[f] \in me[r] /\ e[r] \in me[f]
    BY <1>1, <1>2, <1>3, <1>13 DEF M, Mine, Miss
  <2>2. TailOK(m.q[r], e[r], me[r])
    BY <1>5, <2>1 DEF Ready, M, f
  <2>3. m.q[r].plan <=> e[r].plan
    BY <1>4, <2>2 DEF TailOK, Incoming
  <2>4. ~ e[r].plan => m.q[r] = e[r]
    BY <2>2 DEF TailOK
  <2>5. CASE Refused(m.st, L, sn, e, me) /\ m.q[m.st.selected].plan /\ m.q[m.st.selected].conflicted
    <3>1. PICK x : x = m.st.selected
      OBVIOUS
    <3>2. x \in M /\ x \in Requests /\ m.st.conflicted /\ m.st.saw_reuse_plan /\ Reason(L, sn, e, me)
      BY <1>1, <2>5, <3>1 DEF Refused, M
    <3>3. Refuses(m, x, t)
      BY <1>3, <1>5, <1>11, <3>1, <3>2, MergeRefuses
    <3>4. t.q = m.q
      BY <1>6, <2>5, <3>1, <3>2, <3>3, MarkAgain DEF Refuses
    <3>5. Refused(t.st, L, sn, e, me) /\ t.q[t.st.selected].plan /\ t.q[t.st.selected].conflicted
      BY <2>5, <3>1, <3>2, <3>3, <3>4 DEF Refuses, Refused, M
    <3>6. QED
      BY <1>5, <3>3, <3>4, <3>5 DEF Loop, Refuses, M
  <2>6. CASE /\ ~ m.st.conflicted /\ ~ m.st.saw_reuse_plan /\ m.st.selected = NoRequest
             /\ \A x \in Members(L, sn, i) : ~ e[x].plan
             /\ m.q[f] = e[f]
    <3>1. CASE ~ e[r].plan
      <4>1. /\ t \in Merges /\ t.q = m.q /\ t.st.saw_target /\ ~ t.st.saw_reuse_plan
            /\ ~ t.st.conflicted /\ t.st.selected = NoRequest
        BY <1>3, <1>5, <1>11, <2>3, <2>6, <3>1, MergeLeaves
      <4>2. \A x \in Members(L, sn, i + 1) : ~ e[x].plan
        BY <1>9, <1>13, <2>6, <3>1
      <4>3. QED
        BY <1>5, <2>6, <4>1, <4>2 DEF Loop, f, M
    <3>2. CASE e[r].plan
      <4>1. Refuses(m, r, t)
        BY <1>3, <1>5, <1>11, <2>3, <2>6, <3>2, MergeRefusesNew
      <4>2. ~ e[f].plan
        BY <1>1, <2>6
      <4>3. ~ Agree(me[r])
        BY <2>1, <4>2 DEF Agree
      <4>4. QED
        BY <1>5, <2>1, <2>3, <3>2, <4>1, <4>3, OtherRefused DEF f, M
    <3>3. QED
      BY <3>1, <3>2
  <2>7. CASE /\ e[f].plan
             /\ \E k \in i .. Len(L) : Choice(m.st, f, S[k]) /\ RecordOf(m.q[f], e[f], S[k])
    <3>1. PICK k \in i .. Len(L) : Choice(m.st, f, S[k]) /\ RecordOf(m.q[f], e[f], S[k])
      BY <2>7
    <3>2. /\ ~ m.st.conflicted /\ m.st.saw_reuse_plan /\ m.st.selected = f
          /\ m.st.requestor = S[k].requestor /\ m.st.context = S[k].context
          /\ m.st.sequence = S[k].sequence
          /\ m.st.selected \in Requests
      BY <1>1, <3>1 DEF Choice
    <3>3. /\ S[k].selected_valid /\ ~ S[k].conflicted
          /\ m.q[f].plan /\ ~ m.q[f].conflicted /\ m.q[f].requestor = e[f].requestor
          /\ SamePayload(S[k], m.q[f])
      BY <3>1 DEF RecordOf
    <3>4. k \in 1 .. Len(L) /\ k \in 0 .. Len(L)
      BY <1>10
    <3>5. /\ S[k] \in Slots /\ S[k].sequence \in Int /\ S[k].context # 0
          /\ \A x \in Members(L, sn, k) :
                /\ e[x].plan /\ ValidContext(e[x])
                /\ e[x].requestor = S[k].requestor /\ e[x].context = S[k].context
                /\ e[x].sequence <= S[k].sequence
                /\ e[x].sequence = S[k].sequence => e[x].data = S[k].data
      BY <3>3, <3>4, RecordFacts DEF S
    <3>6. e[f].requestor = S[k].requestor /\ e[f].context = S[k].context
      BY <1>1, <3>4, <3>5
    <3>7. ASSUME Refuses(m, f, t), Reason(L, sn, e, me) PROVE Loop(i + 1, t, q, L, sn, e, me)
      BY <1>5, <3>3, <3>7, FrontRefused DEF f, M
    <3>8. ASSUME ~ Agree(me[f]) PROVE Reason(L, sn, e, me)
      <4>1. Spoiled(me[f])
        BY <1>4, <2>7, <3>8 DEF Spoiled
      <4>2. QED
        BY <1>1, <4>1 DEF Reason, M
    <3>9. CASE ~ e[r].plan
      <4>1. Refuses(m, f, t)
        BY <1>3, <1>5, <1>11, <2>3, <3>2, <3>9, MergeRefuses
      <4>2. ~ Agree(me[f])
        BY <2>1, <3>9 DEF Agree
      <4>3. QED
        BY <3>7, <3>8, <4>1, <4>2
    <3>10. CASE e[r].plan /\ ~ ValidContext(m.q[r])
      <4>1. Refuses(m, r, t)
        BY <1>3, <1>5, <1>11, <2>3, <3>2, <3>10, MergeRefusesNew
      <4>2. ~ Agree(me[r])
        <5>1. CASE m.q[r] = e[r]
          BY <2>1, <3>10, <5>1 DEF Agree
        <5>2. CASE m.q[r] # e[r]
          BY <2>2, <5>2 DEF TailOK
        <5>3. QED
          BY <5>1, <5>2
      <4>3. QED
        BY <1>5, <2>1, <2>3, <3>10, <4>1, <4>2, OtherRefused DEF f, M
    <3>11. CASE e[r].plan /\ ValidContext(m.q[r])
      <4>1. m.q[r] = e[r]
        <5>1. ~ m.q[r].conflicted
          BY <3>11 DEF ValidContext
        <5>2. QED
          BY <1>4, <2>2, <5>1 DEF TailOK, Incoming
      <4>2. CASE m.st.requestor # e[r].requestor \/ m.st.context # e[r].context
        <5>1. Refuses(m, f, t)
          BY <1>3, <1>5, <1>11, <3>2, <3>11, <4>1, <4>2, MergeRefuses
        <5>2. ~ Agree(me[f])
          BY <1>4, <2>1, <3>2, <3>6, <4>2 DEF Agree
        <5>3. QED
          BY <3>7, <3>8, <5>1, <5>2
      <4>3. CASE m.st.requestor = e[r].requestor /\ m.st.context = e[r].context
        <5>1. CASE e[r].sequence = m.st.sequence /\ ~ SamePayload(m.q[f], e[r])
          <6>1. Refuses(m, f, t)
            BY <1>3, <1>5, <1>11, <3>2, <3>11, <4>1, <5>1, MergeRefuses
          <6>2. ~ SamePayload(S[k], e[r])
            BY <3>3, <5>1 DEF SamePayload
          <6>3. r \notin Members(L, sn, k)
            BY <3>2, <3>5, <4>3, <5>1, <6>2 DEF SamePayload
          <6>4. k = i
            <7>1. ASSUME k # i PROVE r \in Members(L, sn, k)
              <8>1. i + 1 \in 1 .. k
                BY <1>2, <7>1, SMT
              <8>2. QED
                BY <1>13, <8>1 DEF Members
            <7>2. QED
              BY <6>3, <7>1
          <6>5. S[i + 1].conflicted
            <7>1. PICK s \in Slots : s = S[i]
              BY <1>8
            <7>2. PICK u : u = S[i + 1]
              OBVIOUS
            <7>3. u = SlotMerge(s, e[r]) /\ s.selected_valid /\ ~ s.conflicted
                  /\ e[r].sequence = s.sequence /\ ~ SamePayload(s, e[r])
              BY <1>7, <1>13, <3>2, <3>3, <5>1, <6>2, <6>4, <7>1, <7>2
            <7>4. u.conflicted
              BY <1>4, <3>11, <7>3, MergeCases
            <7>5. QED
              BY <7>2, <7>4
          <6>6. Final(L, sn, e).conflicted
            BY <1>2, <1>4, <6>5, ConflictStays DEF Final, S
          <6>7. QED
            BY <3>7, <6>1, <6>6 DEF Reason
        <5>2. CASE e[r].sequence = m.st.sequence => SamePayload(m.q[f], e[r])
          <6>1. /\ t \in Merges /\ t.st.saw_target /\ t.st.saw_reuse_plan /\ ~ t.st.conflicted
                /\ t.st.selected = f /\ t.st.requestor = m.st.requestor
                /\ t.st.context = m.st.context
                /\ t.st.sequence = IF e[r].sequence > m.st.sequence
                                   THEN e[r].sequence ELSE m.st.sequence
                /\ t.q = IF e[r].sequence > m.st.sequence
                         THEN CopyExtension(m.q, f, r) ELSE m.q
            BY <1>3, <1>5, <1>11, <3>2, <3>11, <4>1, <4>3, <5>2, MergeTakes
          <6>2. m.st.sequence \in Int /\ e[r].sequence \in Int
            BY <1>4, <3>2, <3>5, ExtensionTypes
          <6>3. \E n \in i + 1 .. Len(L) : Choice(t.st, f, S[n]) /\ RecordOf(t.q[f], e[f], S[n])
            <7>1. CASE e[r].sequence > m.st.sequence
              <8>1. r \notin Members(L, sn, k)
                BY <3>2, <3>5, <6>2, <7>1
              <8>2. k = i
                <9>1. ASSUME k # i PROVE r \in Members(L, sn, k)
                  <10>1. i + 1 \in 1 .. k
                    BY <1>2, <9>1, SMT
                  <10>2. QED
                    BY <1>13, <10>1 DEF Members
                <9>2. QED
                  BY <8>1, <9>1
              <8>3. PICK s : s = S[i]
                OBVIOUS
              <8>4. PICK u : u = S[i + 1]
                OBVIOUS
              <8>5. u = SlotMerge(s, e[r]) /\ s \in Slots /\ s.selected_valid /\ ~ s.conflicted
                    /\ s.requestor = e[r].requestor /\ s.context = e[r].context
                    /\ e[r].sequence > s.sequence /\ s.sequence \in Int
                BY <1>7, <1>8, <1>13, <3>2, <3>3, <3>5, <4>3, <7>1, <8>2, <8>3, <8>4
              <8>6. ~ Untrusted(s, e[r]) /\ ~ Foreign(s, e[r]) /\ e[r].sequence # s.sequence
                BY <3>11, <4>1, <6>2, <8>5 DEF Untrusted, Foreign
              <8>7. u.selected_valid /\ ~ u.conflicted
                BY <1>4, <3>11, <8>5, <8>6, MergeCases
              <8>8. /\ u.requestor = e[r].requestor /\ u.context = e[r].context
                    /\ u.sequence = e[r].sequence /\ u.data = e[r].data
                <9>1. ~ e[r].sequence <= s.sequence
                  BY <6>2, <8>5
                <9>2. QED
                  BY <1>4, <3>11, <8>5, <8>7, <9>1, MergeCases
              <8>9. Choice(t.st, f, u)
                BY <4>3, <6>1, <7>1, <8>8 DEF Choice
              <8>10. t.q[f] = [e[r] EXCEPT !.requestor = m.q[f].requestor]
                BY <1>1, <1>3, <1>6, <4>1, <6>1, <7>1, CopyTypes
              <8>11. /\ t.q[f].plan /\ ~ t.q[f].conflicted /\ t.q[f].requestor = m.q[f].requestor
                     /\ t.q[f].context = e[r].context /\ t.q[f].sequence = e[r].sequence
                     /\ t.q[f].data = e[r].data
                BY <1>4, <3>11, <4>1, <8>10 DEF Incoming, ValidContext
              <8>12. RecordOf(t.q[f], e[f], u)
                BY <3>3, <8>7, <8>8, <8>11 DEF RecordOf, SamePayload
              <8>13. i + 1 \in i + 1 .. Len(L)
                BY <1>2, SMT
              <8>14. QED
                BY <8>4, <8>9, <8>12, <8>13
            <7>2. CASE ~ (e[r].sequence > m.st.sequence)
              <8>1. t.q = m.q /\ Choice(t.st, f, S[k]) /\ RecordOf(t.q[f], e[f], S[k])
                BY <3>1, <3>2, <6>1, <7>2 DEF Choice
              <8>2. CASE k # i
                BY <1>10, <8>1, <8>2
              <8>3. CASE k = i
                <9>1. PICK s : s = S[i]
                  OBVIOUS
                <9>2. PICK u : u = S[i + 1]
                  OBVIOUS
                <9>3. u = SlotMerge(s, e[r]) /\ s \in Slots /\ s.selected_valid /\ ~ s.conflicted
                      /\ s.requestor = e[r].requestor /\ s.context = e[r].context
                      /\ ~ e[r].sequence > s.sequence /\ s.sequence \in Int
                  BY <1>7, <1>8, <1>13, <3>2, <3>3, <3>5, <4>3, <7>2, <8>3, <9>1, <9>2
                <9>4. e[r].sequence = s.sequence => SamePayload(s, e[r])
                  BY <3>2, <3>3, <5>2, <8>3, <9>1 DEF SamePayload
                <9>5. ~ Untrusted(s, e[r]) /\ ~ Foreign(s, e[r])
                  BY <3>11, <4>1, <9>3 DEF Untrusted, Foreign
                <9>6. u.selected_valid /\ ~ u.conflicted
                  BY <1>4, <3>11, <9>3, <9>4, <9>5, MergeCases
                <9>7. /\ u.requestor = s.requestor /\ u.context = s.context
                      /\ u.sequence = s.sequence /\ u.data = s.data
                  <10>1. ~ (~ s.selected_valid \/ e[r].sequence > s.sequence)
                    BY <9>3
                  <10>2. QED
                    BY <1>4, <3>11, <9>3, <9>6, <10>1, MergeCases
                <9>8. Choice(t.st, f, u) /\ RecordOf(t.q[f], e[f], u)
                  BY <8>1, <8>3, <9>1, <9>6, <9>7 DEF Choice, RecordOf, SamePayload
                <9>9. i + 1 \in i + 1 .. Len(L)
                  BY <1>2, SMT
                <9>10. QED
                  BY <9>2, <9>8, <9>9
              <8>4. QED
                BY <8>2, <8>3
            <7>3. QED
              BY <7>1, <7>2
          <6>4. t.q \in [Requests -> Incoming] /\ \A x \in Requests \ {f} : t.q[x] = m.q[x]
            <7>1. CASE e[r].sequence > m.st.sequence
              <8>1. PICK p \in [Requests -> Incoming] : p = m.q
                BY <1>6
              <8>2. PICK c : c = CopyExtension(p, f, r)
                OBVIOUS
              <8>3. t.q = c
                BY <6>1, <7>1, <8>1, <8>2
              <8>4. PICK z \in Requests : z = r
                BY <1>3
              <8>5. c \in [Requests -> Incoming]
                BY <1>1, <8>2, <8>4, CopyTypes
              <8>6. \A x \in Requests \ {f} : c[x] = p[x]
                BY <1>1, <8>2, <8>4, CopyLeaves
              <8>7. QED
                BY <8>1, <8>3, <8>5, <8>6
            <7>2. CASE ~ (e[r].sequence > m.st.sequence)
              BY <1>6, <6>1, <7>2
            <7>3. QED
              BY <7>1, <7>2
          <6>5. Ready(t.q, L, sn, e, me)
            <7>1. \A x \in M \ {f} : TailOK(t.q[x], e[x], me[x])
              BY <1>1, <1>5, <6>4 DEF Ready, M, f
            <7>2. \A n \in i + 1 .. Len(L) : n \in 1 .. Len(L)
              BY <1>2, SMT
            <7>3. FrontOK(t.q[f], L, sn, e, me)
              BY <2>7, <6>3, <7>2 DEF FrontOK, f, S
            <7>4. QED
              BY <6>4, <7>1, <7>3 DEF Ready, M, f
          <6>6. \A x \in Requests \ M : t.q[x] = q[x]
            BY <1>1, <1>5, <6>4
          <6>7. QED
            BY <2>7, <6>1, <6>3, <6>5, <6>6 DEF Loop, f, M, S
        <5>3. QED
          BY <5>1, <5>2
      <4>4. QED
        BY <4>2, <4>3
    <3>12. QED
      BY <3>9, <3>10, <3>11
  <2>8. QED
    BY <2>5, <2>6, <2>7 DEF Loop, f, S
<1>14. QED
  BY <1>12, <1>13

(* The state when a list has been merged, with the request it selects.        *)
Verdict(st, q, L, sn, e, me) ==
    /\ st.saw_target
    /\ \/ Refused(st, L, sn, e, me)
       \/ /\ ~ st.conflicted /\ ~ st.saw_reuse_plan /\ st.selected = NoRequest
          /\ \A r \in Mine(L, sn) : ~ e[r].plan
       \/ /\ e[L[1]].plan /\ Choice(st, L[1], Final(L, sn, e))
          /\ Final(L, sn, e).selected_valid /\ ~ Final(L, sn, e).conflicted
          /\ \/ RecordOf(q[L[1]], e[L[1]], Final(L, sn, e))
             \/ Marked(q[L[1]], e[L[1]]) /\ ~ Agree(me[L[1]])

LEMMA RebuildCoheres ==
    ASSUME NEW L, NEW sn, NEW e, NEW me, Miss(L, sn, e, me), NEW q, Ready(q, L, sn, e, me)
    PROVE  /\ Rebuild(q, L, sn) \in Merges
           /\ \A r \in Requests \ Mine(L, sn) : Rebuild(q, L, sn).q[r] = q[r]
           /\ Ready(Rebuild(q, L, sn).q, L, sn, e, me)
           /\ Verdict(Rebuild(q, L, sn).st, Rebuild(q, L, sn).q, L, sn, e, me)
<1>1. /\ Len(L) \in Nat \ {0} /\ L[1] \in Requests /\ L \in Seq(Requests) /\ L[1] \notin sn
      /\ q \in [Requests -> Incoming]
  BY MissFacts DEF Miss, Ready
<1>2. PICK f \in [0 .. Len(L) -> Merges] : Rebuilds(f, q, L, sn)
  BY <1>1, RebuildIs
<1> DEFINE Good == {i \in 1 .. Len(L) : Loop(i, f[i], q, L, sn, e, me)}
<1>3. 1 \in Good
  <2>1. 1 \in 1 .. Len(L) /\ 1 - 1 = 0
    BY <1>1, SMT
  <2>2. f[1] = MergeRequest(Start(q), L[1])
    BY <1>1, <1>2, <2>1 DEF Rebuilds
  <2>3. QED
    BY <2>1, <2>2, LoopFirst
<1>4. ASSUME NEW i \in Good, i < Len(L) PROVE i + 1 \in Good
  <2>1. i \in 1 .. Len(L) /\ Loop(i, f[i], q, L, sn, e, me)
    OBVIOUS
  <2>2. i + 1 \in 1 .. Len(L) /\ (i + 1) - 1 = i
    BY <1>1, <1>4, <2>1, SMT
  <2>3. f[i + 1] = IF L[i + 1] \in sn THEN f[i] ELSE MergeRequest(f[i], L[i + 1])
    BY <1>2, <2>2 DEF Rebuilds
  <2>4. Loop(i + 1, f[i + 1], q, L, sn, e, me)
    BY <1>4, <2>1, <2>3, LoopNext
  <2>5. QED
    BY <2>2, <2>4
<1>5. 1 \in Nat /\ Len(L) \in Nat /\ 1 <= Len(L) /\ Good \in SUBSET (1 .. Len(L)) /\ Len(L) \in 1 .. Len(L)
  BY <1>1
<1> HIDE DEF Good
<1>6. \A i \in 1 .. Len(L) : i \in Good
  BY <1>3, <1>4, <1>5, Upward
<1>7. PICK m : m = Rebuild(q, L, sn)
  OBVIOUS
<1>8. Loop(Len(L), m, q, L, sn, e, me)
  BY <1>2, <1>5, <1>6, <1>7 DEF Good, Rebuilds
<1>9. Members(L, sn, Len(L)) = Mine(L, sn)
  BY <1>1, AllMembers DEF Mine
<1>10. Verdict(m.st, m.q, L, sn, e, me)
  <2>1. \A k \in Len(L) .. Len(L) : k = Len(L)
    BY <1>1, SMT
  <2>2. QED
    BY <1>8, <1>9, <2>1 DEF Loop, Verdict, Final, RecordOf
<1>11. QED
  BY <1>7, <1>8, <1>10 DEF Loop

LEMMA EmptyRebuild ==
    ASSUME NEW q \in [Requests -> Incoming], NEW L, L = <<>>, NEW sn
    PROVE  Rebuild(q, L, sn) = Start(q)
<1>1. L \in Seq(Requests) /\ Len(L) = 0
  OBVIOUS
<1>2. PICK f \in [0 .. Len(L) -> Merges] : Rebuilds(f, q, L, sn)
  BY <1>1, RebuildIs
<1>3. QED
  BY <1>1, <1>2 DEF Rebuilds

(* A list of a miss, and the one it becomes: what was the reason of a         *)
(* conflict stays one.                                                        *)
Within(L, sn, e, me, K, kn, d, md) ==
    Longer(L, sn, e, K, kn, d) /\ \A r \in Mine(L, sn) : me[r] \subseteq md[r]

LEMMA WithinFacts ==
    ASSUME NEW L, NEW sn, NEW e, NEW me, Miss(L, sn, e, me),
           NEW K, NEW kn, NEW d, NEW md, Miss(K, kn, d, md), Within(L, sn, e, me, K, kn, d, md)
    PROVE  /\ K[1] = L[1] /\ Mine(L, sn) \subseteq Mine(K, kn)
           /\ \A r \in Mine(L, sn) : d[r] = e[r] /\ (~ Agree(me[r]) => ~ Agree(md[r]))
           /\ \A k \in 1 .. Len(L) :
                 k \in 1 .. Len(K) /\ HardwareSlots(K, kn, d)[k] = HardwareSlots(L, sn, e)[k]
           /\ Reason(L, sn, e, me) => Reason(K, kn, d, md)
<1>1. /\ L \in Seq(Requests) /\ K \in Seq(Requests) /\ Longer(L, sn, e, K, kn, d)
      /\ e \in [Requests -> Incoming] /\ d \in [Requests -> Incoming]
  BY DEF Miss, Within
<1>2. Len(L) \in Nat \ {0} /\ Len(K) \in Nat \ {0} /\ Len(L) <= Len(K)
  BY <1>1, MissFacts DEF Longer
<1>3. \A i \in 1 .. Len(L) : K[i] = L[i] /\ d[K[i]] = e[L[i]] /\ (K[i] \in kn <=> L[i] \in sn)
  BY <1>1 DEF Longer
<1>4. \A i \in 1 .. Len(L) : i \in 1 .. Len(K) /\ i \in 0 .. Len(L)
  BY <1>2, SMT
<1>5. 1 \in 1 .. Len(L) /\ Len(L) \in 0 .. Len(K) /\ Len(L) \in 1 .. Len(L)
  BY <1>2, SMT
<1>6. ASSUME NEW r \in Mine(L, sn) PROVE r \in Mine(K, kn) /\ d[r] = e[r]
  <2>1. PICK i \in 1 .. Len(L) : r = L[i]
    BY <1>1 DEF Mine, Range
  <2>2. r \notin sn
    BY DEF Mine
  <2>3. DOMAIN K = 1 .. Len(K)
    BY <1>1
  <2>4. K[i] \in Range(K)
    BY <1>4, <2>3 DEF Range
  <2>5. QED
    BY <1>3, <2>1, <2>2, <2>4 DEF Mine
<1>7. ASSUME NEW r \in Mine(L, sn), ~ Agree(me[r]) PROVE ~ Agree(md[r])
  <2>1. me[r] \subseteq md[r]
    BY DEF Within
  <2>2. QED
    BY <1>7, <2>1 DEF Agree
<1>8. \A k \in 1 .. Len(L) : HardwareSlots(K, kn, d)[k] = HardwareSlots(L, sn, e)[k]
  <2>1. \A k \in 0 .. Len(L) : HardwareSlots(K, kn, d)[k] = HardwareSlots(L, sn, e)[k]
    BY <1>1, LongerSlots
  <2>2. QED
    BY <1>4, <2>1
<1>9. ASSUME Reason(L, sn, e, me) PROVE Reason(K, kn, d, md)
  <2>1. CASE Final(L, sn, e).conflicted
    <3>1. HardwareSlots(K, kn, d)[Len(L)].conflicted
      BY <1>5, <1>8, <2>1 DEF Final
    <3>2. Final(K, kn, d).conflicted
      BY <1>1, <1>5, <3>1, ConflictStays DEF Final
    <3>3. QED
      BY <3>2 DEF Reason
  <2>2. CASE \E r \in Mine(L, sn) : Spoiled(me[r])
    <3>1. PICK r \in Mine(L, sn) : Spoiled(me[r])
      BY <2>2
    <3>2. me[r] \subseteq md[r]
      BY DEF Within
    <3>3. Spoiled(md[r])
      BY <1>7, <3>1, <3>2 DEF Spoiled
    <3>4. QED
      BY <1>6, <3>3 DEF Reason
  <2>3. QED
    BY <1>9, <2>1, <2>2 DEF Reason
<1>10. QED
  BY <1>3, <1>4, <1>5, <1>6, <1>7, <1>8, <1>9

LEMMA ReadyPersists ==
    ASSUME NEW L, NEW sn, NEW e, NEW me, Miss(L, sn, e, me),
           NEW K, NEW kn, NEW d, NEW md, Miss(K, kn, d, md), Within(L, sn, e, me, K, kn, d, md),
           NEW q, NEW p \in [Requests -> Incoming], Ready(q, L, sn, e, me),
           \A r \in Mine(L, sn) : p[r] = q[r],
           \A r \in Mine(K, kn) \ Mine(L, sn) : p[r] = d[r]
    PROVE  Ready(p, K, kn, d, md)
<1>1. L[1] \in Mine(L, sn) /\ K[1] = L[1]
  BY MissFacts, WithinFacts
<1>2. ASSUME NEW r \in Mine(K, kn) \ {K[1]} PROVE TailOK(p[r], d[r], md[r])
  <2>1. CASE r \in Mine(L, sn)
    <3>1. p[r] = q[r] /\ d[r] = e[r] /\ (~ Agree(me[r]) => ~ Agree(md[r]))
      BY <2>1, WithinFacts
    <3>2. TailOK(q[r], e[r], me[r])
      BY <1>1, <2>1 DEF Ready
    <3>3. QED
      BY <3>1, <3>2 DEF TailOK
  <2>2. CASE r \notin Mine(L, sn)
    BY <2>2 DEF TailOK
  <2>3. QED
    BY <2>1, <2>2
<1>3. FrontOK(p[K[1]], K, kn, d, md)
  <2>1. PICK f : f = L[1]
    OBVIOUS
  <2>2. f \in Mine(L, sn) /\ p[f] = q[f] /\ K[1] = f /\ L[1] = f
    BY <1>1, <2>1
  <2>3. d[f] = e[f]
    BY <2>2, WithinFacts
  <2>4. FrontOK(q[f], L, sn, e, me)
    BY <2>1 DEF Ready
  <2>5. Reason(L, sn, e, me) => Reason(K, kn, d, md)
    BY WithinFacts
  <2>6. \A k \in 1 .. Len(L) :
           k \in 1 .. Len(K) /\ HardwareSlots(K, kn, d)[k] = HardwareSlots(L, sn, e)[k]
    BY WithinFacts
  <2>7. QED
    BY <2>2, <2>3, <2>4, <2>5, <2>6 DEF FrontOK
<1>4. QED
  BY <1>2, <1>3 DEF Ready

LEMMA VerdictPersists ==
    ASSUME NEW L, NEW sn, NEW e, NEW me, Miss(L, sn, e, me),
           NEW K, NEW kn, NEW d, NEW md, Miss(K, kn, d, md), Within(L, sn, e, me, K, kn, d, md),
           Mine(K, kn) = Mine(L, sn), Final(K, kn, d) = Final(L, sn, e),
           NEW st, NEW q, NEW p, Verdict(st, q, L, sn, e, me), p[L[1]] = q[L[1]]
    PROVE  Verdict(st, p, K, kn, d, md)
<1>1. PICK f : f = L[1]
  OBVIOUS
<1>2. f \in Mine(L, sn) /\ K[1] = f /\ L[1] = f /\ p[f] = q[f]
  BY <1>1, MissFacts, WithinFacts
<1>3. \A r \in Mine(L, sn) : d[r] = e[r] /\ (~ Agree(me[r]) => ~ Agree(md[r]))
  BY WithinFacts
<1>4. Reason(L, sn, e, me) => Reason(K, kn, d, md)
  BY WithinFacts
<1>5. QED
  BY <1>2, <1>3, <1>4 DEF Verdict, Refused
-----------------------------------------------------------------------------
(* The lists of the MSHR.                                                     *)

Lists == {L \in Seq(Requests) : IsInjective(L)}

LEMMA AppendFacts ==
    ASSUME NEW L \in Lists, NEW r \in Requests, r \notin Range(L)
    PROVE  /\ Append(L, r) \in Lists /\ Range(Append(L, r)) = Range(L) \cup {r}
           /\ Append(L, r) # <<>> /\ Len(Append(L, r)) = Len(L) + 1
           /\ Append(L, r)[Len(L) + 1] = r
           /\ \A i \in 1 .. Len(L) : Append(L, r)[i] = L[i]
<1>1. L \in Seq(Requests) /\ IsInjective(L) /\ Len(L) \in Nat /\ DOMAIN L = 1 .. Len(L)
  BY DEF Lists
<1>2. PICK K : K = Append(L, r)
  OBVIOUS
<1>3. /\ K \in Seq(Requests) /\ Len(K) = Len(L) + 1 /\ K[Len(L) + 1] = r
      /\ \A i \in 1 .. Len(L) : K[i] = L[i]
  BY <1>1, <1>2
<1>4. DOMAIN K = (DOMAIN L) \cup {Len(L) + 1} /\ Len(L) + 1 \notin DOMAIN L
  <2>1. DOMAIN K = 1 .. Len(L) + 1
    BY <1>3
  <2>2. 1 .. Len(L) + 1 = (1 .. Len(L)) \cup {Len(L) + 1} /\ Len(L) + 1 \notin 1 .. Len(L)
    BY <1>1, SMT
  <2>3. QED
    BY <1>1, <2>1, <2>2
<1>5. \A i \in DOMAIN L : K[i] = L[i] /\ L[i] # r
  BY <1>1, <1>3 DEF Range
<1>6. Range(K) = Range(L) \cup {r}
  <2>1. \A x \in Range(K) : x \in Range(L) \cup {r}
    BY <1>3, <1>4, <1>5 DEF Range
  <2>2. \A x \in Range(L) \cup {r} : x \in Range(K)
    BY <1>3, <1>4, <1>5 DEF Range
  <2>3. QED
    BY <2>1, <2>2
<1>7. IsInjective(K)
  <2>1. ASSUME NEW a \in DOMAIN K, NEW b \in DOMAIN K, K[a] = K[b] PROVE a = b
    BY <1>1, <1>3, <1>4, <1>5, <2>1 DEF IsInjective
  <2>2. QED
    BY <2>1 DEF IsInjective
<1>8. K # <<>>
  BY <1>1, <1>3
<1>9. QED
  BY <1>2, <1>3, <1>6, <1>7, <1>8 DEF Lists

LEMMA JoinFacts ==
    ASSUME NEW L \in Lists, NEW D \in Lists, Range(L) \cap Range(D) = {}
    PROVE  /\ L \o D \in Lists /\ Range(L \o D) = Range(L) \cup Range(D)
           /\ Len(L) <= Len(L \o D)
           /\ \A i \in 1 .. Len(L) : (L \o D)[i] = L[i]
           /\ L = <<>> => L \o D = D
<1>1. /\ L \in Seq(Requests) /\ IsInjective(L) /\ Len(L) \in Nat /\ DOMAIN L = 1 .. Len(L)
      /\ D \in Seq(Requests) /\ IsInjective(D) /\ Len(D) \in Nat /\ DOMAIN D = 1 .. Len(D)
  BY DEF Lists
<1>2. PICK K : K = L \o D
  OBVIOUS
<1>3. /\ K \in Seq(Requests) /\ Len(K) = Len(L) + Len(D)
      /\ \A i \in 1 .. Len(L) : K[i] = L[i]
      /\ \A i \in 1 .. Len(L) + Len(D) : i > Len(L) => K[i] = D[i - Len(L)]
  BY <1>1, <1>2
<1>4. DOMAIN K = 1 .. Len(L) + Len(D)
  BY <1>3
<1>5. \A i \in DOMAIN L : i \in DOMAIN K /\ K[i] = L[i] /\ L[i] \in Range(L)
  <2>1. \A i \in 1 .. Len(L) : i \in 1 .. Len(L) + Len(D)
    BY <1>1, SMT
  <2>2. QED
    BY <1>1, <1>3, <1>4, <2>1 DEF Range
<1>6. \A j \in DOMAIN D : j + Len(L) \in DOMAIN K /\ K[j + Len(L)] = D[j] /\ D[j] \in Range(D)
  <2>1. \A j \in 1 .. Len(D) : /\ j + Len(L) \in 1 .. Len(L) + Len(D)
                               /\ j + Len(L) > Len(L) /\ (j + Len(L)) - Len(L) = j
    BY <1>1, SMT
  <2>2. QED
    BY <1>1, <1>3, <1>4, <2>1 DEF Range
<1>7. \A i \in DOMAIN K : i \in DOMAIN L \/ \E j \in DOMAIN D : i = j + Len(L)
  <2>1. \A i \in 1 .. Len(L) + Len(D) :
           i \in 1 .. Len(L) \/ (i - Len(L) \in 1 .. Len(D) /\ i = (i - Len(L)) + Len(L))
    BY <1>1, SMT
  <2>2. QED
    BY <1>1, <1>4, <2>1
<1>8. Range(K) = Range(L) \cup Range(D)
  <2>1. \A x \in Range(K) : x \in Range(L) \cup Range(D)
    <3>1. SUFFICES ASSUME NEW i \in DOMAIN K PROVE K[i] \in Range(L) \cup Range(D)
      BY DEF Range
    <3>2. QED
      BY <1>5, <1>6, <1>7
  <2>2. \A x \in Range(L) : x \in Range(K)
    BY <1>5 DEF Range
  <2>3. \A x \in Range(D) : x \in Range(K)
    BY <1>6 DEF Range
  <2>4. QED
    BY <2>1, <2>2, <2>3
<1>9. IsInjective(K)
  <2>1. ASSUME NEW a \in DOMAIN K, NEW b \in DOMAIN K, K[a] = K[b] PROVE a = b
    <3>1. CASE a \in DOMAIN L /\ b \in DOMAIN L
      BY <1>1, <1>5, <2>1, <3>1 DEF IsInjective
    <3>2. CASE a \in DOMAIN L /\ b \notin DOMAIN L
      BY <1>5, <1>6, <1>7, <2>1, <3>2
    <3>3. CASE a \notin DOMAIN L /\ b \in DOMAIN L
      BY <1>5, <1>6, <1>7, <2>1, <3>3
    <3>4. CASE a \notin DOMAIN L /\ b \notin DOMAIN L
      BY <1>1, <1>6, <1>7, <2>1, <3>4 DEF IsInjective
    <3>5. QED
      BY <3>1, <3>2, <3>3, <3>4
  <2>2. QED
    BY <2>1 DEF IsInjective
<1>10. Len(L) <= Len(K)
  BY <1>1, <1>3
<1>11. L = <<>> => K = D
  BY <1>1, <1>2, ConcatEmptySeq
<1>12. QED
  BY <1>2, <1>3, <1>8, <1>9, <1>10, <1>11 DEF Lists

LEMMA CutFacts ==
    ASSUME NEW D \in Lists, NEW p \in 0 .. Len(D)
    PROVE  /\ SubSeq(D, 1, p) \in Lists /\ SubSeq(D, p + 1, Len(D)) \in Lists
           /\ Range(SubSeq(D, 1, p)) \cup Range(SubSeq(D, p + 1, Len(D))) = Range(D)
           /\ Range(SubSeq(D, 1, p)) \cap Range(SubSeq(D, p + 1, Len(D))) = {}
<1>1. D \in Seq(Requests) /\ IsInjective(D) /\ Len(D) \in Nat /\ DOMAIN D = 1 .. Len(D)
  BY DEF Lists
<1>2. PICK A : A = SubSeq(D, 1, p)
  OBVIOUS
<1>3. PICK B : B = SubSeq(D, p + 1, Len(D))
  OBVIOUS
<1>4. p \in Int /\ p + 1 \in Int /\ 1 \in Int /\ Len(D) \in Int /\ 0 <= p /\ p <= Len(D)
  BY <1>1
<1>5. /\ A \in Seq(Requests) /\ DOMAIN A = 1 .. p
      /\ \A i \in 1 .. p : A[i] = D[i] /\ i \in DOMAIN D
  <2>1. \A i \in 1 .. p : i \in 1 .. Len(D) /\ D[i] \in Requests
    BY <1>1, <1>4
  <2>2. /\ A \in Seq(Requests) /\ Len(A) = IF 1 <= p THEN p - 1 + 1 ELSE 0
        /\ \A i \in 1 .. p - 1 + 1 : A[i] = D[1 + i - 1]
    BY <1>2, <1>4, <2>1, SubSeqProperties
  <2>3. Len(A) = p /\ p - 1 + 1 = p /\ \A i \in 1 .. p : 1 + i - 1 = i
    BY <1>4, <2>2, SMT
  <2>4. DOMAIN A = 1 .. Len(A)
    BY <2>2
  <2>5. QED
    BY <1>1, <2>1, <2>2, <2>3, <2>4
<1>6. /\ B \in Seq(Requests) /\ DOMAIN B = 1 .. Len(D) - p
      /\ \A i \in 1 .. Len(D) - p : B[i] = D[i + p] /\ i + p \in DOMAIN D
  <2>1. \A i \in p + 1 .. Len(D) : D[i] \in Requests
    <3>1. \A i \in p + 1 .. Len(D) : i \in 1 .. Len(D)
      BY <1>4, SMT
    <3>2. QED
      BY <1>1, <3>1, ElementOfSeq
  <2>2. /\ B \in Seq(Requests) /\ Len(B) = IF p + 1 <= Len(D) THEN Len(D) - (p + 1) + 1 ELSE 0
        /\ \A i \in 1 .. Len(D) - (p + 1) + 1 : B[i] = D[(p + 1) + i - 1]
    BY <1>3, <1>4, <2>1, SubSeqProperties
  <2>3. Len(B) = Len(D) - p /\ Len(D) - (p + 1) + 1 = Len(D) - p
        /\ \A i \in 1 .. Len(D) - p : (p + 1) + i - 1 = i + p /\ i + p \in 1 .. Len(D)
    BY <1>4, <2>2, SMT
  <2>4. DOMAIN B = 1 .. Len(B)
    BY <2>2
  <2>5. QED
    BY <1>1, <2>2, <2>3, <2>4
<1>7. \A i \in DOMAIN D : i \in DOMAIN A \/ (i - p \in DOMAIN B /\ (i - p) + p = i)
  <2>1. \A i \in 1 .. Len(D) : i \in 1 .. p \/ (i - p \in 1 .. Len(D) - p /\ (i - p) + p = i)
    BY <1>4, SMT
  <2>2. QED
    BY <1>1, <1>5, <1>6, <2>1
<1>8. \A i \in DOMAIN A, j \in DOMAIN B : i # j + p
  BY <1>4, <1>5, <1>6, SMT
<1>9. \A i, j \in DOMAIN B : i + p = j + p => i = j
  BY <1>4, <1>6, SMT
<1>10. \A a, b \in DOMAIN D : D[a] = D[b] => a = b
  BY <1>1 DEF IsInjective
<1>11. \A i \in DOMAIN A : A[i] = D[i] /\ i \in DOMAIN D
  BY <1>5
<1>12. \A i \in DOMAIN B : B[i] = D[i + p] /\ i + p \in DOMAIN D
  BY <1>6
<1>13. IsInjective(A)
  BY <1>10, <1>11 DEF IsInjective
<1>14. IsInjective(B)
  BY <1>9, <1>10, <1>12 DEF IsInjective
<1>15. Range(A) \cup Range(B) = Range(D)
  <2>1. \A x \in Range(A) \cup Range(B) : x \in Range(D)
    BY <1>11, <1>12 DEF Range
  <2>2. ASSUME NEW x \in Range(D) PROVE x \in Range(A) \cup Range(B)
    <3>1. PICK i \in DOMAIN D : x = D[i]
      BY DEF Range
    <3>2. CASE i \in DOMAIN A
      BY <1>11, <3>1, <3>2 DEF Range
    <3>3. CASE i - p \in DOMAIN B /\ (i - p) + p = i
      <4>1. B[i - p] = x
        BY <1>12, <3>1, <3>3
      <4>2. QED
        BY <3>3, <4>1 DEF Range
    <3>4. QED
      BY <1>7, <3>2, <3>3
  <2>3. QED
    BY <2>1, <2>2
<1>16. ASSUME NEW x \in Range(A), x \in Range(B) PROVE FALSE
  <2>1. PICK i \in DOMAIN A : x = A[i]
    BY DEF Range
  <2>2. PICK j \in DOMAIN B : x = B[j]
    BY <1>16 DEF Range
  <2>3. D[i] = D[j + p] /\ i \in DOMAIN D /\ j + p \in DOMAIN D
    BY <1>11, <1>12, <2>1, <2>2
  <2>4. QED
    BY <1>8, <1>10, <2>3
<1>17. QED
  BY <1>2, <1>3, <1>5, <1>6, <1>13, <1>14, <1>15, <1>16 DEF Lists

LEMMA RemainingIs ==
    ASSUME NEW L \in Lists, L # <<>>, NEW sn
    PROVE  /\ Remaining(L, sn) \in Lists
           /\ Range(Remaining(L, sn)) = (Range(L) \ sn) \ {L[1]}
<1> DEFINE n == Len(L)
           Step(i, K) == IF i = 1 THEN <<>> ELSE IF L[i] \in sn THEN K ELSE Append(K, L[i])
           Value(f, i) == Step(i, f[i - 1])
           step == [i \in 1 .. n |-> [K \in Seq(Requests) |-> Step(i, K)]]
<1>1. L \in Seq(Requests) /\ IsInjective(L) /\ n \in Nat \ {0} /\ DOMAIN L = 1 .. n
  BY DEF Lists
<1>2. \A i \in 1 .. n : L[i] \in Requests
  BY <1>1
<1>3. <<>> \in Seq(Requests)
  OBVIOUS
<1>4. \A i \in 1 .. n : \A K \in Seq(Requests) : Step(i, K) \in Seq(Requests)
  BY <1>2, <1>3
<1>5. \A K, J : Step(1, K) = Step(1, J)
  OBVIOUS
<1> HIDE DEF n, Step
<1>6. step \in [1 .. n -> [Seq(Requests) -> Seq(Requests)]]
  BY <1>4
<1>7. \E f \in [0 .. n -> Seq(Requests)] : Follows(f, n, <<>>, step)
  <2> HIDE DEF step
  <2>1. n \in Nat
    BY <1>1
  <2>2. QED
    BY <1>3, <1>6, <2>1, Recursion
<1>8. PICK f \in [0 .. n -> Seq(Requests)] : \A i \in 1 .. n : f[i] = step[i][f[i - 1]]
  BY <1>7 DEF Follows
<1>9. \A i \in 1 .. n : i \in 0 .. n /\ i - 1 \in 0 .. n /\ (i # 1 => i - 1 \in 1 .. n)
  BY <1>1, SMT
<1>10. \A i \in 1 .. n : f[i] = Step(i, f[i - 1])
  BY <1>8, <1>9
<1> DEFINE h == [i \in 1 .. n |-> f[i]]
<1>11. h = [i \in 1 .. n |-> Value(h, i)]
  <2>1. ASSUME NEW i \in 1 .. n PROVE f[i] = Value(h, i)
    <3>1. CASE i = 1
      BY <1>5, <1>10, <3>1
    <3>2. CASE i # 1
      BY <1>9, <1>10, <3>2
    <3>3. QED
      BY <3>1, <3>2
  <2>2. \A i \in 1 .. n : h[i] = Value(h, i)
    BY <2>1
  <2> HIDE DEF Value
  <2>3. QED
    BY <2>1
<1> DEFINE g == CHOOSE k : k = [i \in 1 .. n |-> Value(k, i)]
<1>12. g = [i \in 1 .. n |-> Value(g, i)]
  <2> HIDE DEF Value, h
  <2>1. \E k : k = [i \in 1 .. n |-> Value(k, i)]
    BY <1>11
  <2>2. QED
    BY <2>1
<1>13. Remaining(L, sn) = g[n]
  BY DEF Remaining, n, Step
<1> HIDE DEF g
<1>14. \A i \in 1 .. n : g[i] = Value(g, i)
  <2> HIDE DEF Value
  <2>1. QED
    BY <1>12
<1> DEFINE M(i) == Members(L, sn, i) \ {L[1]}
           Good == {i \in 1 .. n : g[i] \in Lists /\ Range(g[i]) = M(i)}
<1>15. 1 \in Good
  <2>1. 1 \in 1 .. n /\ 0 \in 0 .. n /\ 0 < n /\ 0 + 1 = 1
    BY <1>1, SMT
  <2>2. g[1] = <<>>
    BY <1>14, <2>1 DEF Step
  <2>3. Range(<<>>) = {} /\ IsInjective(<<>>)
    BY DEF Range, IsInjective
  <2>4. Members(L, sn, 1) \subseteq {L[1]}
    <3>1. Members(L, sn, 0) = {}
      BY <1>1, AllMembers
    <3>2. Members(L, sn, 0 + 1) \subseteq {L[0 + 1]}
      BY <1>1, <2>1, <3>1, NextMember DEF n
    <3>3. QED
      BY <2>1, <3>2
  <2>5. QED
    BY <1>3, <2>1, <2>2, <2>3, <2>4 DEF Lists
<1>16. ASSUME NEW i \in Good, i < n PROVE i + 1 \in Good
  <2>1. i \in 1 .. n /\ g[i] \in Lists /\ Range(g[i]) = M(i)
    OBVIOUS
  <2>2. i + 1 \in 1 .. n /\ i + 1 # 1 /\ (i + 1) - 1 = i /\ i \in 0 .. n /\ 1 \in 1 .. n
    BY <1>1, <1>16, <2>1, SMT
  <2>3. g[i + 1] = IF L[i + 1] \in sn THEN g[i] ELSE Append(g[i], L[i + 1])
    BY <1>14, <2>2 DEF Step
  <2>4. /\ L[i + 1] \in sn => Members(L, sn, i + 1) = Members(L, sn, i)
        /\ L[i + 1] \notin sn => Members(L, sn, i + 1) = Members(L, sn, i) \cup {L[i + 1]}
    <3>1. i \in 0 .. Len(L) /\ i < Len(L) /\ L \in Seq(Requests)
      BY <1>1, <1>16, <2>2 DEF n
    <3>2. QED
      BY <3>1, NextMember
  <2>5. CASE L[i + 1] \in sn
    BY <2>1, <2>2, <2>3, <2>4, <2>5
  <2>6. CASE L[i + 1] \notin sn
    <3>1. L[i + 1] \notin Members(L, sn, i)
      <4>1. \A j \in 1 .. i : j \in 1 .. n /\ j # i + 1
        BY <1>1, <2>1, SMT
      <4>2. \A j \in 1 .. i : L[j] # L[i + 1]
        BY <1>1, <2>2, <4>1 DEF IsInjective
      <4>3. QED
        BY <4>2 DEF Members
    <3>2. L[i + 1] # L[1]
      BY <1>1, <2>2 DEF IsInjective
    <3>3. PICK K : K = g[i]
      OBVIOUS
    <3>4. PICK r : r = L[i + 1]
      OBVIOUS
    <3>5. K \in Lists /\ r \in Requests /\ r \notin Range(K)
      BY <1>2, <2>1, <2>2, <3>1, <3>3, <3>4
    <3>6. Append(K, r) \in Lists /\ Range(Append(K, r)) = Range(K) \cup {r}
      BY <3>5, AppendFacts
    <3>7. g[i + 1] \in Lists /\ Range(g[i + 1]) = M(i) \cup {r}
      BY <2>1, <2>3, <2>6, <3>3, <3>4, <3>6
    <3>8. M(i + 1) = M(i) \cup {r}
      BY <2>4, <2>6, <3>2, <3>4
    <3>9. QED
      BY <2>2, <3>7, <3>8
  <2>7. QED
    BY <2>5, <2>6
<1>17. 1 \in Nat /\ n \in Nat /\ 1 <= n /\ Good \in SUBSET (1 .. n) /\ n \in 1 .. n
  BY <1>1
<1> HIDE DEF Good
<1>18. \A i \in 1 .. n : i \in Good
  BY <1>15, <1>16, <1>17, Upward
<1>19. g[n] \in Lists /\ Range(g[n]) = M(n)
  BY <1>17, <1>18 DEF Good
<1>20. Members(L, sn, n) = Range(L) \ sn
  BY <1>1, AllMembers DEF n
<1>21. QED
  BY <1>13, <1>19, <1>20

LEMMA NoReason ==
    ASSUME NEW L, NEW sn, NEW e, NEW me, Miss(L, sn, e, me),
           NEW T, Carried(e, Mine(L, sn)) \subseteq T, \A r \in Mine(L, sn) : me[r] \subseteq T,
           Agree(T), OneRecordPerLoad(T)
    PROVE  ~ Reason(L, sn, e, me) /\ \A r \in Mine(L, sn) : Agree(me[r])
<1>1. \A r \in Mine(L, sn) : Agree(me[r])
  BY AgreeIsMonotone
<1>2. Agree(Carried(e, Mine(L, sn))) /\ OneRecordPerLoad(Carried(e, Mine(L, sn)))
  BY AgreeIsMonotone
<1>3. L \in Seq(Requests) /\ e \in [Requests -> Incoming] /\ Len(L) \in 0 .. Len(L)
  BY MissFacts DEF Miss
<1>4. Knows(Final(L, sn, e), Carried(e, Members(L, sn, Len(L))))
  BY <1>3, SlotsKnow DEF Final
<1>5. Members(L, sn, Len(L)) = Mine(L, sn)
  BY <1>3, AllMembers DEF Mine
<1>6. ~ Final(L, sn, e).conflicted
  BY <1>2, <1>4, <1>5 DEF Knows
<1>7. QED
  BY <1>1, <1>6 DEF Reason, Spoiled

(* The extension the line is filled with.                                     *)
LEMMA ApplyCoheres ==
    ASSUME NEW L, NEW sn, NEW e, NEW me, Miss(L, sn, e, me), NEW q, Ready(q, L, sn, e, me),
           NEW st, Verdict(st, q, L, sn, e, me), NEW p, p = Apply([st |-> st, q |-> q], L[1])
    PROVE  /\ Ready(p, L, sn, e, me)
           /\ \A r \in Requests \ {L[1]} : p[r] = q[r]
           /\ p[L[1]].plan /\ ValidContext(p[L[1]]) =>
                 RecordOf(p[L[1]], e[L[1]], Final(L, sn, e))
           /\ \A T : /\ Carried(e, Mine(L, sn)) \subseteq T
                     /\ \A r \in Mine(L, sn) : me[r] \subseteq T
                     /\ Agree(T) /\ OneRecordPerLoad(T)
                     => p[L[1]].plan /\ ValidContext(p[L[1]])
<1>1. PICK f : f = L[1]
  OBVIOUS
<1>2. /\ f \in Requests /\ f \in Mine(L, sn) /\ Mine(L, sn) \subseteq Requests
      /\ Len(L) \in 1 .. Len(L)
  BY <1>1, MissFacts
<1>3. /\ q \in [Requests -> Incoming] /\ e \in [Requests -> Incoming] /\ q[f] \in Incoming
      /\ e[f] \in Incoming /\ e[f] \in me[f]
  BY <1>2 DEF Ready, Miss
<1>4. FrontOK(q[f], L, sn, e, me) /\ q[f].requestor = e[f].requestor
  BY <1>1 DEF Ready, FrontOK, Marked, RecordOf
<1>5. ~ e[f].plan => ~ (q[f].plan /\ ValidContext(q[f]))
  BY <1>1, <1>4 DEF FrontOK, Marked, ValidContext
<1> DEFINE Full(T) == /\ Carried(e, Mine(L, sn)) \subseteq T
                      /\ \A r \in Mine(L, sn) : me[r] \subseteq T
                      /\ Agree(T) /\ OneRecordPerLoad(T)
<1>6. ASSUME NEW T, Full(T)
      PROVE  /\ ~ Reason(L, sn, e, me) /\ Agree(me[f])
             /\ e[f].plan /\ ValidContext(e[f])
  <2>1. ~ Reason(L, sn, e, me) /\ Agree(me[f])
    BY <1>2, <1>6, NoReason
  <2>2. QED
    BY <1>3, <2>1 DEF Agree
<1> HIDE DEF Full
<1>7. CASE ~ st.saw_reuse_plan \/ (q[f].plan /\ q[f].conflicted)
  <2>1. p = q
    BY <1>1, <1>7 DEF Apply
  <2>2. ~ st.saw_reuse_plan => ~ e[f].plan
    BY <1>2 DEF Verdict, Refused, Choice
  <2>3. ~ (p[f].plan /\ ValidContext(p[f]))
    BY <1>5, <1>7, <2>1, <2>2 DEF ValidContext
  <2>4. ASSUME NEW T, Full(T) PROVE FALSE
    <3>1. q[f].plan /\ q[f].conflicted
      BY <1>6, <1>7, <2>2, <2>4
    <3>2. QED
      BY <1>1, <1>4, <1>6, <2>4, <3>1 DEF FrontOK, RecordOf, ValidContext
  <2>5. QED
    BY <1>1, <2>1, <2>3, <2>4 DEF Full
<1>8. CASE st.saw_reuse_plan /\ ~ (q[f].plan /\ q[f].conflicted)
  <2>1. CASE Refused(st, L, sn, e, me)
    <3>1. PICK x : x = st.selected
      OBVIOUS
    <3>2. x \in Requests /\ x # NoRequest /\ st.conflicted /\ Reason(L, sn, e, me)
      BY <1>2, <2>1, <3>1, NoRequestAssumption DEF Refused
    <3>3. PICK c : c = CopyExtension(q, f, x)
      OBVIOUS
    <3>4. c \in [Requests -> Incoming] /\ c[f].requestor = q[f].requestor
      BY <1>2, <1>3, <3>2, <3>3, CopyRecord
    <3>5. \A r \in Requests \ {f} : c[r] = q[r]
      BY <1>2, <1>3, <3>2, <3>3, CopyLeaves
    <3>7. c[f].requestor = e[f].requestor
      BY <1>4, <3>4
    <3>8. p = MarkConflict(c, f)
      BY <1>1, <1>8, <3>1, <3>2, <3>3 DEF Apply
    <3>9. p \in [Requests -> Incoming] /\ p[f].plan /\ p[f].conflicted /\ p[f].requestor = c[f].requestor
      BY <1>2, <3>4, <3>8, MarkRecord
    <3>10. \A r \in Requests \ {f} : p[r] = c[r]
      BY <1>2, <3>4, <3>8, MarkLeaves
    <3>11. \A r \in Requests \ {f} : p[r] = q[r]
      BY <3>5, <3>10
    <3>12. FrontOK(p[f], L, sn, e, me)
      BY <1>1, <3>2, <3>7, <3>9 DEF FrontOK, Marked
    <3>13. Ready(p, L, sn, e, me)
      BY <1>1, <1>2, <3>9, <3>11, <3>12 DEF Ready
    <3>14. ~ \E T : Full(T)
      BY <1>6, <3>2
    <3>15. QED
      BY <1>1, <3>9, <3>11, <3>13, <3>14 DEF Full, ValidContext
  <2>2. CASE /\ e[f].plan /\ Choice(st, f, Final(L, sn, e))
             /\ RecordOf(q[f], e[f], Final(L, sn, e))
    <3>1. f # NoRequest /\ st.selected = f /\ ~ st.conflicted
      BY <1>2, <2>2, NoRequestAssumption DEF Choice
    <3>2. p = CopyExtension(q, f, f)
      BY <1>1, <1>8, <3>1 DEF Apply
    <3>3. [q[f] EXCEPT !.requestor = q[f].requestor] = q[f]
      BY <1>3 DEF Incoming
    <3>4. p = q
      BY <1>2, <1>3, <3>2, <3>3 DEF CopyExtension
    <3>5. Final(L, sn, e).context # 0
      BY <1>2, <2>2, RecordFacts DEF RecordOf, Final
    <3>6. q[f].plan /\ ValidContext(q[f])
      BY <2>2, <3>5 DEF RecordOf, ValidContext, SamePayload
    <3>7. QED
      BY <1>1, <2>2, <3>4, <3>6
  <2>3. QED
    BY <1>1, <1>8, <2>1, <2>2 DEF Verdict, Marked
<1>9. QED
  BY <1>7, <1>8

(* A list that begins with another, and the requests it adds.                 *)
Extended(L, K, R) ==
    /\ L \in Lists /\ K \in Lists /\ K # <<>> /\ R \cap Range(L) = {}
    /\ Range(K) = Range(L) \cup R
    /\ Len(L) <= Len(K) /\ \A i \in 1 .. Len(L) : K[i] = L[i]

(* What the requests carried, what they met and what they carry now goes with *)
(* them.                                                                      *)
Carries(L, K, R, sn, e, d, me, md, q, p) ==
    /\ sn \subseteq Range(L)
    /\ d \in [Requests -> Incoming] /\ md \in [Requests -> SUBSET Incoming]
    /\ p \in [Requests -> Incoming]
    /\ L # <<>> => Miss(L, sn, e, me) /\ Ready(q, L, sn, e, me)
    /\ \A r \in Range(L) : d[r] = e[r]
    /\ \A r, t \in Mine(K, sn) : d[t] \in md[r]
    /\ \A r \in Mine(L, sn) : me[r] \subseteq md[r] /\ p[r] = q[r]
    /\ \A r \in R : p[r] = d[r]

LEMMA MissExtends ==
    ASSUME NEW L, NEW K, NEW R, Extended(L, K, R),
           NEW sn, NEW e, NEW d, NEW me, NEW md, NEW q, NEW p,
           Carries(L, K, R, sn, e, d, me, md, q, p)
    PROVE  Miss(K, sn, d, md) /\ Ready(p, K, sn, d, md)
<1>0. /\ sn \subseteq Range(L)
      /\ d \in [Requests -> Incoming] /\ md \in [Requests -> SUBSET Incoming]
      /\ p \in [Requests -> Incoming]
      /\ L # <<>> => Miss(L, sn, e, me) /\ Ready(q, L, sn, e, me)
      /\ \A r \in Range(L) : d[r] = e[r]
      /\ \A r, t \in Mine(K, sn) : d[t] \in md[r]
      /\ \A r \in Mine(L, sn) : me[r] \subseteq md[r] /\ p[r] = q[r]
      /\ \A r \in R : p[r] = d[r]
  BY DEF Carries
<1>1. /\ K \in Seq(Requests) /\ IsInjective(K) /\ K # <<>> /\ DOMAIN K = 1 .. Len(K)
      /\ L \in Seq(Requests) /\ DOMAIN L = 1 .. Len(L) /\ Len(L) \in Nat /\ Len(K) \in Nat \ {0}
  BY DEF Extended, Lists
<1>2. Mine(K, sn) = Mine(L, sn) \cup R
  BY <1>0 DEF Extended, Mine
<1>3. 1 \in 1 .. Len(K) /\ K[1] \in Range(K)
  BY <1>1 DEF Range
<1>4. CASE L = <<>>
  <2>1. Range(L) = {} /\ sn = {}
    BY <1>0, <1>4 DEF Range
  <2>2. Miss(K, sn, d, md)
    BY <1>0, <1>1, <2>1 DEF Miss
  <2>3. \A r \in Mine(K, sn) : p[r] = d[r]
    BY <1>0, <1>2, <2>1 DEF Mine
  <2>4. K[1] \in Mine(K, sn)
    BY <1>3, <2>1 DEF Mine
  <2>5. QED
    BY <1>0, <2>2, <2>3, <2>4 DEF Ready, TailOK, FrontOK
<1>5. CASE L # <<>>
  <2>1. Miss(L, sn, e, me) /\ Ready(q, L, sn, e, me)
    BY <1>0, <1>5
  <2>2. 1 \in 1 .. Len(L)
    BY <1>1, <1>5
  <2>3. K[1] = L[1] /\ L[1] \notin sn
    BY <2>1, <2>2 DEF Extended, Miss
  <2>4. Miss(K, sn, d, md)
    BY <1>0, <1>1, <2>3 DEF Miss
  <2>5. Longer(L, sn, e, K, sn, d)
    <3>1. \A i \in 1 .. Len(L) : L[i] \in Range(L)
      BY <1>1 DEF Range
    <3>2. QED
      BY <1>0, <3>1 DEF Longer, Extended
  <2>6. Within(L, sn, e, me, K, sn, d, md)
    BY <1>0, <2>5 DEF Within
  <2>7. Ready(p, K, sn, d, md)
    BY <1>0, <1>2, <2>1, <2>4, <2>6, ReadyPersists
  <2>8. QED
    BY <2>4, <2>7
<1>6. QED
  BY <1>4, <1>5

LEMMA MeetFacts ==
    ASSUME NEW h \in [Requests -> SUBSET Incoming], NEW c \in [Requests -> Incoming],
           NEW S \in SUBSET Requests
    PROVE  /\ Meet(h, c, S) \in [Requests -> SUBSET Incoming]
           /\ \A r, t \in S : c[t] \in Meet(h, c, S)[r]
           /\ \A r \in Requests : h[r] \subseteq Meet(h, c, S)[r]
<1>1. Carried(c, S) \in SUBSET Incoming /\ \A t \in S : c[t] \in Carried(c, S)
  BY DEF Carried
<1>2. QED
  BY <1>1 DEF Meet

(* What the requests of a list carried decides its slots.                     *)
LEMMA SameFinal ==
    ASSUME NEW L, NEW sn, NEW e, NEW me, Miss(L, sn, e, me),
           NEW d, NEW md, Miss(L, sn, d, md), Within(L, sn, e, me, L, sn, d, md)
    PROVE  Final(L, sn, d) = Final(L, sn, e)
<1>1. Len(L) \in 1 .. Len(L)
  BY MissFacts
<1>2. \A k \in 1 .. Len(L) : HardwareSlots(L, sn, d)[k] = HardwareSlots(L, sn, e)[k]
  BY WithinFacts
<1>3. QED
  BY <1>1, <1>2 DEF Final
-----------------------------------------------------------------------------
(* The inductive invariant of the MSHR.                                       *)

LineOK ==
    /\ Miss(targets, snoops, sent, met) /\ Ready(req, targets, snoops, sent, met)
    /\ Verdict(ecgState, req, targets, snoops, sent, met)

MshrInv ==
    /\ req \in [Requests -> Incoming] /\ sent \in [Requests -> Incoming]
    /\ met \in [Requests -> SUBSET Incoming] /\ ecgState \in States
    /\ \A r \in Requests : sent[r].conflicted => sent[r].plan
    /\ targets \in Lists /\ deferred \in Lists
    /\ Range(targets) \cap Range(deferred) = {} /\ snoops \subseteq Range(targets)
    /\ targets = <<>> => deferred = <<>> /\ snoops = {} /\ ecgState = ResetState
    /\ \A r \in Range(deferred) : req[r] = sent[r]
    /\ targets # <<>> => LineOK
    /\ FillSound /\ FillComplete

LEMMA NothingFilled == fill = NoFill => FillSound /\ FillComplete
BY DEF NoFill, FillSound, FillComplete

LEMMA NothingFilledNext == fill' = NoFill => FillSound' /\ FillComplete'
BY DEF NoFill, FillSound, FillComplete

LEMMA ArrivalFacts ==
    ASSUME NEW x \in Arrivals PROVE x \in Incoming /\ (x.conflicted => x.plan)
BY ArrivalsAssumption

LEMMA Targets ==
    ASSUME MshrInv
    PROVE  /\ Range(targets) \subseteq Requests /\ Range(deferred) \subseteq Requests
           /\ Mine(targets, snoops) \subseteq Requests
           /\ targets = <<>> => Range(targets) = {}
           /\ ~ Idle => LineOK /\ targets[1] \in Requests /\ targets[1] \in Range(targets)
                        /\ targets[1] \in Mine(targets, snoops)
<1>1. targets \in Seq(Requests) /\ deferred \in Seq(Requests)
  BY DEF MshrInv, Lists
<1>2. Range(targets) \subseteq Requests /\ Range(deferred) \subseteq Requests
  BY <1>1, AllMembers
<1>3. targets = <<>> => Range(targets) = {}
  BY DEF Range
<1>4. ASSUME ~ Idle PROVE LineOK /\ targets[1] \in Requests /\ targets[1] \in Mine(targets, snoops)
  <2>1. LineOK
    BY <1>4 DEF MshrInv, Idle
  <2>2. QED
    BY <2>1, MissFacts DEF LineOK
<1>5. QED
  BY <1>2, <1>3, <1>4 DEF Mine

LEMMA InitHolds == Init => MshrInv
<1> SUFFICES ASSUME Init PROVE MshrInv
  OBVIOUS
<1>1. NoExtension(0) \in Incoming /\ ResetState \in States /\ ~ NoExtension(0).conflicted
  BY ExtensionTypes, DefaultsAssumption DEF NoExtension
<1>2. /\ req \in [Requests -> Incoming] /\ sent \in [Requests -> Incoming]
      /\ met \in [Requests -> SUBSET Incoming] /\ ecgState \in States
      /\ \A r \in Requests : ~ sent[r].conflicted
  BY <1>1 DEF Init
<1>3. <<>> \in Lists /\ Range(<<>>) = {}
  <2>1. <<>> \in Seq(Requests) /\ DOMAIN <<>> = {}
    OBVIOUS
  <2>2. QED
    BY <2>1 DEF Lists, IsInjective, Range
<1>4. FillSound /\ FillComplete
  BY NothingFilled DEF Init
<1>5. QED
  BY <1>2, <1>3, <1>4 DEF Init, MshrInv

LEMMA AddHolds ==
    ASSUME MshrInv, NEW r \in Free, NEW x \in Arrivals, deferred = <<>>, AddTarget(r, x)
    PROVE  MshrInv'
<1> DEFINE K == Append(targets, r)
           p == [req EXCEPT ![r] = x]
           d == [sent EXCEPT ![r] = x]
           md == Meet(met, d, Mine(K, snoops))
           m == Rebuild(p, K, snoops)
<1>1. /\ targets' = K /\ req' = m.q /\ ecgState' = m.st /\ sent' = d /\ fill' = NoFill
      /\ deferred' = deferred /\ snoops' = snoops
  BY DEF AddTarget
<1>2. met' = md
  BY <1>1 DEF AddTarget, Mine
<1>3. r \in Requests /\ r \notin Range(targets) /\ r \notin Range(deferred)
  BY DEF Free
<1>4. x \in Incoming /\ (x.conflicted => x.plan)
  BY ArrivalFacts
<1>5. /\ req \in [Requests -> Incoming] /\ sent \in [Requests -> Incoming]
      /\ met \in [Requests -> SUBSET Incoming]
      /\ targets \in Lists /\ snoops \in SUBSET Range(targets) /\ deferred \in Lists
      /\ \A z \in Requests : sent[z].conflicted => sent[z].plan
  BY DEF MshrInv
<1>6. /\ K \in Lists /\ Range(K) = Range(targets) \cup {r} /\ K # <<>> /\ Len(K) = Len(targets) + 1
      /\ \A i \in 1 .. Len(targets) : K[i] = targets[i]
  BY <1>3, <1>5, AppendFacts
<1>7. Extended(targets, K, {r})
  <2>1. Len(targets) \in Nat
    BY <1>5 DEF Lists
  <2>2. Len(targets) <= Len(K)
    BY <1>6, <2>1
  <2>3. QED
    BY <1>3, <1>5, <1>6, <2>2 DEF Extended
<1> HIDE DEF K
<1>8. /\ p \in [Requests -> Incoming] /\ d \in [Requests -> Incoming] /\ p[r] = d[r]
      /\ \A z \in Requests \ {r} : d[z] = sent[z] /\ p[z] = req[z]
      /\ \A z \in Requests : d[z].conflicted => d[z].plan
  BY <1>3, <1>4, <1>5
<1> HIDE DEF p, d
<1>9. Mine(K, snoops) \in SUBSET Requests /\ Range(targets) \subseteq Requests \ {r}
  BY <1>3, <1>6, Targets DEF Mine
<1>10. /\ md \in [Requests -> SUBSET Incoming]
       /\ \A z, t \in Mine(K, snoops) : d[t] \in md[z]
       /\ \A z \in Requests : met[z] \subseteq md[z]
  BY <1>5, <1>8, <1>9, MeetFacts
<1> HIDE DEF md
<1>11. /\ \A z \in Range(targets) : d[z] = sent[z]
       /\ \A z \in Mine(targets, snoops) : p[z] = req[z] /\ met[z] \subseteq md[z]
       /\ \A z \in {r} : p[z] = d[z]
  BY <1>8, <1>9, <1>10 DEF Mine
<1>12. targets # <<>> => Miss(targets, snoops, sent, met) /\ Ready(req, targets, snoops, sent, met)
  BY DEF MshrInv, LineOK
<1>13. Miss(K, snoops, d, md) /\ Ready(p, K, snoops, d, md)
  <2>1. Carries(targets, K, {r}, snoops, sent, d, met, md, req, p)
    BY <1>5, <1>8, <1>10, <1>11, <1>12 DEF Carries
  <2>2. QED
    BY <1>7, <2>1, MissExtends
<1>14. /\ m \in Merges /\ Ready(m.q, K, snoops, d, md)
       /\ Verdict(m.st, m.q, K, snoops, d, md)
  BY <1>13, RebuildCoheres
<1> HIDE DEF m
<1>15. m.q \in [Requests -> Incoming] /\ m.st \in States
  BY <1>14 DEF Merges
<1>16. LineOK'
  BY <1>1, <1>2, <1>13, <1>14 DEF LineOK
<1>17. Range(deferred) = {}
  BY DEF Range
<1>18. FillSound' /\ FillComplete'
  BY <1>1, NothingFilledNext
<1>19. /\ req' \in [Requests -> Incoming] /\ sent' \in [Requests -> Incoming]
       /\ met' \in [Requests -> SUBSET Incoming] /\ ecgState' \in States
       /\ \A z \in Requests : sent'[z].conflicted => sent'[z].plan
  BY <1>1, <1>2, <1>8, <1>10, <1>15
<1>20. /\ targets' \in Lists /\ deferred' \in Lists /\ targets' # <<>>
       /\ Range(targets') \cap Range(deferred') = {} /\ snoops' \subseteq Range(targets')
       /\ Range(deferred') = {}
  BY <1>1, <1>5, <1>6, <1>17
<1>21. QED
  BY <1>16, <1>18, <1>19, <1>20 DEF MshrInv

LEMMA SnoopHolds ==
    ASSUME MshrInv, NEW r \in Free, NEW x \in Arrivals, Snoop(r, x)
    PROVE  MshrInv'
<1> DEFINE K == Append(targets, r)
           kn == snoops \cup {r}
           p == [req EXCEPT ![r] = x]
           d == [sent EXCEPT ![r] = x]
<1>1. /\ targets' = K /\ req' = p /\ sent' = d /\ snoops' = kn /\ fill' = NoFill
      /\ ecgState' = ecgState /\ deferred' = deferred /\ met' = met /\ ~ Idle
  BY DEF Snoop
<1>2. r \in Requests /\ r \notin Range(targets) /\ r \notin Range(deferred)
  BY DEF Free
<1>3. x \in Incoming /\ (x.conflicted => x.plan)
  BY ArrivalFacts
<1>4. /\ req \in [Requests -> Incoming] /\ sent \in [Requests -> Incoming]
      /\ met \in [Requests -> SUBSET Incoming] /\ ecgState \in States
      /\ targets \in Lists /\ snoops \in SUBSET Range(targets) /\ deferred \in Lists
      /\ \A z \in Requests : sent[z].conflicted => sent[z].plan
      /\ Range(targets) \cap Range(deferred) = {}
      /\ \A z \in Range(deferred) : req[z] = sent[z]
  BY DEF MshrInv
<1>5. /\ K \in Lists /\ Range(K) = Range(targets) \cup {r} /\ K # <<>> /\ Len(K) = Len(targets) + 1
      /\ K[Len(targets) + 1] = r /\ \A i \in 1 .. Len(targets) : K[i] = targets[i]
  BY <1>2, <1>4, AppendFacts
<1>6. /\ p \in [Requests -> Incoming] /\ d \in [Requests -> Incoming]
      /\ \A z \in Requests \ {r} : d[z] = sent[z] /\ p[z] = req[z]
      /\ \A z \in Requests : d[z].conflicted => d[z].plan
  BY <1>2, <1>3, <1>4
<1>7. /\ LineOK /\ targets[1] \in Range(targets)
      /\ Range(targets) \subseteq Requests \ {r} /\ Range(deferred) \subseteq Requests \ {r}
  BY <1>1, <1>2, Targets
<1>8. /\ Miss(targets, snoops, sent, met) /\ Ready(req, targets, snoops, sent, met)
      /\ Verdict(ecgState, req, targets, snoops, sent, met)
  BY <1>7 DEF LineOK
<1> HIDE DEF K, p, d
<1>9. Mine(K, kn) = Mine(targets, snoops)
  BY <1>2, <1>5 DEF Mine
<1> HIDE DEF kn
<1>10. /\ targets \in Seq(Requests) /\ K \in Seq(Requests) /\ IsInjective(K)
       /\ Len(targets) \in Nat \ {0} /\ DOMAIN targets = 1 .. Len(targets)
  BY <1>4, <1>5, <1>8, MissFacts DEF Lists
<1>11. \A i \in 1 .. Len(targets) : targets[i] \in Range(targets)
  BY <1>10 DEF Range
<1>12. K[1] = targets[1]
  <2>1. 1 \in 1 .. Len(targets)
    BY <1>10
  <2>2. QED
    BY <1>5, <2>1
<1>13. \A z \in Mine(targets, snoops) : z \in Requests /\ d[z] = sent[z] /\ p[z] = req[z]
  BY <1>6, <1>7 DEF Mine
<1>14. Miss(K, kn, d, met)
  <2>1. targets[1] \notin snoops
    BY <1>8 DEF Miss
  <2>2. K[1] \notin kn
    BY <1>7, <1>12, <2>1 DEF kn
  <2>3. \A z, t \in Mine(K, kn) : d[t] \in met[z]
    BY <1>8, <1>9, <1>13 DEF Miss
  <2>4. QED
    BY <1>4, <1>5, <1>6, <1>10, <2>2, <2>3 DEF Miss
<1>15. Longer(targets, snoops, sent, K, kn, d)
  <2>1. Len(targets) <= Len(K)
    BY <1>5, <1>10
  <2>2. \A i \in 1 .. Len(targets) : /\ K[i] = targets[i] /\ d[K[i]] = sent[targets[i]]
                                     /\ K[i] \in kn <=> targets[i] \in snoops
    BY <1>5, <1>6, <1>7, <1>11 DEF kn
  <2>3. QED
    BY <2>1, <2>2 DEF Longer
<1>16. Within(targets, snoops, sent, met, K, kn, d, met)
  BY <1>15 DEF Within
<1>17. Ready(p, K, kn, d, met)
  BY <1>6, <1>8, <1>9, <1>13, <1>14, <1>16, ReadyPersists
<1>18. Final(K, kn, d) = Final(targets, snoops, sent)
  <2>1. Len(targets) \in 0 .. Len(targets) /\ Len(K) \in 1 .. Len(K) /\ Len(K) - 1 = Len(targets)
    BY <1>5, <1>10
  <2>2. HardwareSlots(K, kn, d)[Len(targets)] = HardwareSlots(targets, snoops, sent)[Len(targets)]
    <3>1. \A k \in 1 .. Len(targets) :
             HardwareSlots(K, kn, d)[k] = HardwareSlots(targets, snoops, sent)[k]
      BY <1>8, <1>14, <1>16, WithinFacts
    <3>2. Len(targets) \in 1 .. Len(targets)
      BY <1>10
    <3>3. QED
      BY <3>1, <3>2
  <2>3. K[Len(K)] \in kn
    BY <1>5 DEF kn
  <2>4. HardwareSlots(K, kn, d)[Len(K)] = HardwareSlots(K, kn, d)[Len(K) - 1]
    BY <1>6, <1>10, <2>1, <2>3, SlotsAre
  <2>5. QED
    BY <2>1, <2>2, <2>4 DEF Final
<1>19. p[targets[1]] = req[targets[1]]
  BY <1>6, <1>7
<1>20. Verdict(ecgState, p, K, kn, d, met)
  BY <1>8, <1>9, <1>14, <1>16, <1>18, <1>19, VerdictPersists
<1>21. LineOK'
  BY <1>1, <1>14, <1>17, <1>20 DEF LineOK
<1>22. FillSound' /\ FillComplete'
  BY <1>1, NothingFilledNext
<1>23. /\ req' \in [Requests -> Incoming] /\ sent' \in [Requests -> Incoming]
       /\ met' \in [Requests -> SUBSET Incoming] /\ ecgState' \in States
       /\ \A z \in Requests : sent'[z].conflicted => sent'[z].plan
  BY <1>1, <1>4, <1>6
<1>24. /\ targets' \in Lists /\ deferred' \in Lists /\ targets' # <<>>
       /\ Range(targets') \cap Range(deferred') = {} /\ snoops' \subseteq Range(targets')
  BY <1>1, <1>2, <1>4, <1>5 DEF kn
<1>25. \A z \in Range(deferred') : req'[z] = sent'[z]
  BY <1>1, <1>4, <1>6, <1>7
<1>26. QED
  BY <1>21, <1>22, <1>23, <1>24, <1>25 DEF MshrInv

LEMMA DeferHolds ==
    ASSUME MshrInv, NEW r \in Free, NEW x \in Arrivals, AllocateDeferred(r, x)
    PROVE  MshrInv'
<1> DEFINE K == Append(deferred, r)
           p == [req EXCEPT ![r] = x]
           d == [sent EXCEPT ![r] = x]
<1>1. /\ deferred' = K /\ req' = p /\ sent' = d /\ snoops' = snoops /\ fill' = NoFill
      /\ ecgState' = ecgState /\ targets' = targets /\ met' = met /\ ~ Idle
  BY DEF AllocateDeferred
<1>2. r \in Requests /\ r \notin Range(targets) /\ r \notin Range(deferred)
  BY DEF Free
<1>3. x \in Incoming /\ (x.conflicted => x.plan)
  BY ArrivalFacts
<1>4. /\ req \in [Requests -> Incoming] /\ sent \in [Requests -> Incoming]
      /\ met \in [Requests -> SUBSET Incoming] /\ ecgState \in States
      /\ targets \in Lists /\ snoops \in SUBSET Range(targets) /\ deferred \in Lists
      /\ \A z \in Requests : sent[z].conflicted => sent[z].plan
      /\ Range(targets) \cap Range(deferred) = {}
      /\ \A z \in Range(deferred) : req[z] = sent[z]
  BY DEF MshrInv
<1>5. K \in Lists /\ Range(K) = Range(deferred) \cup {r}
  BY <1>2, <1>4, AppendFacts
<1>6. /\ p \in [Requests -> Incoming] /\ d \in [Requests -> Incoming] /\ p[r] = d[r]
      /\ \A z \in Requests \ {r} : d[z] = sent[z] /\ p[z] = req[z]
      /\ \A z \in Requests : d[z].conflicted => d[z].plan
  BY <1>2, <1>3, <1>4
<1>7. /\ LineOK /\ targets[1] \in Range(targets) /\ targets # <<>>
      /\ Range(targets) \subseteq Requests \ {r} /\ Range(deferred) \subseteq Requests \ {r}
  BY <1>1, <1>2, Targets DEF Idle
<1>8. /\ Miss(targets, snoops, sent, met) /\ Ready(req, targets, snoops, sent, met)
      /\ Verdict(ecgState, req, targets, snoops, sent, met)
  BY <1>7 DEF LineOK
<1> HIDE DEF K, p, d
<1>9. \A z \in Mine(targets, snoops) : z \in Requests /\ d[z] = sent[z] /\ p[z] = req[z]
  BY <1>6, <1>7 DEF Mine
<1>10. Miss(targets, snoops, d, met)
  BY <1>6, <1>8, <1>9 DEF Miss
<1>11. Longer(targets, snoops, sent, targets, snoops, d)
  <2>1. targets \in Seq(Requests) /\ Len(targets) \in Nat /\ DOMAIN targets = 1 .. Len(targets)
    BY <1>4 DEF Lists
  <2>2. \A i \in 1 .. Len(targets) : targets[i] \in Range(targets)
    BY <2>1 DEF Range
  <2>3. QED
    BY <1>6, <1>7, <2>1, <2>2 DEF Longer
<1>12. Within(targets, snoops, sent, met, targets, snoops, d, met)
  BY <1>11 DEF Within
<1>13. Ready(p, targets, snoops, d, met)
  BY <1>6, <1>8, <1>9, <1>10, <1>12, ReadyPersists
<1>14. Final(targets, snoops, d) = Final(targets, snoops, sent)
  BY <1>8, <1>10, <1>12, SameFinal
<1>15. p[targets[1]] = req[targets[1]]
  BY <1>6, <1>7
<1>16. Verdict(ecgState, p, targets, snoops, d, met)
  BY <1>8, <1>10, <1>12, <1>14, <1>15, VerdictPersists
<1>17. LineOK'
  BY <1>1, <1>10, <1>13, <1>16 DEF LineOK
<1>18. FillSound' /\ FillComplete'
  BY <1>1, NothingFilledNext
<1>19. \A z \in Range(deferred') : req'[z] = sent'[z]
  BY <1>1, <1>4, <1>5, <1>6, <1>7
<1>20. QED
  BY <1>1, <1>2, <1>4, <1>5, <1>6, <1>7, <1>17, <1>18, <1>19 DEF MshrInv

LEMMA LowerHolds ==
    ASSUME MshrInv, LowerConflict
    PROVE  MshrInv'
<1> DEFINE f == targets[1]
           p == MarkConflict(req, f)
           y == [sent[f] EXCEPT !.conflicted = TRUE]
           md == [met EXCEPT ![f] = @ \cup {y}]
<1>1. /\ req' = p /\ met' = md /\ fill' = NoFill /\ ~ Idle
      /\ ecgState' = ecgState /\ targets' = targets /\ deferred' = deferred
      /\ snoops' = snoops /\ sent' = sent
  BY DEF LowerConflict
<1>2. /\ req \in [Requests -> Incoming] /\ sent \in [Requests -> Incoming]
      /\ met \in [Requests -> SUBSET Incoming] /\ ecgState \in States
      /\ targets \in Lists /\ snoops \in SUBSET Range(targets) /\ deferred \in Lists
      /\ \A z \in Requests : sent[z].conflicted => sent[z].plan
      /\ Range(targets) \cap Range(deferred) = {}
      /\ \A z \in Range(deferred) : req[z] = sent[z]
  BY DEF MshrInv
<1>3. /\ LineOK /\ f \in Range(targets) /\ f \in Requests /\ targets # <<>>
      /\ f \in Mine(targets, snoops)
      /\ Range(targets) \subseteq Requests /\ Range(deferred) \subseteq Requests
  BY <1>1, Targets DEF Idle
<1>4. /\ Miss(targets, snoops, sent, met) /\ Ready(req, targets, snoops, sent, met)
      /\ Verdict(ecgState, req, targets, snoops, sent, met)
  BY <1>3 DEF LineOK
<1>5. y \in Incoming /\ y.conflicted
  BY <1>2, <1>3 DEF Incoming
<1> HIDE DEF y
<1>6. /\ md \in [Requests -> SUBSET Incoming] /\ y \in md[f]
      /\ \A z \in Requests : met[z] \subseteq md[z]
  BY <1>2, <1>3, <1>5
<1> HIDE DEF md
<1>7. /\ p \in [Requests -> Incoming] /\ p[f].plan /\ p[f].conflicted
      /\ p[f].requestor = req[f].requestor
  BY <1>2, <1>3, MarkRecord
<1>8. \A z \in Requests \ {f} : p[z] = req[z]
  BY <1>2, <1>3, MarkLeaves
<1> HIDE DEF p
<1>9. req[f].requestor = sent[f].requestor
  BY <1>4 DEF Ready, FrontOK, Marked, RecordOf
<1>10. Marked(p[f], sent[f])
  BY <1>7, <1>9 DEF Marked
<1>11. Mine(targets, snoops) \subseteq Requests
  BY <1>3 DEF Mine
<1>12. Miss(targets, snoops, sent, md)
  BY <1>4, <1>6, <1>11 DEF Miss
<1>13. Longer(targets, snoops, sent, targets, snoops, sent)
  <2>1. Len(targets) \in Nat
    BY <1>2 DEF Lists
  <2>2. QED
    BY <2>1 DEF Longer
<1>14. Within(targets, snoops, sent, met, targets, snoops, sent, md)
  BY <1>6, <1>11, <1>13 DEF Within
<1>15. ~ Agree(md[f]) /\ Spoiled(md[f])
  BY <1>5, <1>6 DEF Agree, ValidContext, Spoiled
<1>16. Reason(targets, snoops, sent, md)
  BY <1>3, <1>15 DEF Reason
<1>17. Ready(p, targets, snoops, sent, md)
  <2>1. ASSUME NEW z \in Mine(targets, snoops) \ {f} PROVE TailOK(p[z], sent[z], md[z])
    <3>1. TailOK(req[z], sent[z], met[z]) /\ p[z] = req[z]
      BY <1>4, <1>8, <1>11 DEF Ready
    <3>2. ~ Agree(met[z]) => ~ Agree(md[z])
      BY <1>4, <1>12, <1>14, WithinFacts
    <3>3. QED
      BY <3>1, <3>2 DEF TailOK
  <2>2. FrontOK(p[f], targets, snoops, sent, md)
    BY <1>10, <1>16 DEF FrontOK
  <2>3. QED
    BY <1>7, <2>1, <2>2 DEF Ready
<1>18. Verdict(ecgState, p, targets, snoops, sent, md)
  BY <1>4, <1>10, <1>15, <1>16 DEF Verdict, Refused
<1>19. LineOK'
  BY <1>1, <1>12, <1>17, <1>18 DEF LineOK
<1>20. FillSound' /\ FillComplete'
  BY <1>1, NothingFilledNext
<1>21. \A z \in Range(deferred') : req'[z] = sent'[z]
  BY <1>1, <1>2, <1>3, <1>8
<1>22. QED
  BY <1>1, <1>2, <1>3, <1>6, <1>7, <1>19, <1>20, <1>21 DEF MshrInv

(* The record a line is bound to: that of the latest load among the requests. *)
OfLatest(x, S) ==
    /\ Agree(S)
    /\ \E in \in S : SamePayload(x, in) /\ \A other \in S : other.sequence <= in.sequence
    /\ \A in \in S : /\ in.requestor = x.requestor
                     /\ in.sequence = x.sequence => in.data = x.data

LEMMA RecordIsSound ==
    ASSUME NEW L, NEW sn, NEW e, NEW me, Miss(L, sn, e, me),
           NEW x, RecordOf(x, e[L[1]], Final(L, sn, e)),
           NEW S, S = Carried(e, Mine(L, sn))
    PROVE  OfLatest(x, S)
<1>1. L \in Seq(Requests) /\ e \in [Requests -> Incoming] /\ Len(L) \in 0 .. Len(L)
  BY MissFacts DEF Miss
<1>2. Members(L, sn, Len(L)) = Mine(L, sn)
  BY <1>1, AllMembers DEF Mine
<1>3. Knows(Final(L, sn, e), S)
  BY <1>1, <1>2, SlotsKnow DEF Final
<1>4. PICK s : s = Final(L, sn, e)
  OBVIOUS
<1>5. Sound(s, S) /\ s.selected_valid /\ ~ s.conflicted
  BY <1>3, <1>4 DEF Knows, RecordOf
<1>6. s.context = x.context /\ s.sequence = x.sequence /\ s.data = x.data
  BY <1>4 DEF RecordOf, SamePayload
<1>7. PICK kept \in S : SamePayload(s, kept) /\ \A other \in S : other.sequence <= kept.sequence
  BY <1>5 DEF Sound
<1>8. SamePayload(x, kept)
  BY <1>6, <1>7 DEF SamePayload
<1>9. \A in \in S : in.requestor = x.requestor
  <2>1. L[1] \in Mine(L, sn)
    BY MissFacts
  <2>2. e[L[1]] \in S /\ x.requestor = e[L[1]].requestor
    BY <2>1 DEF Carried, RecordOf
  <2>3. Agree(S)
    BY <1>5 DEF Sound
  <2>4. QED
    BY <2>2, <2>3 DEF Agree
<1>10. QED
  BY <1>5, <1>6, <1>7, <1>8, <1>9 DEF Sound, OfLatest

(* The targets left behind are a miss of their own.                           *)
LEMMA MissShrinks ==
    ASSUME NEW L, NEW sn, NEW e, NEW me, Miss(L, sn, e, me), NEW q, Ready(q, L, sn, e, me),
           NEW K \in Lists, K # <<>>, Range(K) \subseteq Mine(L, sn) \ {L[1]}
    PROVE  Miss(K, {}, e, me) /\ Ready(q, K, {}, e, me)
<1>1. /\ K \in Seq(Requests) /\ IsInjective(K) /\ DOMAIN K = 1 .. Len(K) /\ Len(K) \in Nat \ {0}
  BY DEF Lists
<1>2. 1 \in DOMAIN K
  BY <1>1
<1>3. K[1] \in Range(K) /\ Mine(K, {}) = Range(K)
  BY <1>2 DEF Range, Mine
<1>4. Miss(K, {}, e, me)
  BY <1>1, <1>3 DEF Miss
<1>5. \A r \in Range(K) : TailOK(q[r], e[r], me[r])
  BY DEF Ready
<1>6. FrontOK(q[K[1]], K, {}, e, me)
  <2>1. PICK f : f = K[1]
    OBVIOUS
  <2>2. TailOK(q[f], e[f], me[f]) /\ f \in Range(K)
    BY <1>3, <1>5, <2>1
  <2>3. f \in Requests /\ e[f] \in Incoming /\ e[f] \in me[f]
    BY <1>3, <1>4, <2>2, MissFacts DEF Miss
  <2>4. CASE q[f] = e[f]
    BY <2>1, <2>4 DEF FrontOK
  <2>5. CASE e[f].plan /\ q[f] = [e[f] EXCEPT !.conflicted = TRUE] /\ ~ Agree(me[f])
    <3>1. Marked(q[f], e[f])
      BY <2>3, <2>5 DEF Marked, Incoming
    <3>2. Spoiled(me[f])
      BY <2>3, <2>5 DEF Spoiled
    <3>3. Reason(K, {}, e, me)
      BY <1>3, <2>2, <3>2 DEF Reason
    <3>4. QED
      BY <2>1, <3>1, <3>3 DEF FrontOK
  <2>6. QED
    BY <2>2, <2>4, <2>5 DEF TailOK
<1>7. QED
  BY <1>3, <1>4, <1>5, <1>6 DEF Ready

LEMMA RespondHolds ==
    ASSUME MshrInv, ~ Idle, NEW promoted \in 0 .. Len(deferred), NEW all \in BOOLEAN,
           Respond(promoted, all)
    PROVE  MshrInv'
<1> DEFINE front == targets[1]
           filled == Apply([st |-> ecgState, q |-> req], front)
           D1 == SubSeq(deferred, 1, promoted)
           D2 == SubSeq(deferred, promoted + 1, Len(deferred))
           now == targets \o D1
           m1 == Rebuild(filled, now, snoops)
           left == IF all THEN <<>> ELSE Remaining(now, snoops)
           m2 == Rebuild(m1.q, left, {})
           next == left \o D2
           m3 == Rebuild(m2.q, next, {})
           gone == Requests \ Range(next)
           md1 == Meet(met, sent, Mine(now, snoops))
           after == Meet(md1, sent, Range(next))
           q == [r \in Requests |-> IF r \in gone THEN NoExtension(0) ELSE m3.q[r]]
           d == [r \in Requests |-> IF r \in gone THEN NoExtension(0) ELSE sent[r]]
           md == [r \in Requests |-> IF r \in gone THEN {} ELSE after[r]]
           mine == Mine(targets, snoops)
<1>1. /\ targets' = next /\ deferred' = <<>> /\ snoops' = {} /\ ecgState' = m3.st
      /\ req' = q /\ sent' = d /\ met' = md
  BY DEF Respond, Mine
<1>2. fill' = [bound  |-> filled[front].plan /\ ValidContext(filled[front]),
               record |-> filled[front],
               served |-> Carried(sent, mine),
               met    |-> UNION {met[r] : r \in mine}]
  BY DEF Respond, Mine
<1>3. /\ req \in [Requests -> Incoming] /\ sent \in [Requests -> Incoming]
      /\ met \in [Requests -> SUBSET Incoming] /\ ecgState \in States
      /\ targets \in Lists /\ snoops \subseteq Range(targets) /\ deferred \in Lists
      /\ \A z \in Requests : sent[z].conflicted => sent[z].plan
      /\ Range(targets) \cap Range(deferred) = {}
      /\ \A z \in Range(deferred) : req[z] = sent[z]
  BY DEF MshrInv
<1>4. /\ LineOK /\ front \in Range(targets) /\ front \in Requests /\ targets # <<>>
      /\ front \in mine /\ mine \subseteq Requests
      /\ Range(targets) \subseteq Requests /\ Range(deferred) \subseteq Requests
  BY Targets DEF Idle
<1>5. /\ Miss(targets, snoops, sent, met) /\ Ready(req, targets, snoops, sent, met)
      /\ Verdict(ecgState, req, targets, snoops, sent, met)
  BY <1>4 DEF LineOK
<1>6. /\ D1 \in Lists /\ D2 \in Lists /\ Range(D1) \cup Range(D2) = Range(deferred)
      /\ Range(D1) \cap Range(D2) = {}
  BY <1>3, CutFacts
<1> HIDE DEF D1, D2, mine
<1>7. /\ Ready(filled, targets, snoops, sent, met)
      /\ \A r \in Requests \ {front} : filled[r] = req[r]
      /\ filled[front].plan /\ ValidContext(filled[front]) =>
            RecordOf(filled[front], sent[front], Final(targets, snoops, sent))
      /\ \A T : /\ Carried(sent, Mine(targets, snoops)) \subseteq T
                /\ \A r \in Mine(targets, snoops) : met[r] \subseteq T
                /\ Agree(T) /\ OneRecordPerLoad(T)
                => filled[front].plan /\ ValidContext(filled[front])
  BY <1>5, ApplyCoheres
<1> HIDE DEF filled
<1>8. filled \in [Requests -> Incoming]
  BY <1>7 DEF Ready
<1>9. Range(targets) \cap Range(D1) = {}
  BY <1>3, <1>6
<1>10. /\ now \in Lists /\ Range(now) = Range(targets) \cup Range(D1)
       /\ Len(targets) <= Len(now) /\ \A i \in 1 .. Len(targets) : now[i] = targets[i]
  BY <1>3, <1>6, <1>9, JoinFacts
<1> HIDE DEF now
<1>11. now # <<>> /\ now[1] = front
  <2>1. Len(targets) \in Nat \ {0} /\ Len(now) \in Nat
    BY <1>3, <1>4, <1>10 DEF Lists
  <2>2. 1 \in 1 .. Len(targets) /\ Len(now) # 0
    BY <1>10, <2>1, SMT
  <2>3. QED
    BY <1>10, <2>2
<1>12. Extended(targets, now, Range(D1))
  BY <1>3, <1>9, <1>10, <1>11 DEF Extended
<1>13. Mine(now, snoops) \in SUBSET Requests
  BY <1>4, <1>6, <1>10 DEF Mine
<1>14. /\ md1 \in [Requests -> SUBSET Incoming]
       /\ \A r, t \in Mine(now, snoops) : sent[t] \in md1[r]
       /\ \A r \in Requests : met[r] \subseteq md1[r]
  BY <1>3, <1>13, MeetFacts
<1> HIDE DEF md1
<1>15. \A r \in Range(deferred) : filled[r] = sent[r]
  BY <1>3, <1>4, <1>7
<1>16. Miss(now, snoops, sent, md1) /\ Ready(filled, now, snoops, sent, md1)
  <2>1. \A r \in Mine(targets, snoops) : met[r] \subseteq md1[r]
    BY <1>4, <1>14 DEF mine
  <2>2. \A r \in Range(D1) : filled[r] = sent[r]
    BY <1>6, <1>15
  <2>3. Carries(targets, now, Range(D1), snoops, sent, sent, met, md1, filled, filled)
    BY <1>3, <1>5, <1>7, <1>8, <1>14, <2>1, <2>2 DEF Carries
  <2>4. QED
    BY <1>12, <2>3, MissExtends
<1>17. /\ m1 \in Merges /\ \A r \in Requests \ Mine(now, snoops) : m1.q[r] = filled[r]
       /\ Ready(m1.q, now, snoops, sent, md1)
  BY <1>16, RebuildCoheres
<1> HIDE DEF m1
<1>18. m1.q \in [Requests -> Incoming]
  BY <1>17 DEF Merges
<1>19. left \in Lists /\ Range(left) \subseteq Mine(now, snoops) \ {now[1]}
  <2>1. CASE all
    <3>1. <<>> \in Lists /\ Range(<<>>) = {}
      <4>1. <<>> \in Seq(Requests) /\ DOMAIN <<>> = {}
        OBVIOUS
      <4>2. QED
        BY <4>1 DEF Lists, IsInjective, Range
    <3>2. QED
      BY <2>1, <3>1
  <2>2. CASE ~ all
    <3>1. Remaining(now, snoops) \in Lists
          /\ Range(Remaining(now, snoops)) = (Range(now) \ snoops) \ {now[1]}
      BY <1>10, <1>11, RemainingIs
    <3>2. QED
      BY <2>2, <3>1 DEF Mine
  <2>3. QED
    BY <2>1, <2>2
<1> HIDE DEF left
<1>20. left # <<>> => Miss(left, {}, sent, md1) /\ Ready(m1.q, left, {}, sent, md1)
  BY <1>16, <1>17, <1>19, MissShrinks
<1>21. /\ m2.q \in [Requests -> Incoming]
       /\ \A r \in Requests \ Range(left) : m2.q[r] = m1.q[r]
       /\ left # <<>> => Ready(m2.q, left, {}, sent, md1)
  <2>1. CASE left = <<>>
    <3>1. m2 = Start(m1.q)
      BY <1>18, <2>1, EmptyRebuild
    <3>2. m2.q = m1.q
      BY <3>1 DEF Start
    <3>3. QED
      BY <1>18, <2>1, <3>2
  <2>2. CASE left # <<>>
    <3>1. /\ m2 \in Merges /\ \A r \in Requests \ Mine(left, {}) : m2.q[r] = m1.q[r]
          /\ Ready(m2.q, left, {}, sent, md1)
      BY <1>20, <2>2, RebuildCoheres
    <3>2. Mine(left, {}) = Range(left)
      BY DEF Mine
    <3>3. QED
      BY <3>1, <3>2 DEF Merges
  <2>3. QED
    BY <2>1, <2>2
<1> HIDE DEF m2
<1>22. Range(D2) \cap Range(now) = {} /\ Range(left) \subseteq Range(now)
  BY <1>3, <1>6, <1>10, <1>19 DEF Mine
<1>23. \A r \in Range(D2) : m2.q[r] = sent[r]
  BY <1>4, <1>6, <1>15, <1>17, <1>21, <1>22 DEF Mine
<1>24. /\ next \in Lists /\ Range(next) = Range(left) \cup Range(D2)
       /\ Len(left) <= Len(next) /\ \A i \in 1 .. Len(left) : next[i] = left[i]
  BY <1>6, <1>19, <1>22, JoinFacts
<1> HIDE DEF next
<1>25. Range(next) \in SUBSET Requests
  BY <1>4, <1>6, <1>13, <1>19, <1>24
<1>26. /\ after \in [Requests -> SUBSET Incoming]
       /\ \A r, t \in Range(next) : sent[t] \in after[r]
       /\ \A r \in Requests : md1[r] \subseteq after[r]
  BY <1>3, <1>14, <1>25, MeetFacts
<1> HIDE DEF after
<1>27. m3.q \in [Requests -> Incoming] /\ m3.st \in States /\ (next = <<>> => m3.st = ResetState)
       /\ (next # <<>> => LineOK')
  <2>1. CASE next = <<>>
    <3>1. m3 = Start(m2.q)
      BY <1>21, <2>1, EmptyRebuild
    <3>2. m3.q = m2.q /\ m3.st = ResetState
      BY <3>1 DEF Start
    <3>3. QED
      BY <1>21, <2>1, <3>2, ExtensionTypes
  <2>2. CASE next # <<>>
    <3>1. Mine(next, {}) = Range(next) /\ Mine(left, {}) = Range(left)
      BY DEF Mine
    <3>2. Miss(next, {}, sent, after) /\ Ready(m2.q, next, {}, sent, after)
      <4>1. Extended(left, next, Range(D2))
        BY <1>19, <1>22, <1>24, <2>2 DEF Extended
      <4>2. Range(left) \subseteq Requests
        BY <1>13, <1>19
      <4>3. Carries(left, next, Range(D2), {}, sent, sent, md1, after, m2.q, m2.q)
        BY <1>3, <1>20, <1>21, <1>23, <1>26, <3>1, <4>2 DEF Carries
      <4>4. QED
        BY <4>1, <4>3, MissExtends
    <3>3. /\ m3 \in Merges /\ Ready(m3.q, next, {}, sent, after)
          /\ Verdict(m3.st, m3.q, next, {}, sent, after)
      BY <3>2, RebuildCoheres
    <3> HIDE DEF m3
    <3>4. m3.q \in [Requests -> Incoming] /\ m3.st \in States
      BY <3>3 DEF Merges
    <3>5. /\ q \in [Requests -> Incoming] /\ d \in [Requests -> Incoming]
          /\ md \in [Requests -> SUBSET Incoming]
      BY <1>3, <1>26, <3>4, ExtensionTypes, DefaultsAssumption
    <3>6. \A r \in Range(next) : r \in Requests /\ q[r] = m3.q[r] /\ d[r] = sent[r] /\ md[r] = after[r]
      BY <1>25
    <3> HIDE DEF q, d, md
    <3>7. /\ next \in Seq(Requests) /\ Len(next) \in Nat \ {0} /\ DOMAIN next = 1 .. Len(next)
      BY <1>24, <2>2 DEF Lists
    <3>8. \A i \in 1 .. Len(next) : next[i] \in Range(next)
      BY <3>7 DEF Range
    <3>9. Miss(next, {}, d, md)
      BY <3>1, <3>2, <3>5, <3>6 DEF Miss
    <3>10. Longer(next, {}, sent, next, {}, d)
      BY <3>6, <3>7, <3>8 DEF Longer
    <3>11. Within(next, {}, sent, after, next, {}, d, md)
      BY <3>1, <3>6, <3>10 DEF Within
    <3>12. Ready(q, next, {}, d, md)
      BY <3>1, <3>2, <3>3, <3>5, <3>6, <3>9, <3>11, ReadyPersists
    <3>13. Final(next, {}, d) = Final(next, {}, sent)
      BY <3>2, <3>9, <3>11, SameFinal
    <3>14. q[next[1]] = m3.q[next[1]]
      BY <3>6, <3>7, <3>8
    <3>15. Verdict(m3.st, q, next, {}, d, md)
      BY <3>2, <3>3, <3>9, <3>11, <3>13, <3>14, VerdictPersists
    <3>16. LineOK'
      BY <1>1, <3>9, <3>12, <3>15 DEF LineOK
    <3>17. QED
      BY <2>2, <3>4, <3>16
  <2>3. QED
    BY <2>1, <2>2
<1> HIDE DEF m3
<1>28. /\ q \in [Requests -> Incoming] /\ d \in [Requests -> Incoming]
       /\ md \in [Requests -> SUBSET Incoming]
       /\ \A r \in Requests : d[r].conflicted => d[r].plan
  <2>1. NoExtension(0) \in Incoming /\ ~ NoExtension(0).conflicted
    BY ExtensionTypes, DefaultsAssumption DEF NoExtension
  <2>2. QED
    BY <1>3, <1>26, <1>27, <2>1
<1>29. FillSound'
  <2>1. SUFFICES ASSUME fill'.bound PROVE FillSound'
    BY DEF FillSound
  <2>2. RecordOf(filled[front], sent[front], Final(targets, snoops, sent))
    BY <1>2, <1>7, <2>1
  <2>3. PICK S : S = Carried(sent, mine)
    OBVIOUS
  <2>4. PICK x : x = filled[front]
    OBVIOUS
  <2>5. OfLatest(x, S)
    <3>1. RecordOf(x, sent[targets[1]], Final(targets, snoops, sent))
      BY <2>2, <2>4
    <3>2. S = Carried(sent, Mine(targets, snoops))
      BY <2>3 DEF mine
    <3>3. QED
      BY <1>5, <3>1, <3>2, RecordIsSound
  <2>6. fill'.served = S /\ fill'.record = x
    BY <1>2, <2>3, <2>4
  <2>7. /\ Agree(fill'.served)
        /\ \E in \in fill'.served :
             /\ SamePayload(fill'.record, in)
             /\ \A other \in fill'.served : other.sequence <= in.sequence
    BY <2>5, <2>6 DEF OfLatest
  <2>8. \A in \in fill'.served :
             /\ in.requestor = fill'.record.requestor
             /\ in.sequence = fill'.record.sequence => in.data = fill'.record.data
    BY <2>5, <2>6 DEF OfLatest
  <2>9. QED
    BY <2>7, <2>8 DEF FillSound
<1>30. FillComplete'
  <2>1. PICK T : T = UNION {met[r] : r \in mine}
    OBVIOUS
  <2>2. \A r \in mine : met[r] \subseteq T
    BY <2>1
  <2>3. Carried(sent, mine) \subseteq T
    BY <1>5, <2>2 DEF Carried, Miss, mine
  <2>4. fill'.met = T /\ fill'.bound = (filled[front].plan /\ ValidContext(filled[front]))
    BY <1>2, <2>1
  <2>5. Agree(T) /\ OneRecordPerLoad(T) => filled[front].plan /\ ValidContext(filled[front])
    BY <1>7, <2>2, <2>3 DEF mine
  <2>6. QED
    BY <2>4, <2>5 DEF FillComplete
<1>31. <<>> \in Lists /\ Range(<<>>) = {}
  <2>1. <<>> \in Seq(Requests) /\ DOMAIN <<>> = {}
    OBVIOUS
  <2>2. QED
    BY <2>1 DEF Lists, IsInjective, Range
<1> HIDE DEF q, d, md
<1>32. QED
  BY <1>1, <1>24, <1>27, <1>28, <1>29, <1>30, <1>31 DEF MshrInv

LEMMA StutterHolds ==
    ASSUME MshrInv, UNCHANGED vars
    PROVE  MshrInv'
<1>1. LineOK' <=> LineOK
  BY DEF vars, LineOK
<1>2. (FillSound' <=> FillSound) /\ (FillComplete' <=> FillComplete)
  BY DEF vars, FillSound, FillComplete
<1>3. QED
  BY <1>1, <1>2 DEF vars, MshrInv

(* What the MSHR knows of the requests of its line is kept by every step of   *)
(* gem5: a request that joins, is deferred, snoops, is refused by a lower     *)
(* cache, or is served by a response.                                         *)
THEOREM MshrInvariance == Spec => []MshrInv
<1>1. Init => MshrInv
  BY InitHolds
<1>2. MshrInv /\ [Next]_vars => MshrInv'
  <2> SUFFICES ASSUME MshrInv, [Next]_vars PROVE MshrInv'
    OBVIOUS
  <2>1. ASSUME NEW r \in Free, NEW x \in Arrivals, Allocate(r, x) PROVE MshrInv'
    <3>1. AddTarget(r, x) /\ deferred = <<>>
      BY <2>1 DEF Allocate, Idle, MshrInv
    <3>2. QED
      BY <3>1, AddHolds
  <2>2. ASSUME NEW r \in Free, NEW x \in Arrivals, AllocateTarget(r, x) PROVE MshrInv'
    <3>1. AddTarget(r, x) /\ deferred = <<>>
      BY <2>2 DEF AllocateTarget
    <3>2. QED
      BY <3>1, AddHolds
  <2>3. ASSUME NEW r \in Free, NEW x \in Arrivals, AllocateDeferred(r, x) PROVE MshrInv'
    BY <2>3, DeferHolds
  <2>4. ASSUME NEW r \in Free, NEW x \in Arrivals, Snoop(r, x) PROVE MshrInv'
    BY <2>4, SnoopHolds
  <2>5. CASE LowerConflict
    BY <2>5, LowerHolds
  <2>6. ASSUME ~ Idle, NEW promoted \in 0 .. Len(deferred), NEW all \in BOOLEAN,
               Respond(promoted, all)
        PROVE  MshrInv'
    BY <2>6, RespondHolds
  <2>7. CASE UNCHANGED vars
    BY <2>7, StutterHolds
  <2>8. QED
    BY <2>1, <2>2, <2>3, <2>4, <2>5, <2>6, <2>7 DEF Next
<1>3. QED
  BY <1>1, <1>2, PTL DEF Spec

(* The lists of an MSHR stay disjoint and without repetition, and it selects  *)
(* only among the requests it merges.                                         *)
THEOREM MshrTypeHolds == Spec => []TypeOK
<1>1. MshrInv => TypeOK
  <2> SUFFICES ASSUME MshrInv PROVE TypeOK
    OBVIOUS
  <2>1. ecgState.selected \in Merging \cup {NoRequest}
    <3>1. CASE targets = <<>>
      BY <3>1 DEF MshrInv, ResetState
    <3>2. CASE targets # <<>>
      <4>1. Verdict(ecgState, req, targets, snoops, sent, met)
        BY <3>2 DEF MshrInv, LineOK
      <4>2. targets[1] \in Mine(targets, snoops)
        BY <3>2, Targets DEF Idle
      <4>3. QED
        BY <4>1, <4>2 DEF Verdict, Refused, Choice, Mine, Merging
    <3>3. QED
      BY <3>1, <3>2
  <2>2. QED
    BY <2>1 DEF MshrInv, TypeOK, Lists
<1>2. QED
  BY <1>1, MshrInvariance, PTL

(* A line is bound only to the record of the latest load among requests that  *)
(* agreed when they arrived, for any number of requests and rebuilds.         *)
THEOREM FillSoundHolds == Spec => []FillSound
<1>1. MshrInv => FillSound
  BY DEF MshrInv
<1>2. QED
  BY <1>1, MshrInvariance, PTL

(* A line is refused its record only for a disagreement met on the way.       *)
THEOREM FillCompleteHolds == Spec => []FillComplete
<1>1. MshrInv => FillComplete
  BY DEF MshrInv
<1>2. QED
  BY <1>1, MshrInvariance, PTL

(* As long as no request of the miss has left it, the rebuilt state of gem5   *)
(* is the one of the hardware slot that merged each request once.             *)
THEOREM HardwareHolds == Spec => []MergeMatchesHardware
<1>1. MshrInv => MergeMatchesHardware
  <2> SUFFICES ASSUME MshrInv, \A r \in Merging : met[r] = Carried(sent, Merging)
               PROVE  LET hardware == Final(targets, snoops, sent)
                          kept == ecgState.selected
                      IN  /\ ecgState.saw_target = hardware.saw_target
                          /\ ecgState.saw_reuse_plan = hardware.saw_reuse_plan
                          /\ ecgState.conflicted = hardware.conflicted
                          /\ (kept # NoRequest) = hardware.selected_valid
                          /\ hardware.selected_valid /\ ~ hardware.conflicted =>
                                 /\ ecgState.requestor = hardware.requestor
                                 /\ ecgState.sequence = hardware.sequence
                                 /\ ~ req[kept].conflicted
                                 /\ SamePayload(hardware, req[kept])
    BY DEF MergeMatchesHardware, Final
  <2> DEFINE S == Carried(sent, Merging)
  <2>1. PICK s : s = Final(targets, snoops, sent)
    OBVIOUS
  <2>2. targets \in Seq(Requests) /\ sent \in [Requests -> Incoming] /\ ecgState \in States
        /\ \A r \in Requests : sent[r].conflicted => sent[r].plan
    BY DEF MshrInv, Lists
  <2>3. Merging = Mine(targets, snoops) /\ Merging \subseteq Requests
    BY Targets DEF Merging, Mine
  <2>4. Members(targets, snoops, Len(targets)) = Merging /\ Len(targets) \in 0 .. Len(targets)
    BY <2>2, AllMembers DEF Merging
  <2>5. Knows(s, S)
    BY <2>1, <2>2, <2>4, SlotsKnow DEF Final
  <2>6. /\ s \in Slots /\ (s.saw_target <=> S # {}) /\ (s.selected_valid <=> s.saw_reuse_plan)
        /\ (s.conflicted => s.selected_valid)
        /\ (s.selected_valid <=> \E in \in S : in.plan)
        /\ (s.selected_valid /\ ~ s.conflicted => Agree(S))
    BY <2>5 DEF Knows, Sound
  <2>7. /\ s.saw_target \in BOOLEAN /\ s.saw_reuse_plan \in BOOLEAN
        /\ s.conflicted \in BOOLEAN /\ s.selected_valid \in BOOLEAN
        /\ ecgState.saw_target \in BOOLEAN /\ ecgState.saw_reuse_plan \in BOOLEAN
        /\ ecgState.conflicted \in BOOLEAN
    BY <2>2, <2>6 DEF Slots, States
  <2>8. \A in \in S : in.conflicted => in.plan
    BY <2>2, <2>3 DEF Carried
  <2>9. CASE targets = <<>>
    <3>1. ecgState = ResetState /\ Range(targets) = {}
      BY <2>9, Targets DEF MshrInv
    <3>2. S = {}
      BY <3>1 DEF Carried, Merging
    <3>3. ~ s.saw_target /\ ~ s.selected_valid /\ ~ s.saw_reuse_plan /\ ~ s.conflicted
      BY <2>6, <3>2
    <3>4. QED
      BY <2>1, <2>7, <3>1, <3>3 DEF ResetState
  <2>10. CASE targets # <<>>
    <3>1. PICK f : f = targets[1]
      OBVIOUS
    <3>2. /\ Miss(targets, snoops, sent, met) /\ Ready(req, targets, snoops, sent, met)
          /\ Verdict(ecgState, req, targets, snoops, sent, met)
          /\ f \in Merging /\ f \in Requests /\ f # NoRequest
      BY <2>3, <2>10, <3>1, Targets, NoRequestAssumption DEF LineOK, Idle
    <3>3. \A r \in Merging : met[r] = S /\ sent[r] \in S
      BY DEF Carried
    <3>4. s.saw_target /\ ecgState.saw_target
      BY <2>6, <3>2, <3>3 DEF Verdict
    <3>5. CASE Refused(ecgState, targets, snoops, sent, met)
      <4>1. ecgState.conflicted /\ ecgState.saw_reuse_plan /\ ecgState.selected # NoRequest
        BY <2>3, <3>5, NoRequestAssumption DEF Refused
      <4>2. s.conflicted
        <5>1. CASE Final(targets, snoops, sent).conflicted
          BY <2>1, <5>1
        <5>2. CASE \E r \in Mine(targets, snoops) : Spoiled(met[r])
          <6>1. Spoiled(S)
            BY <2>3, <3>3, <5>2
          <6>2. QED
            BY <2>6, <2>8, <6>1 DEF Spoiled
        <5>3. QED
          BY <3>5, <5>1, <5>2 DEF Refused, Reason
      <4>3. QED
        BY <2>1, <2>6, <2>7, <3>4, <4>1, <4>2
    <3>6. CASE /\ ~ ecgState.conflicted /\ ~ ecgState.saw_reuse_plan
               /\ ecgState.selected = NoRequest
               /\ \A r \in Mine(targets, snoops) : ~ sent[r].plan
      <4>1. ~ s.selected_valid /\ ~ s.saw_reuse_plan /\ ~ s.conflicted
        BY <2>3, <2>6, <3>6 DEF Carried
      <4>2. QED
        BY <2>1, <2>7, <3>4, <3>6, <4>1
    <3>7. CASE /\ sent[f].plan /\ Choice(ecgState, f, s)
               /\ s.selected_valid /\ ~ s.conflicted
               /\ \/ RecordOf(req[f], sent[f], s)
                  \/ Marked(req[f], sent[f]) /\ ~ Agree(met[f])
      <4>1. RecordOf(req[f], sent[f], s)
        BY <2>6, <3>2, <3>3, <3>7
      <4>2. /\ ~ ecgState.conflicted /\ ecgState.saw_reuse_plan /\ ecgState.selected = f
            /\ ecgState.requestor = s.requestor /\ ecgState.sequence = s.sequence
        BY <3>7 DEF Choice
      <4>3. ~ req[f].conflicted /\ SamePayload(s, req[f])
        BY <4>1 DEF RecordOf
      <4>4. QED
        BY <2>1, <2>6, <2>7, <3>2, <3>4, <3>7, <4>2, <4>3
    <3>8. QED
      BY <2>1, <3>1, <3>2, <3>5, <3>6, <3>7 DEF Verdict
  <2>11. QED
    BY <2>9, <2>10
<1>2. QED
  BY <1>1, MshrInvariance, PTL
=============================================================================
