---------------------------- MODULE ReuseBindMerge ---------------------------
(* The merge of the requests that wait for one line, as the hardware does it  *)
(* (reuse_bind_request_merge of bench/src_rtl/reuse_bind_request_path.sv), and *)
(* the rule it is to implement: a line may be bound to ReusePlan metadata     *)
(* only when the requests for it agree.                                       *)
EXTENDS Integers

CONSTANTS
    Requestors,  \* ids of the cores and prefetchers that issue requests
    Contexts,    \* graph context ids; 0 stands for no context
    Sequences,   \* the sequence numbers of the loads
    Data         \* destination, tier, epochs and current epoch of a record

ASSUME ContextsAssumption == Contexts \subseteq Nat /\ 0 \in Contexts
ASSUME SequencesAssumption == Sequences \subseteq Nat /\ 0 \in Sequences
ASSUME DefaultsAssumption == 0 \in Requestors /\ 0 \in Data

(* A request as the merge sees it.  plan: it carries a two-epoch record;      *)
(* conflicted: an earlier merge has already invalidated that record.          *)
Incoming == [plan : BOOLEAN, conflicted : BOOLEAN, requestor : Requestors,
             context : Contexts, sequence : Sequences, data : Data]

Slots == [saw_target : BOOLEAN, saw_reuse_plan : BOOLEAN, conflicted : BOOLEAN,
          selected_valid : BOOLEAN, requestor : Requestors,
          context : Contexts, sequence : Sequences, data : Data]

EmptySlot == [saw_target |-> FALSE, saw_reuse_plan |-> FALSE, conflicted |-> FALSE,
              selected_valid |-> FALSE, requestor |-> 0,
              context |-> 0, sequence |-> 0, data |-> 0]

ValidContext(in) == in.context # 0 /\ ~ in.conflicted

SamePayload(s, in) ==
    s.context = in.context /\ s.sequence = in.sequence /\ s.data = in.data
-----------------------------------------------------------------------------
(* The incoming record is kept.                                               *)
Keep(s, in) ==
    [s EXCEPT !.selected_valid = TRUE, !.requestor = in.requestor,
              !.context = in.context, !.sequence = in.sequence, !.data = in.data]

Conflict(s) == [s EXCEPT !.conflicted = TRUE]

(* A record that cannot be trusted with the requests already merged: it has   *)
(* no valid context itself, or a request without a record came before it.     *)
Untrusted(s, in) == ~ ValidContext(in) \/ (s.saw_target /\ ~ s.selected_valid)

Foreign(s, in) == s.requestor # in.requestor \/ s.context # in.context

(* Two-epoch record against the record kept so far, both of the same          *)
(* requestor and context: the later load wins, and two records of one load    *)
(* must be the same.                                                          *)
MergeSame_OlderWins(s, in) ==
    IF in.sequence < s.sequence THEN Keep(s, in)
    ELSE IF in.sequence = s.sequence /\ ~ SamePayload(s, in) THEN Conflict(s)
    ELSE s

MergeSame_EqualConflicts(s, in) ==
    IF in.sequence > s.sequence THEN Keep(s, in)
    ELSE IF in.sequence = s.sequence THEN Conflict(s)
    ELSE s

MergeSame(s, in) ==
    IF in.sequence > s.sequence THEN Keep(s, in)
    ELSE IF in.sequence = s.sequence /\ ~ SamePayload(s, in) THEN Conflict(s)
    ELSE s

MergePlan(s, in) ==
    IF s.conflicted THEN s
    ELSE IF Untrusted(s, in) THEN Conflict(Keep(s, in))
    ELSE IF ~ s.selected_valid THEN Keep(s, in)
    ELSE IF Foreign(s, in) THEN Conflict(s)
    ELSE MergeSame(s, in)

SlotMerge(s, in) ==
    IF in.plan
    THEN [MergePlan(s, in) EXCEPT !.saw_target = TRUE, !.saw_reuse_plan = TRUE]
    ELSE [s EXCEPT !.saw_target = TRUE,
                   !.conflicted = s.conflicted \/ s.saw_reuse_plan]
-----------------------------------------------------------------------------
(* Requests that may share one record: all carry a valid one, of a single     *)
(* requestor and context.                                                     *)
Agree(S) ==
    /\ \A in \in S : in.plan /\ ValidContext(in)
    /\ \A in1, in2 \in S : in1.requestor = in2.requestor /\ in1.context = in2.context

(* No two different records of one load.                                      *)
OneRecordPerLoad(S) ==
    \A in1, in2 \in S : in1.sequence = in2.sequence => in1.data = in2.data
=============================================================================
