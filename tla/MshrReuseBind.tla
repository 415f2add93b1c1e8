---------------------------- MODULE MshrReuseBind ----------------------------
(* The request merge of one miss in the gem5 caches: EcgReuseBindMshrState    *)
(* (ecg_reuse_bind_request_ext.hh) as mshr_ecg_merge.patch drives it from the *)
(* MSHR of the cache.  Unlike the hardware slot the state is rebuilt from the *)
(* targets whenever their list changes, and it works on the extensions of the *)
(* requests in place: the selected request is overwritten with a later record *)
(* and marked when the merge fails, and both outlive a rebuild.               *)
(* The MSHR itself (target lists, service, promotion) is gem5's and external. *)
EXTENDS ReuseBindMerge, Sequences, Functions

CONSTANTS
    Requests,    \* the request objects in the caches
    Arrivals,    \* the requests as they arrive: metadata and requestor
    NoRequest    \* a null RequestPtr

(* A refused request carries a record: the one refused, or the empty one that *)
(* markEcgReuseBindConflict gives a request without any.                      *)
ASSUME ArrivalsAssumption ==
    Arrivals \subseteq Incoming /\ \A e \in Arrivals : e.conflicted => e.plan
ASSUME NoRequestAssumption == NoRequest \notin Requests

VARIABLES
    req,         \* request -> its requestor and its extension now
    ecgState,    \* the EcgReuseBindMshrState of the MSHR
    targets,     \* requests served by the response to come, oldest first
    deferred,    \* requests that wait for a later response
    snoops,      \* those of the targets that are snoops of other caches
    sent,        \* history: request -> what it carried when it arrived
    met,         \* history: request -> what was merged with it since then
    fill         \* history: the line filled by the last step, if it filled one

vars == <<req, ecgState, targets, deferred, snoops, sent, met, fill>>

States == [saw_target : BOOLEAN, saw_reuse_plan : BOOLEAN, conflicted : BOOLEAN,
           requestor : Requestors, context : Contexts, sequence : Sequences,
           selected : Requests \cup {NoRequest}]

ResetState == [saw_target |-> FALSE, saw_reuse_plan |-> FALSE, conflicted |-> FALSE,
               requestor |-> 0, context |-> 0, sequence |-> 0,
               selected |-> NoRequest]

(* A request without an extension; a single-epoch one merges the same way.    *)
NoExtension(who) == [plan |-> FALSE, conflicted |-> FALSE, requestor |-> who,
                     context |-> 0, sequence |-> 0, data |-> 0]
-----------------------------------------------------------------------------
(* copyEcgReusePlanExtension and markEcgReuseBindConflict.  The slip passes   *)
(* the sequence number where a field of the record belongs.                   *)
CopyExtension_Fields(q, to, from) ==
    [q EXCEPT ![to] = [q[from] EXCEPT !.requestor = q[to].requestor,
                                      !.data = q[from].sequence]]

CopyExtension(q, to, from) ==
    [q EXCEPT ![to] = [q[from] EXCEPT !.requestor = q[to].requestor]]

MarkConflict(q, r) ==
    IF q[r].plan THEN [q EXCEPT ![r].conflicted = TRUE]
    ELSE [q EXCEPT ![r] = [NoExtension(q[r].requestor) EXCEPT
                             !.plan = TRUE, !.conflicted = TRUE]]

MarkSelected(m) ==
    IF m.st.selected = NoRequest THEN m
    ELSE [m EXCEPT !.q = MarkConflict(m.q, m.st.selected)]

(* A merge works on a pair: the state st and the requests q.                  *)
SetConflict(m) == MarkSelected([m EXCEPT !.st.conflicted = TRUE])

Select(m, r) ==
    [m EXCEPT !.st.selected = r, !.st.requestor = m.q[r].requestor,
              !.st.context = m.q[r].context, !.st.sequence = m.q[r].sequence]

(* A two-epoch record against the selected one.  The slip raises the sequence *)
(* but leaves the older record in place.                                      *)
MergeSelected_NoCopy(m, r) ==
    IF m.st.requestor # m.q[r].requestor \/ m.st.context # m.q[r].context
    THEN SetConflict(m)
    ELSE IF m.q[r].sequence > m.st.sequence
    THEN [m EXCEPT !.st.sequence = m.q[r].sequence]
    ELSE IF m.q[r].sequence = m.st.sequence /\ ~ SamePayload(m.q[m.st.selected], m.q[r])
    THEN SetConflict(m)
    ELSE m

MergeSelected(m, r) ==
    IF m.st.requestor # m.q[r].requestor \/ m.st.context # m.q[r].context
    THEN SetConflict(m)
    ELSE IF m.q[r].sequence > m.st.sequence
    THEN [m EXCEPT !.q = CopyExtension(m.q, m.st.selected, r),
                   !.st.sequence = m.q[r].sequence]
    ELSE IF m.q[r].sequence = m.st.sequence /\ ~ SamePayload(m.q[m.st.selected], m.q[r])
    THEN SetConflict(m)
    ELSE m

MergeTwoEpoch_PlainFirst(m, r, had_target) ==
    IF m.st.conflicted THEN MarkSelected(m)
    ELSE IF ~ ValidContext(m.q[r]) THEN SetConflict(Select(m, r))
    ELSE IF m.st.selected = NoRequest THEN Select(m, r)
    ELSE MergeSelected(m, r)

MergeTwoEpoch(m, r, had_target) ==
    IF m.st.conflicted THEN MarkSelected(m)
    ELSE IF ~ ValidContext(m.q[r]) THEN SetConflict(Select(m, r))
    ELSE IF m.st.selected = NoRequest
    THEN IF had_target THEN SetConflict(Select(m, r)) ELSE Select(m, r)
    ELSE MergeSelected(m, r)

MergeRequest(m, r) ==
    LET seen == [m EXCEPT !.st.saw_target = TRUE] IN
    IF m.q[r].plan
    THEN MergeTwoEpoch([seen EXCEPT !.st.saw_reuse_plan = TRUE], r, m.st.saw_target)
    ELSE IF m.st.saw_reuse_plan THEN SetConflict(seen) ELSE seen

(* rebuildEcgState: the merge of all targets but the snoops, which are        *)
(* requests of other caches.  The slip merges them too.                       *)
Rebuild_WithSnoops(q, list, sn) ==
    LET rebuilt[i \in 0 .. Len(list)] ==
            IF i = 0 THEN [st |-> ResetState, q |-> q]
            ELSE MergeRequest(rebuilt[i - 1], list[i])
    IN  rebuilt[Len(list)]

Rebuild(q, list, sn) ==
    LET rebuilt[i \in 0 .. Len(list)] ==
            IF i = 0 THEN [st |-> ResetState, q |-> q]
            ELSE IF list[i] \in sn THEN rebuilt[i - 1]
            ELSE MergeRequest(rebuilt[i - 1], list[i])
    IN  rebuilt[Len(list)]

(* apply: the verdict is put on the request whose response fills the line.    *)
Apply(m, r) ==
    IF ~ m.st.saw_reuse_plan \/ (m.q[r].plan /\ m.q[r].conflicted) THEN m.q
    ELSE LET copied == IF m.st.selected = NoRequest THEN m.q
                       ELSE CopyExtension(m.q, r, m.st.selected)
         IN  IF m.st.conflicted THEN MarkConflict(copied, r) ELSE copied
-----------------------------------------------------------------------------
Idle == targets = <<>>
Free == Requests \ (Range(targets) \cup Range(deferred))

(* The targets that stay when the first one and the snoops are served.        *)
Remaining(list, sn) ==
    LET kept[i \in 1 .. Len(list)] ==
            IF i = 1 THEN <<>>
            ELSE IF list[i] \in sn THEN kept[i - 1]
            ELSE Append(kept[i - 1], list[i])
    IN  kept[Len(list)]

(* What the requests of a set carried, met by each of them.                   *)
Carried(carriers, S) == {carriers[r] : r \in S}
Meet(history, carriers, S) ==
    [r \in Requests |-> IF r \in S THEN history[r] \cup Carried(carriers, S)
                        ELSE history[r]]

NoFill == [bound |-> FALSE, record |-> NoExtension(0), served |-> {}, met |-> {}]

Init ==
    /\ req = [r \in Requests |-> NoExtension(0)]
    /\ ecgState = ResetState
    /\ targets = <<>> /\ deferred = <<>> /\ snoops = {}
    /\ sent = req
    /\ met = [r \in Requests |-> {}]
    /\ fill = NoFill

(* The first miss of a line allocates the MSHR; a later one joins it, either  *)
(* as a target of the response to come or deferred until after it.  A snoop   *)
(* joins the targets without a rebuild.                                       *)
AddTarget(r, e) ==
    LET m == Rebuild([req EXCEPT ![r] = e], Append(targets, r), snoops)
    IN  /\ targets' = Append(targets, r)
        /\ req' = m.q /\ ecgState' = m.st
        /\ sent' = [sent EXCEPT ![r] = e]
        /\ met' = Meet(met, sent', Range(targets') \ snoops)
        /\ fill' = NoFill
        /\ UNCHANGED <<deferred, snoops>>

Allocate(r, e) == Idle /\ AddTarget(r, e)

AllocateTarget(r, e) == ~ Idle /\ deferred = <<>> /\ AddTarget(r, e)

Snoop(r, e) ==
    /\ ~ Idle
    /\ targets' = Append(targets, r) /\ snoops' = snoops \cup {r}
    /\ req' = [req EXCEPT ![r] = e] /\ sent' = [sent EXCEPT ![r] = e]
    /\ fill' = NoFill
    /\ UNCHANGED <<ecgState, deferred, met>>

AllocateDeferred(r, e) ==
    /\ ~ Idle
    /\ deferred' = Append(deferred, r)
    /\ req' = [req EXCEPT ![r] = e]
    /\ sent' = [sent EXCEPT ![r] = e]
    /\ fill' = NoFill
    /\ UNCHANGED <<ecgState, targets, snoops, met>>

(* The request that was sent down is merged in a lower cache with others it   *)
(* does not agree with; the extension it marks there is the one it has here.  *)
LowerConflict ==
    /\ ~ Idle
    /\ req' = MarkConflict(req, targets[1])
    /\ met' = [met EXCEPT ![targets[1]] = @ \cup {[sent[targets[1]] EXCEPT !.conflicted = TRUE]}]
    /\ fill' = NoFill
    /\ UNCHANGED <<ecgState, targets, deferred, snoops, sent>>

(* recvTimingResp: the verdict is applied to the request sent down, the line  *)
(* is filled with its record, deferred requests the line satisfies join the   *)
(* targets, the targets are served (all, or the first and the snoops when the *)
(* line was invalidated meanwhile), and what remains asks again.              *)
Respond(promoted, all) ==
    LET front  == targets[1]
        filled == Apply([st |-> ecgState, q |-> req], front)
        now    == targets \o SubSeq(deferred, 1, promoted)
        m1     == Rebuild(filled, now, snoops)
        left   == IF all THEN <<>> ELSE Remaining(now, snoops)
        m2     == Rebuild(m1.q, left, {})
        next   == left \o SubSeq(deferred, promoted + 1, Len(deferred))
        m3     == Rebuild(m2.q, next, {})
        gone   == Requests \ Range(next)
        after  == Meet(Meet(met, sent, Range(now) \ snoops), sent, Range(next))
        mine   == Range(targets) \ snoops
    IN  /\ targets' = next /\ deferred' = <<>> /\ snoops' = {}
        /\ ecgState' = m3.st
        /\ req' = [r \in Requests |-> IF r \in gone THEN NoExtension(0) ELSE m3.q[r]]
        /\ sent' = [r \in Requests |-> IF r \in gone THEN NoExtension(0) ELSE sent[r]]
        /\ met' = [r \in Requests |-> IF r \in gone THEN {} ELSE after[r]]
        /\ fill' = [bound  |-> filled[front].plan /\ ValidContext(filled[front]),
                    record |-> filled[front],
                    served |-> Carried(sent, mine),
                    met    |-> UNION {met[r] : r \in mine}]

Next ==
    \/ \E r \in Free, e \in Arrivals :
          \/ Allocate(r, e)
          \/ AllocateTarget(r, e)
          \/ AllocateDeferred(r, e)
          \/ Snoop(r, e)
    \/ LowerConflict
    \/ ~ Idle /\ \E promoted \in 0 .. Len(deferred), all \in BOOLEAN : Respond(promoted, all)

Spec == Init /\ [][Next]_vars
-----------------------------------------------------------------------------
Merging == Range(targets) \ snoops

TypeOK ==
    /\ req \in [Requests -> Incoming] /\ sent \in [Requests -> Incoming]
    /\ ecgState \in States
    /\ ecgState.selected \in Merging \cup {NoRequest}
    /\ Range(targets) \cap Range(deferred) = {}
    /\ IsInjective(targets) /\ IsInjective(deferred) /\ snoops \subseteq Range(targets)

(* A line is bound only when all the requests its response serves agreed when *)
(* they arrived, and then to the record of the latest load among them: what   *)
(* the rebuilds did to the extensions in between never shows                  *)
(* (EcgReuseBindMshrState::merge and apply).                                  *)
FillSound ==
    fill.bound =>
        /\ Agree(fill.served)
        /\ \E in \in fill.served :
             /\ SamePayload(fill.record, in)
             /\ \A other \in fill.served : other.sequence <= in.sequence
        /\ \A in \in fill.served :
             /\ in.requestor = fill.record.requestor
             /\ in.sequence = fill.record.sequence => in.data = fill.record.data

(* A line is refused its record only for a reason: when everything that its   *)
(* requests were ever merged with agrees, one record per load, it is bound    *)
(* (EcgReuseBindMshrState::merge; a snoop of another cache is no reason).     *)
FillComplete ==
    fill.served # {} /\ Agree(fill.met) /\ OneRecordPerLoad(fill.met) => fill.bound

(* The registers of the hardware slot after each request of a list, merged    *)
(* once as it arrived.                                                        *)
HardwareSlots(list, sn, carriers) ==
    LET slots[i \in 0 .. Len(list)] ==
            IF i = 0 THEN EmptySlot
            ELSE IF list[i] \in sn THEN slots[i - 1]
            ELSE SlotMerge(slots[i - 1], carriers[list[i]])
    IN  slots

(* As long as no request of the miss has left it, the state that the rebuilds *)
(* compute from the overwritten extensions is the one the hardware slot gets  *)
(* (rebuildEcgState against reuse_bind_request_state_slot).                   *)
MergeMatchesHardware ==
    LET hardware == HardwareSlots(targets, snoops, sent)[Len(targets)]
        kept == ecgState.selected
    IN  (\A r \in Merging : met[r] = Carried(sent, Merging)) =>
            /\ ecgState.saw_target = hardware.saw_target
            /\ ecgState.saw_reuse_plan = hardware.saw_reuse_plan
            /\ ecgState.conflicted = hardware.conflicted
            /\ (kept # NoRequest) = hardware.selected_valid
            /\ hardware.selected_valid /\ ~ hardware.conflicted =>
                   /\ ecgState.requestor = hardware.requestor
                   /\ ecgState.sequence = hardware.sequence
                   /\ ~ req[kept].conflicted
                   /\ SamePayload(hardware, req[kept])
=============================================================================
