---------------------------- MODULE ReuseBindSlot ----------------------------
(* The request merge state of one outstanding miss in hardware                *)
(* (reuse_bind_request_state_slot of                                          *)
(* bench/src_rtl/reuse_bind_request_path.sv).  Every request that joins the   *)
(* miss is merged into the slot; when the line arrives, the slot says whether *)
(* it may be bound to ReusePlan metadata and to which.                        *)
EXTENDS ReuseBindMerge, FiniteSets

CONSTANT
    MaxMerged    \* bound on the different requests of one miss

VARIABLES
    slot,        \* the registers of the slot
    merged       \* history: the requests merged since the slot was cleared

slotVars == <<slot, merged>>

SlotInit == slot = EmptySlot /\ merged = {}

Clear ==
    /\ slot' = EmptySlot
    /\ merged' = {}

Merge(in) ==
    /\ Cardinality(merged \cup {in}) <= MaxMerged
    /\ slot' = SlotMerge(slot, in)
    /\ merged' = merged \cup {in}

SlotNext == Clear \/ \E in \in Incoming : Merge(in)

SlotSpec == SlotInit /\ [][SlotNext]_slotVars
-----------------------------------------------------------------------------
SlotTypeOK == slot \in Slots /\ merged \subseteq Incoming

(* The line may be bound to the record in the slot.                           *)
Bound == slot.selected_valid /\ ~ slot.conflicted

(* A line is bound only when every request that joined the miss agrees, and   *)
(* then to the record of the latest load among them, in whatever order they   *)
(* joined (reuse_bind_request_merge).                                         *)
BoundSound ==
    Bound => /\ Agree(merged)
             /\ \E in \in merged :
                  /\ slot.requestor = in.requestor
                  /\ SamePayload(slot, in)
                  /\ \A other \in merged : other.sequence <= in.sequence
             /\ \A in \in merged : in.sequence = slot.sequence => in.data = slot.data

(* And a line is not refused its record without reason: requests that agree,  *)
(* and among which a load has one record only, are bound.                     *)
BoundComplete ==
    merged # {} /\ Agree(merged) /\ OneRecordPerLoad(merged) => Bound
=============================================================================
