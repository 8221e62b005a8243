--------------------------- MODULE AuditTrailProofs ---------------------------
(***************************************************************************)
(* The contract of AuditTrail gives every audit a slot of its own, for     *)
(* every set of entities and bodies.                                       *)
(***************************************************************************)
EXTENDS AuditTrail, TLAPS

(* The invariant holds at first ... *)
LEMMA IInvInit == Init => IInv
  BY DEF Init, IInv, TypeOK, IssuedBound, HeldUnused, UniqueSlots

(* ... and issuing, burning, recording and losing keep it. *)
LEMMA IInvStep == IInv /\ [Next]_vars => IInv'
<1> SUFFICES ASSUME IInv, [Next]_vars
             PROVE  IInv'
  OBVIOUS
<1> USE DEF IInv, TypeOK, IssuedBound, HeldUnused, UniqueSlots, Slot, Audit
<1>1. ASSUME NEW e \in Entity, Issue(e) PROVE IInv'
  <2>1. \A a \in trail : Slot(a) # <<e, issued[e] + 1>>
    OBVIOUS
  <2>2. \A i \in Entity : issued'[i] \in Nat /\ issued'[i] >= issued[i]
    BY <1>1 DEF Issue
  <2> QED
    BY <1>1, <2>1, <2>2 DEF Issue
<1>2. ASSUME NEW e \in Entity, Burn(e) PROVE IInv'
  <2>1. \A i \in Entity : issued'[i] \in Nat /\ issued'[i] >= issued[i]
    BY <1>2 DEF Burn
  <2> QED
    BY <1>2, <2>1 DEF Burn
<1>3. ASSUME NEW s \in held, Lose(s) PROVE IInv'
  BY <1>3 DEF Lose
<1>4. ASSUME NEW s \in held, NEW b \in Body, Record(s, b) PROVE IInv'
  <2> DEFINE new == [id |-> s[1], version |-> s[2], body |-> b]
  <2>1. new \in Audit /\ Slot(new) = s
    OBVIOUS
  <2>2. \A a \in trail : Slot(a) # Slot(new)
    BY <2>1
  <2> QED
    BY <1>4, <2>1, <2>2 DEF Record
<1>5. CASE UNCHANGED vars
  BY <1>5 DEF vars
<1> QED
  BY <1>1, <1>2, <1>3, <1>4, <1>5 DEF Next

(* No two audits of an entity carry the same version, in every behaviour   *)
(* of an integration that takes its numbers from AuditStore.NextVersion    *)
(* and saves at most one record with each.                                 *)
THEOREM SlotsAreUnique == Spec => []UniqueSlots
<1>1. IInv => UniqueSlots
  BY DEF IInv
<1> QED
  BY IInvInit, IInvStep, <1>1, PTL DEF Spec
=============================================================================
