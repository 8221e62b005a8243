------------------------------ MODULE AuditTrail ------------------------------
(***************************************************************************)
(* What every integration of the library promises about the audit trail,   *)
(* whatever the store: each audited entity has its own sequence of version *)
(* numbers, a number is handed out once, and the audit that carries it is  *)
(* written at most once and never changed afterwards.  A number may be     *)
(* lost: the write that should have carried it failed, which leaves a gap  *)
(* and never a duplicate.                                                  *)
(*                                                                         *)
(* The detailed modules are shown to implement this one.                   *)
(***************************************************************************)
EXTENDS Naturals

CONSTANTS
    Entity,     \* the (auditable_type, auditable_id) pairs
    Body        \* what an audit says besides entity and version

VARIABLES
    issued,     \* issued[e]: the last number handed out for entity e
    held,       \* slots <<e, n>> handed out whose audit is not yet written
    trail       \* the audits written

vars == <<issued, held, trail>>

Audit == [id : Entity, version : Nat, body : Body]
Slot(a) == <<a.id, a.version>>

TypeOK ==
    /\ issued \in [Entity -> Nat]
    /\ held \in SUBSET (Entity \X Nat)
    /\ trail \in SUBSET Audit

Init ==
    /\ issued = [e \in Entity |-> 0]
    /\ held = {}
    /\ trail = {}

(* The next number of e is handed out. *)
Issue(e) ==
    /\ issued' = [issued EXCEPT ![e] = @ + 1]
    /\ held' = held \cup {<<e, issued[e] + 1>>}
    /\ UNCHANGED trail

(* The next number of e is consumed, but its requester never learns it. *)
Burn(e) ==
    /\ issued' = [issued EXCEPT ![e] = @ + 1]
    /\ UNCHANGED <<held, trail>>

(* The holder of a number writes the audit that carries it. *)
Record(s, b) ==
    /\ s \in held
    /\ held' = held \ {s}
    /\ trail' = trail \cup {[id |-> s[1], version |-> s[2], body |-> b]}
    /\ UNCHANGED issued

(* The holder of a number gives up: the trail keeps a gap there. *)
Lose(s) ==
    /\ s \in held
    /\ held' = held \ {s}
    /\ UNCHANGED <<issued, trail>>

Next ==
    \/ \E e \in Entity : Issue(e) \/ Burn(e)
    \/ \E s \in held : Lose(s) \/ \E b \in Body : Record(s, b)

Spec == Init /\ [][Next]_vars

-----------------------------------------------------------------------------
(* Every number in use, on the trail or in somebody's hands, was issued. *)
IssuedBound ==
    /\ \A a \in trail : a.version \in 1..issued[a.id]
    /\ \A s \in held : s[2] \in 1..issued[s[1]]

(* A number somebody still holds is on no audit. *)
HeldUnused == \A a \in trail : Slot(a) \notin held

(* No two audits of an entity carry the same version: the version numbers  *)
(* the changes of one history.                                             *)
UniqueSlots == \A a, b \in trail : Slot(a) = Slot(b) => a = b

(* What makes uniqueness inductive: a number handed out now is beyond the  *)
(* issued ones, and one about to be recorded is on no audit yet.           *)
IInv == TypeOK /\ IssuedBound /\ HeldUnused /\ UniqueSlots
===============================================================================
