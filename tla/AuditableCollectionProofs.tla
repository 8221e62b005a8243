---------------------- MODULE AuditableCollectionProofs ----------------------
(***************************************************************************)
(* AuditableCollection, for every value of its constants.  First its       *)
(* versions: type correctness, unique versions, the refinement of          *)
(* AuditTrail, and what gaps and retries need.  Then what a call promises  *)
(* its caller and the reader of the trail: errors that are reported, the   *)
(* order of versions, the documents that audits name, one audit per        *)
(* document, no silent gap, and a trail that replays its document.  Last   *)
(* what a call that runs alone is told by its pre-read, so that its audits *)
(* name what it wrote, and why a call takes finitely many steps.           *)
(***************************************************************************)
EXTENDS AuditableCollection, FiniteSetTheorems, FunctionTheorems, TLAPS

(* A call in progress has a number. *)
BusyCall == \A c \in Client : pc[c] # "idle" => cid[c] \in Call

TInv == TypeOK /\ BusyCall

-----------------------------------------------------------------------------
(* Type correctness *)

(* Control goes to a label or returns; either keeps the types. *)
LEMMA ControlTyped ==
    ASSUME TInv, NEW c \in Client, pc[c] # "idle",
           NEW o \in Outcome, NEW l \in PC,
           \/ Return(c, o) \/ Goto(c, l) \/ NextEntry(c) \/ AuditFails(c)
    PROVE  /\ pc' \in [Client -> PC]
           /\ outcome' \in [Call -> Outcome]
           /\ \A x \in Client \ {c} : pc'[x] = pc[x]
  BY DEF TInv, TypeOK, Return, Goto, NextEntry, AuditFails, PC, Outcome

(* The documents written get the call appended to their history, and the   *)
(* collection keeps its type.                                              *)
LEMMA WriteTyped ==
    ASSUME TInv, NEW c \in Client, pc[c] # "idle",
           NEW r \in Request, NEW D,
           coll' = Applied(r, D), Wrote(c, D)
    PROVE  coll' \in [DocId -> Content] /\ order' \in [DocId -> Seq(Call)]
  BY DEF TInv, TypeOK, BusyCall, Applied, Wrote, Request, Content

(* The elements of the loop are typed. *)
LEMMA EntriesTyped ==
    ASSUME TypeOK, NEW c \in Client
    PROVE  Entries(c) \in SUBSET Entry
<1> DEFINE r == req[c]
           content == IF r.op \in DeleteOps THEN Nil ELSE r.val
           found == {[doc |-> s.doc, before |-> s.before, after |-> content] :
                       s \in snap[c]}
<1>1. r.ids \subseteq DocId /\ content \in Content /\ Nil \in Content
  BY DEF TypeOK, Request, Content
<1>2. found \in SUBSET Entry
  <2>1. \A s \in snap[c] : s.doc \in DocId /\ s.before \in Content
    BY DEF TypeOK
  <2> QED
    BY <1>1, <2>1 DEF Entry
<1>3. {[doc |-> d, before |-> Nil, after |-> content] : d \in r.ids} \in SUBSET Entry
  BY <1>1 DEF Entry
<1>4. {[doc |-> NoDoc, before |-> Nil, after |-> content]} \in SUBSET Entry
  BY <1>1 DEF Entry
<1> QED
  BY <1>2, <1>3, <1>4 DEF Entries

(* So is the one taken next. *)
LEMMA ChosenTyped ==
    ASSUME TypeOK, NEW c \in Client, NEW e \in Chosen(c)
    PROVE  /\ e \in todo[c]
           /\ e \in Entry
  BY DEF TypeOK, Chosen

(* A number is assigned to the audit being written. *)
LEMMA CurTyped ==
    ASSUME TypeOK, NEW c \in Client
    PROVE  /\ CurId(c) \in AuditId
           /\ seq[CurId(c)] \in Nat
           /\ \A n \in Nat : Numbered(c, n) \in Pending
<1>1. cur[c] \in Pending /\ cur[c].doc \in DocId \cup {NoDoc}
  BY DEF TypeOK, Pending
<1>2. CurId(c) \in AuditId /\ seq[CurId(c)] \in Nat
  BY <1>1, IdStringAssumption DEF TypeOK, CurId
<1>3. \A n \in Nat : Numbered(c, n) \in Pending
  BY <1>1 DEF Pending, Numbered, Draft
<1> QED
  BY <1>2, <1>3

(* What is written is an audit. *)
LEMMA AuditTyped ==
    ASSUME TInv, NEW c \in Client, pc[c] # "idle"
    PROVE  AuditOf(c) \in Audit
<1>1. CurId(c) \in AuditId
  BY CurTyped DEF TInv
<1>2. cur[c].version \in Nat /\ cur[c].before \in Content
      /\ cur[c].after \in Content /\ cur[c].status \in {"inline", "deferred"}
  BY DEF TInv, TypeOK, Pending
<1>3. cid[c] \in Call
  BY DEF TInv, BusyCall
<1>4. ActionOf(req[c].op) \in Action
  BY DEF ActionOf, Action
<1> QED
  BY <1>1, <1>2, <1>3, <1>4 DEF AuditOf, Audit

(* The initial states are well typed. *)
LEMMA TypedInit == Init => TInv
<1> SUFFICES ASSUME Init PROVE TInv
  OBVIOUS
<1>1. NoRequest \in Request
  BY DEF NoRequest, Request, DeleteOps
<1>2. NoPending \in Pending
  BY DEF NoPending, Pending, Content
<1>3. TypeOK
  BY <1>1, <1>2, BoundAssumption DEF Init, TypeOK, PC, Call, Outcome
<1> QED
  BY <1>3 DEF TInv, BusyCall, Init

(* Each step keeps the types and leaves a busy call its number. *)
LEMMA TypedStep == TInv /\ [Next]_vars => TInv'
<1> SUFFICES ASSUME TInv, [Next]_vars PROVE TInv'
  OBVIOUS
<1> USE DEF TInv
<1>0. Outcome = {"none", "ok", "readerr", "operr", "auditerr", "crash"}
      /\ PC = {"idle", "read", "mutate", "compute", "alloc", "upsert", "persist"}
  BY DEF Outcome, PC
<1>1. CASE UNCHANGED vars
  BY <1>1 DEF TypeOK, BusyCall, vars, localVars, ghostVars
<1>2. ASSUME NEW c \in Client, NEW r \in Requests, Begin(c, r) PROVE TInv'
  <2>1. r \in Request
    BY RequestAssumption
  <2>2. calls + 1 \in Call /\ calls + 1 \in 0..MaxCalls
    BY <1>2, BoundAssumption DEF Begin, TypeOK, Call
  <2>3. NoPending \in Pending
    BY DEF NoPending, Pending, Content
  <2>4. pc' \in [Client -> PC] /\ UNCHANGED outcome
    BY <1>2, <1>0 DEF Begin, Goto, TypeOK
  <2>5. earlier' \in [Call -> SUBSET Call]
    BY <1>2, <2>2 DEF Begin, TypeOK
  <2> QED
    BY <1>2, <2>1, <2>2, <2>3, <2>4, <2>5 DEF Begin, TypeOK, BusyCall, Goto
<1>3. ASSUME NEW c \in Client, Read(c) PROVE TInv'
  <2>1. Found(req[c]) \subseteq DocId
    BY DEF TypeOK, Request, Found, Filtered, First
  <2>2. snap' \in [Client -> SUBSET [doc : DocId, before : Content]]
    BY <1>3, <2>1 DEF Read, TypeOK, Content
  <2>3. pc' \in [Client -> PC] /\ UNCHANGED outcome /\ BusyCall'
    BY <1>3, <1>0 DEF Read, Goto, TypeOK, BusyCall
  <2> QED
    BY <1>3, <2>2, <2>3 DEF Read, TypeOK
<1>4. ASSUME NEW c \in Client, Mutate(c) PROVE TInv'
  <2>1. pc[c] # "idle" /\ req[c] \in Request
    BY <1>4 DEF Mutate, TypeOK
  <2>2. coll' \in [DocId -> Content] /\ order' \in [DocId -> Seq(Call)]
    <3>1. CASE UNCHANGED <<coll, order>>
      BY <3>1 DEF TypeOK
    <3>2. CASE \E D : coll' = Applied(req[c], D) /\ Wrote(c, D)
      BY <3>2, <2>1, WriteTyped
    <3> QED
      BY <1>4, <3>1, <3>2 DEF Mutate, InsertDocs, ChangeDocs, ChangeNothing
  <2>3. todo' \in [Client -> SUBSET Entry]
    <3>1. Entries(c) \in SUBSET Entry
      BY EntriesTyped
    <3> QED
      BY <1>4, <3>1 DEF Mutate, InsertDocs, ChangeDocs, ChangeNothing, Succeed, TypeOK
  <2>4. pc' \in [Client -> PC] /\ outcome' \in [Call -> Outcome]
        /\ \A x \in Client \ {c} : pc'[x] = pc[x]
    BY <1>4, <2>1, <1>0, ControlTyped
       DEF Mutate, InsertDocs, ChangeDocs, ChangeNothing, Succeed
  <2> QED
    BY <1>4, <2>1, <2>2, <2>3, <2>4 DEF Mutate, TypeOK, BusyCall
<1>5. ASSUME NEW c \in Client, Compute(c) \/ ComputeFails(c) PROVE TInv'
  <2>1. pc[c] # "idle"
    BY <1>5 DEF Compute, ComputeFails
  <2>2. PICK e \in Chosen(c) :
          /\ todo' = [todo EXCEPT ![c] = @ \ {e}]
          /\ \/ \E st \in {"inline", "deferred"} :
                  StartAudit(c, e, st) /\ UNCHANGED reported
             \/ AuditFails(c) /\ UNCHANGED <<cur, attempt>>
             \/ NextEntry(c) /\ UNCHANGED <<cur, attempt, reported>>
    BY <1>5 DEF Compute, ComputeFails
  <2>3. e \in Entry
    BY ChosenTyped
  <2>4. pc' \in [Client -> PC] /\ outcome' \in [Call -> Outcome]
        /\ \A x \in Client \ {c} : pc'[x] = pc[x]
    BY <2>1, <2>2, <1>0, ControlTyped DEF StartAudit
  <2>5. cur' \in [Client -> Pending] /\ attempt' \in [Client -> 0..1]
    <3>1. \A st \in {"inline", "deferred"} : Draft(e, st, 0) \in Pending
      BY <2>3 DEF Draft, Pending, Entry
    <3>2. \/ UNCHANGED <<cur, attempt>>
          \/ \E st \in {"inline", "deferred"} :
               /\ cur' = [cur EXCEPT ![c] = Draft(e, st, 0)]
               /\ attempt' = [attempt EXCEPT ![c] = 0]
      BY <2>2 DEF StartAudit
    <3>3. cur \in [Client -> Pending] /\ attempt \in [Client -> 0..1]
      BY DEF TypeOK
    <3>4. \A p \in Pending : [cur EXCEPT ![c] = p] \in [Client -> Pending]
      BY <3>3
    <3> QED
      BY <3>1, <3>2, <3>3, <3>4
  <2>6. reported' \in SUBSET Call
    BY <2>1, <2>2 DEF AuditFails, HandleError, TypeOK, BusyCall
  <2>7. todo' \in [Client -> SUBSET Entry]
    BY <2>2 DEF TypeOK
  <2>8. faults' \in 0..MaxFaults
    BY <1>5, BoundAssumption DEF Compute, ComputeFails, Fault, TypeOK
  <2>9. UNCHANGED <<coll, seq, audits, req, cid, snap, calls, order, earlier>>
    BY <1>5 DEF Compute, ComputeFails
  <2> QED
    BY <2>1, <2>4, <2>5, <2>6, <2>7, <2>8, <2>9 DEF TypeOK, BusyCall
<1>6. ASSUME NEW c \in Client, Alloc(c) \/ Upsert(c) \/ AllocFails(c) PROVE TInv'
  <2>1. pc[c] # "idle"
    BY <1>6 DEF Alloc, Upsert, AllocFails
  <2>2. CurId(c) \in AuditId /\ seq[CurId(c)] \in Nat
        /\ \A n \in Nat : Numbered(c, n) \in Pending
    BY CurTyped
  <2>3. seq' \in [AuditId -> Nat]
    <3>1. seq' \in {seq, [seq EXCEPT ![CurId(c)] = seq[CurId(c)] + 1],
                    [seq EXCEPT ![CurId(c)] = 1]}
      BY <1>6 DEF Alloc, Upsert, AllocFails
    <3> QED
      BY <3>1, <2>2 DEF TypeOK
  <2>4. cur' \in [Client -> Pending] /\ attempt' \in [Client -> 0..1]
    <3>1. \/ UNCHANGED cur
          \/ \E n \in Nat : cur' = [cur EXCEPT ![c] = Numbered(c, n)]
      BY <1>6, <2>2 DEF Alloc, Upsert, AllocFails
    <3>2. UNCHANGED attempt \/ attempt' = [attempt EXCEPT ![c] = 1]
      BY <1>6 DEF Alloc, Upsert, AllocFails
    <3>3. cur \in [Client -> Pending] /\ attempt \in [Client -> 0..1]
      BY DEF TypeOK
    <3>4. \A p \in Pending : [cur EXCEPT ![c] = p] \in [Client -> Pending]
      BY <3>3
    <3> QED
      BY <3>1, <3>2, <3>3, <3>4, <2>2
  <2>5. pc' \in [Client -> PC] /\ outcome' \in [Call -> Outcome]
        /\ \A x \in Client \ {c} : pc'[x] = pc[x]
    BY <1>6, <2>1, <1>0, ControlTyped DEF Alloc, Upsert, AllocFails
  <2>6. reported' \in SUBSET Call
    BY <1>6, <2>1 DEF Alloc, Upsert, AllocFails, AuditFails, HandleError, TypeOK, BusyCall
  <2>7. faults' \in 0..MaxFaults
    BY <1>6, BoundAssumption DEF Alloc, Upsert, AllocFails, Fault, TypeOK
  <2>8. UNCHANGED <<coll, audits, req, cid, snap, todo, calls, order, earlier>>
    BY <1>6 DEF Alloc, Upsert, AllocFails
  <2> QED
    BY <2>1, <2>3, <2>4, <2>5, <2>6, <2>7, <2>8 DEF TypeOK, BusyCall
<1>7. ASSUME NEW c \in Client, Persist(c) \/ PersistFails(c) PROVE TInv'
  <2>1. pc[c] # "idle"
    BY <1>7 DEF Persist, PersistFails
  <2>2. audits' \in SUBSET Audit
    BY <1>7, <2>1, AuditTyped DEF Persist, PersistFails, TypeOK
  <2>3. pc' \in [Client -> PC] /\ outcome' \in [Call -> Outcome]
        /\ \A x \in Client \ {c} : pc'[x] = pc[x]
    BY <1>7, <2>1, <1>0, ControlTyped DEF Persist, PersistFails
  <2>4. reported' \in SUBSET Call
    BY <1>7, <2>1 DEF Persist, PersistFails, AuditFails, HandleError, TypeOK, BusyCall
  <2>5. faults' \in 0..MaxFaults
    BY <1>7, BoundAssumption DEF Persist, PersistFails, Fault, TypeOK
  <2>6. UNCHANGED <<coll, seq, req, cid, snap, todo, cur, attempt, calls, order, earlier>>
    BY <1>7 DEF Persist, PersistFails
  <2> QED
    BY <2>1, <2>2, <2>3, <2>4, <2>5, <2>6 DEF TypeOK, BusyCall
<1>8. ASSUME NEW c \in Client, ReadFails(c) \/ MutateFails(c) \/ Crash(c) PROVE TInv'
  <2>1. pc[c] # "idle" /\ req[c] \in Request
    BY <1>8 DEF ReadFails, MutateFails, Crash, TypeOK
  <2>2. coll' \in [DocId -> Content] /\ order' \in [DocId -> Seq(Call)]
    <3>1. CASE UNCHANGED <<coll, order>>
      BY <3>1 DEF TypeOK
    <3>2. CASE \E D : coll' = Applied(req[c], D) /\ Wrote(c, D)
      BY <3>2, <2>1, WriteTyped
    <3> QED
      BY <1>8, <3>1, <3>2 DEF ReadFails, MutateFails, Crash
  <2>3. pc' \in [Client -> PC] /\ outcome' \in [Call -> Outcome]
        /\ \A x \in Client \ {c} : pc'[x] = pc[x]
    BY <1>8, <2>1, <1>0, ControlTyped DEF ReadFails, MutateFails, Crash
  <2>4. reported' \in SUBSET Call
    BY <1>8, <2>1 DEF ReadFails, MutateFails, Crash, HandleError, TypeOK, BusyCall
  <2>5. faults' \in 0..MaxFaults
    BY <1>8, BoundAssumption DEF ReadFails, MutateFails, Crash, Fault, TypeOK
  <2>6. UNCHANGED <<seq, audits, req, cid, localVars, calls, earlier>>
    BY <1>8 DEF ReadFails, MutateFails, Crash
  <2> QED
    BY <2>1, <2>2, <2>3, <2>4, <2>5, <2>6 DEF TypeOK, BusyCall, localVars
<1> QED
  BY <1>1, <1>2, <1>3, <1>4, <1>5, <1>6, <1>7, <1>8 DEF Next, Step, Failure

(* Every reachable state is well typed. *)
THEOREM TypeCorrect == Spec => []TypeOK
<1>1. Spec => []TInv
  BY TypedInit, TypedStep, PTL DEF Spec
<1>2. TInv => TypeOK
  BY DEF TInv
<1> QED
  BY <1>1, <1>2, PTL

-----------------------------------------------------------------------------
(* What a step does to numbers and audits *)

HeldSlot(c) == <<CurId(c), cur[c].version>>

(* The other clients keep the numbers they hold. *)
OthersKeep(c) == \A x \in Client \ {c} : pc'[x] = pc[x] /\ cur'[x] = cur[x]

(* c has no number after the step, and none was issued: it had none, or    *)
(* lost it.                                                                *)
Quiet(c) == UNCHANGED <<seq, audits>> /\ OthersKeep(c) /\ pc'[c] # "persist"

(* The next number of the current document is issued to c. *)
Allocates(c) ==
    /\ pc[c] # "persist" /\ pc'[c] = "persist"
    /\ seq' = [seq EXCEPT ![CurId(c)] = seq[CurId(c)] + 1]
    /\ cur'[c] = Numbered(c, seq[CurId(c)] + 1)
    /\ UNCHANGED audits
    /\ OthersKeep(c)

(* The next number is issued and its answer lost. *)
Burns(c) ==
    /\ pc[c] # "persist" /\ pc'[c] # "persist"
    /\ seq' = [seq EXCEPT ![CurId(c)] = seq[CurId(c)] + 1]
    /\ UNCHANGED audits
    /\ OthersKeep(c)

(* c writes the audit that carries its number. *)
Records(c) ==
    /\ pc[c] = "persist" /\ pc'[c] # "persist"
    /\ audits' = audits \cup {AuditOf(c)}
    /\ UNCHANGED seq
    /\ OthersKeep(c)

(* Control never gets to "persist" but by Goto from Alloc or Upsert. *)
LEMMA ControlKeepsOthers ==
    ASSUME TInv, NEW c \in Client, pc[c] # "idle", NEW o, NEW l,
           \/ Return(c, o)
           \/ Goto(c, l) /\ l # "persist"
           \/ NextEntry(c)
           \/ AuditFails(c)
    PROVE  pc'[c] # "persist" /\ \A x \in Client \ {c} : pc'[x] = pc[x]
  BY DEF TInv, TypeOK, Return, Goto, NextEntry, AuditFails

(* The loop goes on or returns; no number is held then, and no other client moves. *)
LEMMA NextKeepsOthers ==
    ASSUME TInv, NEW c \in Client, pc[c] # "idle", NextEntry(c) \/ AuditFails(c)
    PROVE  pc'[c] # "persist" /\ \A x \in Client \ {c} : pc'[x] = pc[x]
  BY DEF TInv, TypeOK, Return, Goto, NextEntry, AuditFails

(* Every step of the specification is of one of these kinds. *)
LEMMA StepKinds ==
    ASSUME TInv, NEW c \in Client,
           (\E r \in Requests : Begin(c, r)) \/ Step(c) \/ Failure(c)
    PROVE  Quiet(c) \/ Allocates(c) \/ Burns(c) \/ Records(c)
<1> USE DEF TInv
<1>a. pc \in [Client -> PC] /\ cur \in [Client -> Pending]
  BY DEF TypeOK
<1>1. ASSUME NEW r \in Requests, Begin(c, r) PROVE Quiet(c)
  BY <1>1, <1>a DEF Begin, Goto, Quiet, OthersKeep
<1>2. CASE Read(c) \/ ReadFails(c) \/ Mutate(c) \/ MutateFails(c) \/ Crash(c)
  <2>1. UNCHANGED <<seq, audits, cur>> /\ pc[c] # "idle"
    BY <1>2 DEF Read, ReadFails, Mutate, MutateFails, Crash, localVars
  <2>2. pc'[c] # "persist" /\ \A x \in Client \ {c} : pc'[x] = pc[x]
    BY <1>2, <2>1, ControlKeepsOthers
       DEF Read, ReadFails, Mutate, MutateFails, Crash, InsertDocs, ChangeDocs,
           ChangeNothing, Succeed
  <2> QED
    BY <2>1, <2>2 DEF Quiet, OthersKeep
<1>3. CASE Compute(c) \/ ComputeFails(c)
  <2>1. UNCHANGED <<seq, audits>> /\ pc[c] # "idle"
    BY <1>3 DEF Compute, ComputeFails
  <2>2. pc'[c] # "persist" /\ \A x \in Client \ {c} : pc'[x] = pc[x]
    BY <1>3, <2>1, ControlKeepsOthers DEF Compute, ComputeFails, StartAudit
  <2>3. \A x \in Client \ {c} : cur'[x] = cur[x]
    BY <1>3, <1>a DEF Compute, ComputeFails, StartAudit
  <2> QED
    BY <2>1, <2>2, <2>3 DEF Quiet, OthersKeep
<1>4. CASE Alloc(c)
  <2>1. CASE seq[CurId(c)] = 0
    <3>1. Goto(c, "upsert") /\ UNCHANGED <<seq, cur, audits>> /\ pc[c] # "idle"
      BY <1>4, <2>1 DEF Alloc
    <3> QED
      BY <3>1, ControlKeepsOthers DEF Quiet, OthersKeep
  <2>2. CASE seq[CurId(c)] # 0
    BY <1>4, <2>2, <1>a DEF Alloc, Goto, Allocates, OthersKeep
  <2> QED
    BY <2>1, <2>2
<1>5. CASE Upsert(c)
  <2>1. CASE seq[CurId(c)] = 0
    BY <1>5, <2>1, <1>a DEF Upsert, Goto, Allocates, OthersKeep
  <2>2. CASE seq[CurId(c)] # 0
    <3>1. UNCHANGED <<seq, cur, audits>> /\ pc[c] # "idle"
          /\ (Goto(c, "alloc") \/ AuditFails(c))
      BY <1>5, <2>2 DEF Upsert
    <3> QED
      BY <3>1, ControlKeepsOthers DEF Quiet, OthersKeep
  <2> QED
    BY <2>1, <2>2
<1>6. CASE AllocFails(c)
  <2>1. /\ UNCHANGED <<cur, audits>>
        /\ pc[c] # "idle" /\ pc[c] # "persist"
        /\ AuditFails(c)
        /\ UNCHANGED seq \/ seq' = [seq EXCEPT ![CurId(c)] = seq[CurId(c)] + 1]
    BY <1>6 DEF AllocFails
  <2>2. pc'[c] # "persist" /\ \A x \in Client \ {c} : pc'[x] = pc[x]
    BY <2>1, NextKeepsOthers
  <2> QED
    BY <2>1, <2>2 DEF Quiet, Burns, OthersKeep
<1>7. CASE Persist(c) \/ PersistFails(c)
  <2>1. /\ pc[c] = "persist"
        /\ UNCHANGED <<seq, cur>>
        /\ UNCHANGED audits \/ audits' = audits \cup {AuditOf(c)}
        /\ NextEntry(c) \/ AuditFails(c)
    BY <1>7 DEF Persist, PersistFails
  <2>2. pc'[c] # "persist" /\ \A x \in Client \ {c} : pc'[x] = pc[x]
    BY <2>1, NextKeepsOthers
  <2> QED
    BY <2>1, <2>2 DEF Quiet, Records, OthersKeep
<1> QED
  BY <1>1, <1>2, <1>3, <1>4, <1>5, <1>6, <1>7 DEF Step, Failure

-----------------------------------------------------------------------------
(* Uniqueness of versions *)

HoldsNumber(c) == pc[c] = "persist"

(* Numbers on the trail or held were issued, no held number is on the      *)
(* trail, and no two clients hold the same.  UniqueVersions is not         *)
(* inductive without it: a step that records a held number must know that  *)
(* nobody recorded it before.                                              *)
NumberInv ==
    /\ \A a \in audits : a.version <= seq[a.id]
    /\ \A c \in Client : HoldsNumber(c) =>
         /\ cur[c].version <= seq[CurId(c)]
         /\ \A a \in audits : Slot(a) # HeldSlot(c)
         /\ \A x \in Client \ {c} : HoldsNumber(x) => HeldSlot(x) # HeldSlot(c)
    /\ UniqueVersions

IInv == TInv /\ NumberInv

(* No number is in use at first. *)
LEMMA NumberInit == Init => NumberInv
  BY DEF Init, NumberInv, HoldsNumber, UniqueVersions

(* Each kind of step keeps the numbers apart. *)
LEMMA NumberStep ==
    ASSUME TInv, TInv', NumberInv, NEW c \in Client,
           Quiet(c) \/ Allocates(c) \/ Burns(c) \/ Records(c)
    PROVE  NumberInv'
<1>a. /\ seq \in [AuditId -> Nat]
      /\ \A a \in audits : a.id \in AuditId /\ a.version \in Nat
      /\ \A x \in Client : CurId(x) \in AuditId /\ cur[x].version \in Nat
  BY CurTyped DEF TInv, TypeOK, Audit, Pending
<1>b. \A x \in Client \ {c} :
        /\ OthersKeep(c) => HoldsNumber(x)' = HoldsNumber(x)
        /\ OthersKeep(c) => CurId(x)' = CurId(x) /\ cur'[x].version = cur[x].version
        /\ OthersKeep(c) => HeldSlot(x)' = HeldSlot(x)
  BY DEF OthersKeep, HoldsNumber, CurId, HeldSlot
<1>1. CASE Quiet(c)
  BY <1>1, <1>b DEF Quiet, NumberInv, HoldsNumber, UniqueVersions, Slot
<1>2. CASE seq' = [seq EXCEPT ![CurId(c)] = seq[CurId(c)] + 1] /\ OthersKeep(c)
           /\ UNCHANGED audits /\ (Allocates(c) \/ Burns(c))
  <2>1. \A i \in AuditId : seq[i] \in Nat /\ seq'[i] \in Nat /\ seq[i] <= seq'[i]
    BY <1>2, <1>a
  <2>2. \A a \in audits : a.version <= seq'[a.id]
    BY <2>1, <1>a DEF NumberInv
  <2>3. ASSUME NEW x \in Client \ {c}, HoldsNumber(x)
        PROVE  /\ cur[x].version <= seq'[CurId(x)]
               /\ \A a \in audits : Slot(a) # HeldSlot(x)
    BY <2>1, <2>3, <1>a DEF NumberInv
  <2>4. ASSUME HoldsNumber(c)'
        PROVE  /\ CurId(c)' = CurId(c) /\ cur'[c].version = seq[CurId(c)] + 1
               /\ HeldSlot(c)' = <<CurId(c), seq[CurId(c)] + 1>>
               /\ cur'[c].version <= seq'[CurId(c)]
    BY <1>2, <2>4, <1>a DEF Allocates, Burns, HoldsNumber, CurId, Numbered, Draft, HeldSlot
  <2>5. ASSUME HoldsNumber(c)' PROVE \A a \in audits : Slot(a) # HeldSlot(c)'
    BY <2>4, <2>5, <1>a DEF NumberInv, Slot
  <2>6. ASSUME HoldsNumber(c)', NEW x \in Client \ {c}, HoldsNumber(x)
        PROVE  HeldSlot(x) # HeldSlot(c)'
    BY <2>4, <2>6, <1>a DEF NumberInv, HeldSlot
  <2>7. ASSUME NEW x \in Client, HoldsNumber(x)'
        PROVE  /\ cur'[x].version <= seq'[CurId(x)']
               /\ \A a \in audits' : Slot(a) # HeldSlot(x)'
               /\ \A y \in Client \ {x} : HoldsNumber(y)' => HeldSlot(y)' # HeldSlot(x)'
    <3>1. CASE x = c
      BY <1>2, <1>b, <2>4, <2>5, <2>6, <2>7, <3>1
    <3>2. CASE x # c
      BY <1>2, <1>b, <2>3, <2>6, <2>7, <3>2 DEF NumberInv
    <3> QED
      BY <3>1, <3>2
  <2> QED
    BY <1>2, <2>2, <2>7 DEF NumberInv, UniqueVersions, Slot
<1>3. CASE Records(c)
  <2>1. HoldsNumber(c) /\ ~HoldsNumber(c)' /\ UNCHANGED seq /\ OthersKeep(c)
        /\ audits' = audits \cup {AuditOf(c)}
    BY <1>3 DEF Records, HoldsNumber
  <2>2. Slot(AuditOf(c)) = HeldSlot(c) /\ AuditOf(c).id = CurId(c)
        /\ AuditOf(c).version = cur[c].version
    BY DEF Slot, AuditOf, HeldSlot
  <2>3. \A a \in audits' : a.version <= seq'[a.id]
    BY <2>1, <2>2 DEF NumberInv
  <2>4. UniqueVersions'
    BY <2>1, <2>2 DEF NumberInv, UniqueVersions, Slot
  <2>5. ASSUME NEW x \in Client \ {c}, HoldsNumber(x)
        PROVE  \A a \in audits' : Slot(a) # HeldSlot(x)
    BY <2>1, <2>2, <2>5 DEF NumberInv
  <2> QED
    BY <1>b, <2>1, <2>3, <2>4, <2>5 DEF NumberInv
<1> QED
  BY <1>1, <1>2, <1>3 DEF Allocates, Burns

(* ... and every step keeps it. *)
LEMMA InvariantStep == IInv /\ [Next]_vars => IInv'
<1> SUFFICES ASSUME IInv, [Next]_vars PROVE IInv'
  OBVIOUS
<1>1. TInv'
  BY TypedStep DEF IInv
<1>2. CASE UNCHANGED vars
  BY <1>1, <1>2 DEF IInv, NumberInv, HoldsNumber, HeldSlot, CurId, UniqueVersions,
     Slot, vars, localVars
<1>3. CASE Next
  BY <1>1, <1>3, StepKinds, NumberStep DEF IInv, Next
<1> QED
  BY <1>2, <1>3

(* The inductive invariant holds in every reachable state. *)
LEMMA Invariant == Spec => []IInv
<1>1. Init => IInv
  BY TypedInit, NumberInit DEF IInv
<1> QED
  BY <1>1, InvariantStep, PTL DEF Spec

(* No two audits of one document carry the same version, for any number of *)
(* clients, calls and failures, and any ids that print alike.              *)
THEOREM VersionsAreUnique == Spec => []UniqueVersions
<1>1. IInv => UniqueVersions
  BY DEF IInv, NumberInv
<1> QED
  BY <1>1, Invariant, PTL

-----------------------------------------------------------------------------
(* AuditableCollection implements AuditTrail *)

Recorded == {Split(a) : a \in audits}

(* Held is the set of the slots of those who hold a number. *)
LEMMA HeldIsWhatClientsHold ==
    Held = {HeldSlot(x) : x \in {y \in Client : HoldsNumber(y)}}
  BY DEF Held, HeldSlot, HoldsNumber

(* How the set of held slots follows the number of the client that moves. *)
LEMMA HeldStep ==
    ASSUME IInv, NEW c \in Client, OthersKeep(c)
    PROVE  Held' = (IF HoldsNumber(c) THEN Held \ {HeldSlot(c)} ELSE Held)
                   \cup (IF HoldsNumber(c)' THEN {HeldSlot(c)'} ELSE {})
<1>1. \A x \in Client \ {c} :
        /\ HoldsNumber(x)' = HoldsNumber(x)
        /\ HeldSlot(x)' = HeldSlot(x)
  BY DEF OthersKeep, HoldsNumber, HeldSlot, CurId
<1>2. Held = {HeldSlot(x) : x \in {y \in Client : HoldsNumber(y)}}
  BY HeldIsWhatClientsHold
<1>3. Held' = {HeldSlot(x)' : x \in {y \in Client : HoldsNumber(y)'}}
  BY DEF Held, HeldSlot, HoldsNumber
<1>4. \A x \in Client \ {c} :
        HoldsNumber(x) /\ HoldsNumber(c) => HeldSlot(x) # HeldSlot(c)
  BY DEF IInv, NumberInv
<1> QED
  BY <1>1, <1>2, <1>3, <1>4

(* An audit of the detailed model is one of the abstract trail. *)
LEMMA SplitAudit ==
    ASSUME TInv, NEW c \in Client, pc[c] # "idle"
    PROVE  \E b \in Body :
             Split(AuditOf(c)) = [id |-> HeldSlot(c)[1], version |-> HeldSlot(c)[2],
                                  body |-> b]
<1> DEFINE a == AuditOf(c)
           b == [action |-> a.action, before |-> a.before, after |-> a.after,
                 status |-> a.status, call |-> a.call]
<1>1. b \in Body
  BY AuditTyped DEF Audit, Body
<1>2. a.id = HeldSlot(c)[1] /\ a.version = HeldSlot(c)[2]
  BY DEF AuditOf, HeldSlot
<1> QED
  BY <1>1, <1>2 DEF Split

(* Every step is a step of the abstract trail, or changes nothing of it. *)
LEMMA TrailStep == IInv /\ [Next]_vars => [Trail!Next]_(Trail!vars)
<1> SUFFICES ASSUME IInv, [Next]_vars PROVE [Trail!Next]_(Trail!vars)
  OBVIOUS
<1>1. CASE UNCHANGED vars
  BY <1>1 DEF vars, localVars, Trail!vars, Held, CurId
<1>2. ASSUME NEW c \in Client, Quiet(c) PROVE [Trail!Next]_(Trail!vars)
  <2>1. Held' = IF HoldsNumber(c) THEN Held \ {HeldSlot(c)} ELSE Held
    BY <1>2, HeldStep DEF Quiet, HoldsNumber
  <2>2. UNCHANGED <<seq, Recorded>>
    BY <1>2 DEF Quiet, Recorded
  <2>3. CASE HoldsNumber(c)
    <3>1. HeldSlot(c) \in Held
      BY <2>3, HeldIsWhatClientsHold
    <3>2. Trail!Lose(HeldSlot(c))
      BY <2>1, <2>2, <2>3, <3>1 DEF Trail!Lose, Recorded
    <3> QED
      BY <3>1, <3>2 DEF Trail!Next
  <2>4. CASE ~HoldsNumber(c)
    BY <2>1, <2>2, <2>4 DEF Trail!vars, Recorded
  <2> QED
    BY <2>3, <2>4
<1>3. ASSUME NEW c \in Client, Allocates(c) \/ Burns(c) PROVE Trail!Next
  <2>1. CurId(c) \in AuditId
    BY CurTyped DEF IInv, TInv
  <2>2. UNCHANGED Recorded /\ seq' = [seq EXCEPT ![CurId(c)] = seq[CurId(c)] + 1]
    BY <1>3 DEF Allocates, Burns, Recorded
  <2>3. CASE Allocates(c)
    <3>1. CurId(c)' = CurId(c) /\ cur'[c].version = seq[CurId(c)] + 1
      BY <2>3 DEF Allocates, CurId, Numbered, Draft
    <3>2. Held' = Held \cup {<<CurId(c), seq[CurId(c)] + 1>>}
      BY <2>3, <3>1, HeldStep DEF Allocates, HoldsNumber, HeldSlot
    <3>3. Trail!Issue(CurId(c))
      BY <2>2, <3>2 DEF Trail!Issue, Recorded
    <3> QED
      BY <2>1, <3>3 DEF Trail!Next
  <2>4. CASE Burns(c)
    <3>1. Held' = Held
      BY <2>4, HeldStep DEF Burns, HoldsNumber
    <3>2. Trail!Burn(CurId(c))
      BY <2>2, <3>1 DEF Trail!Burn, Recorded
    <3> QED
      BY <2>1, <3>2 DEF Trail!Next
  <2> QED
    BY <1>3, <2>3, <2>4
<1>4. ASSUME NEW c \in Client, Records(c) PROVE Trail!Next
  <2>1. HeldSlot(c) \in Held
    BY <1>4, HeldIsWhatClientsHold DEF Records, HoldsNumber
  <2>2. Held' = Held \ {HeldSlot(c)}
    BY <1>4, HeldStep DEF Records, HoldsNumber
  <2>3. Recorded' = Recorded \cup {Split(AuditOf(c))} /\ UNCHANGED seq
    BY <1>4 DEF Records, Recorded
  <2>4. PICK b \in Body :
          Split(AuditOf(c)) = [id |-> HeldSlot(c)[1], version |-> HeldSlot(c)[2],
                               body |-> b]
    BY <1>4, SplitAudit DEF Records, IInv
  <2>5. Trail!Record(HeldSlot(c), b)
    BY <2>1, <2>2, <2>3, <2>4 DEF Trail!Record, Recorded
  <2> QED
    BY <2>1, <2>5 DEF Trail!Next
<1>5. CASE Next
  <2>1. PICK c \in Client : (\E r \in Requests : Begin(c, r)) \/ Step(c) \/ Failure(c)
    BY <1>5 DEF Next
  <2>2. Quiet(c) \/ Allocates(c) \/ Burns(c) \/ Records(c)
    BY <2>1, StepKinds DEF IInv
  <2> QED
    BY <2>2, <1>2, <1>3, <1>4
<1> QED
  BY <1>1, <1>5

(* The wrapper keeps the promise of AuditTrail: each number is issued      *)
(* once, and carried by at most one audit, which never changes.            *)
THEOREM ImplementsAuditTrail == Spec => TrailSpec
<1>1. Init => Trail!Init
  BY DEF Init, Trail!Init, Held
<1> QED
  BY <1>1, Invariant, TrailStep, PTL DEF Spec, TrailSpec, Trail!Spec

-----------------------------------------------------------------------------
(* Gaps *)

Allocated == UNION {{<<i, n>> : n \in 1..seq[i]} : i \in AuditId}
Slots == {Slot(a) : a \in audits}
Missing == Allocated \ (Held \cup Slots)

GapInv == IsFiniteSet(Missing) /\ Cardinality(Missing) <= faults

GInv == IInv /\ GapInv

(* A number is lost, or issued to nobody, by a failure only. *)
LEMMA LossNeedsFault ==
    ASSUME IInv, NEW c \in Client, Step(c) \/ Failure(c)
    PROVE  /\ faults' \in {faults, faults + 1}
           /\ (Quiet(c) /\ HoldsNumber(c)) \/ Burns(c) => faults' = faults + 1
<1>1. faults' = faults \/ Fault
  BY DEF Step, Failure, Read, Mutate, Compute, Alloc, Upsert, Persist, ReadFails,
         MutateFails, ComputeFails, AllocFails, PersistFails, Crash
<1>2. Failure(c) => Fault
  BY DEF Failure, ReadFails, MutateFails, ComputeFails, AllocFails, PersistFails, Crash
<1>3. ASSUME Step(c), HoldsNumber(c) PROVE ~Quiet(c)
  <2>1. audits' = audits \cup {AuditOf(c)}
    BY <1>3 DEF Step, HoldsNumber, Read, Mutate, Compute, Alloc, Upsert, Persist
  <2>2. AuditOf(c) \notin audits
    BY <1>3 DEF IInv, NumberInv, Slot, HeldSlot, AuditOf
  <2> QED BY <2>1, <2>2 DEF Quiet
<1>4. ASSUME Step(c), Burns(c) PROVE FALSE
  <2>a. pc \in [Client -> PC]
    BY DEF IInv, TInv, TypeOK
  <2>b. seq[CurId(c)] \in Nat /\ CurId(c) \in AuditId /\ seq \in [AuditId -> Nat]
    BY CurTyped DEF IInv, TInv, TypeOK
  <2>1. seq' # seq
    BY <1>4, <2>b DEF Burns
  <2>2. pc'[c] = "persist"
    BY <1>4, <2>1, <2>a DEF Step, Read, Mutate, Compute, Alloc, Upsert, Persist, Goto
  <2> QED BY <1>4, <2>2 DEF Burns
<1> QED
  BY <1>1, <1>2, <1>3, <1>4 DEF Fault

(* What is missing grows by a number at a failure. *)
LEMMA MissingStep ==
    ASSUME IInv, NEW c \in Client, Step(c) \/ Failure(c)
    PROVE  \/ Missing' \subseteq Missing
           \/ faults' = faults + 1 /\ \E p : Missing' \subseteq Missing \cup {p}
<1>a. /\ seq \in [AuditId -> Nat] /\ CurId(c) \in AuditId
  BY CurTyped DEF IInv, TInv, TypeOK
<1>b. Quiet(c) \/ Allocates(c) \/ Burns(c) \/ Records(c)
  BY StepKinds DEF IInv
<1>c. Held' = (IF HoldsNumber(c) THEN Held \ {HeldSlot(c)} ELSE Held)
              \cup (IF HoldsNumber(c)' THEN {HeldSlot(c)'} ELSE {})
  BY <1>b, HeldStep DEF Quiet, Allocates, Burns, Records
<1>1. CASE Quiet(c)
  <2>1. Allocated' = Allocated /\ Slots' = Slots
    BY <1>1 DEF Quiet, Allocated, Slots, Slot
  <2>2. ~HoldsNumber(c)'
    BY <1>1 DEF Quiet, HoldsNumber
  <2>3. CASE HoldsNumber(c)
    <3>1. Missing' \subseteq Missing \cup {HeldSlot(c)}
      BY <1>c, <2>1, <2>2, <2>3 DEF Missing
    <3> QED BY <1>1, <2>3, <3>1, LossNeedsFault
  <2>4. CASE ~HoldsNumber(c)
    BY <1>c, <2>1, <2>2, <2>4 DEF Missing
  <2> QED BY <2>3, <2>4
<1>2. CASE Allocates(c) \/ Burns(c)
  <2> DEFINE p == <<CurId(c), seq[CurId(c)] + 1>>
  <2>1. seq' = [seq EXCEPT ![CurId(c)] = seq[CurId(c)] + 1] /\ UNCHANGED audits
        /\ ~HoldsNumber(c)
    BY <1>2 DEF Allocates, Burns, HoldsNumber
  <2>2. Allocated' \subseteq Allocated \cup {p}
    <3> SUFFICES ASSUME NEW i \in AuditId, NEW n \in 1..seq'[i], <<i, n>> # p
                 PROVE  n \in 1..seq[i]
      BY DEF Allocated
    <3>1. seq[i] \in Nat /\ seq'[i] = IF i = CurId(c) THEN seq[i] + 1 ELSE seq[i]
      BY <1>a, <2>1
    <3> QED BY <3>1
  <2>3. Slots' = Slots /\ Held \subseteq Held'
    BY <1>c, <2>1 DEF Slots, Slot
  <2>4. CASE Burns(c)
    BY <2>2, <2>3, <2>4, LossNeedsFault DEF Missing
  <2>5. CASE Allocates(c)
    <3>1. HoldsNumber(c)' /\ HeldSlot(c)' = p
      BY <2>5 DEF Allocates, HoldsNumber, HeldSlot, CurId, Numbered, Draft
    <3> QED BY <1>c, <2>2, <2>3, <3>1 DEF Missing
  <2> QED BY <1>2, <2>4, <2>5
<1>3. CASE Records(c)
  <2>1. /\ HoldsNumber(c) /\ ~HoldsNumber(c)' /\ audits' = audits \cup {AuditOf(c)}
        /\ Allocated' = Allocated
    BY <1>3 DEF Records, HoldsNumber, Allocated
  <2>2. Slots' = Slots \cup {HeldSlot(c)}
    <3>1. Slot(AuditOf(c)) = HeldSlot(c)
      BY DEF Slot, AuditOf, HeldSlot
    <3>2. Slots' = {Slot(a) : a \in audits'}
      BY DEF Slots, Slot
    <3> QED BY <2>1, <3>1, <3>2 DEF Slots
  <2> QED BY <1>c, <2>1, <2>2 DEF Missing
<1> QED
  BY <1>b, <1>1, <1>2, <1>3

(* Each step keeps the count. *)
LEMMA GapNext == GInv /\ [Next]_vars => GInv'
<1> SUFFICES ASSUME GInv, [Next]_vars PROVE GInv'
  OBVIOUS
<1>1. IInv'
  BY InvariantStep DEF GInv
<1>2. faults \in Nat
  BY BoundAssumption DEF GInv, IInv, TInv, TypeOK
<1>3. CASE UNCHANGED vars \/ \E c \in Client, r \in Requests : Begin(c, r)
  <2>1. UNCHANGED <<seq, audits, faults>>
    BY <1>3 DEF vars, Begin
  <2>2. Held' = Held
    <3>1. CASE UNCHANGED vars
      BY <3>1 DEF vars, localVars, Held, CurId
    <3>2. ASSUME NEW c \in Client, NEW r \in Requests, Begin(c, r) PROVE Held' = Held
      <4>1. Quiet(c) /\ ~HoldsNumber(c)
        BY <3>2 DEF Begin, Goto, Quiet, OthersKeep, HoldsNumber, GInv, IInv, TInv, TypeOK
      <4> QED BY <4>1, HeldStep DEF Quiet, HoldsNumber, GInv
    <3> QED BY <1>3, <3>1, <3>2
  <2>3. Missing' = Missing
    BY <2>1, <2>2 DEF Missing, Allocated, Slots, Slot
  <2> QED BY <1>1, <2>1, <2>3 DEF GInv, GapInv
<1>4. ASSUME NEW c \in Client, Step(c) \/ Failure(c) PROVE GInv'
  <2>1. faults' \in {faults, faults + 1}
    BY <1>4, LossNeedsFault DEF GInv
  <2>2. IsFiniteSet(Missing) /\ Cardinality(Missing) \in Nat
        /\ Cardinality(Missing) <= faults
    BY FS_CardinalityType DEF GInv, GapInv
  <2>3. CASE Missing' \subseteq Missing
    <3>1. IsFiniteSet(Missing') /\ Cardinality(Missing') <= Cardinality(Missing)
      BY <2>2, <2>3, FS_Subset
    <3>2. Cardinality(Missing') \in Nat
      BY <3>1, FS_CardinalityType
    <3> QED BY <1>1, <1>2, <2>1, <2>2, <3>1, <3>2 DEF GInv, GapInv
  <2>4. CASE faults' = faults + 1 /\ \E p : Missing' \subseteq Missing \cup {p}
    <3>1. PICK p : Missing' \subseteq Missing \cup {p}
      BY <2>4
    <3>2. /\ IsFiniteSet(Missing \cup {p})
          /\ Cardinality(Missing \cup {p}) \in {Cardinality(Missing), Cardinality(Missing) + 1}
      BY <2>2, FS_AddElement
    <3>3. /\ IsFiniteSet(Missing')
          /\ Cardinality(Missing') <= Cardinality(Missing \cup {p})
      BY <3>1, <3>2, FS_Subset
    <3>4. Cardinality(Missing') \in Nat
      BY <3>3, FS_CardinalityType
    <3> QED BY <1>1, <1>2, <2>2, <2>4, <3>2, <3>3, <3>4 DEF GInv, GapInv
  <2> QED BY <1>4, <2>3, <2>4, MissingStep DEF GInv
<1> QED
  BY <1>3, <1>4 DEF Next

(* A number that is missing from the trail was lost to a failure: there    *)
(* are at most as many as there were failures, races or not.               *)
THEOREM FailuresMakeGaps == Spec => []GapsNeedFaults
<1>1. Init => GInv
  <2> SUFFICES ASSUME Init PROVE GapInv
    BY TypedInit, NumberInit DEF GInv, IInv
  <2>1. \A i \in AuditId : seq[i] = 0
    BY DEF Init
  <2>2. Missing = {}
    BY <2>1 DEF Missing, Allocated
  <2> QED BY <2>2, FS_EmptySet DEF GapInv, Init
<1>2. GInv => GapsNeedFaults
  BY DEF GInv, GapInv, GapsNeedFaults, Missing, Allocated, Slots
<1> QED
  BY <1>1, <1>2, GapNext, PTL DEF Spec

-----------------------------------------------------------------------------
(* The race to create a sequence *)

(* Whoever tries a second time finds the sequence document, so that it     *)
(* never comes to a second upsert: that is why one retry is enough.        *)
RetryInv ==
    (faults = 0 /\ (DeferredChanges \/ Oversized = {})) =>
      /\ RetryAbsorbsUpsertRace
      /\ \A c \in Client : pc[c] \in {"alloc", "upsert"} /\ attempt[c] = 1 =>
           pc[c] = "alloc" /\ seq[CurId(c)] # 0

AInv == IInv /\ RetryInv

(* No step that is not a failure makes a call fail to audit. *)
LEMMA RetryStep ==
    ASSUME AInv, NEW c \in Client, Step(c), faults = 0,
           DeferredChanges \/ Oversized = {}
    PROVE  /\ UNCHANGED <<reported, cid>>
           /\ outcome' = outcome \/ \E o \in {"ok", "operr"} : Return(c, o)
           /\ pc'[c] \in {"alloc", "upsert"} /\ attempt'[c] = 1 =>
                pc'[c] = "alloc" /\ seq'[CurId(c)'] # 0
           /\ \A x \in Client \ {c} : attempt'[x] = attempt[x]
<1> USE DEF AInv, IInv, TInv
<1>a. pc \in [Client -> PC] /\ attempt \in [Client -> 0..1]
  BY DEF TypeOK
<1>1. CASE Read(c) \/ Mutate(c)
  <2>1. UNCHANGED <<reported, cid, attempt>>
    BY <1>1 DEF Read, Mutate
  <2>2. Goto(c, "mutate") \/ NextEntry(c) \/ Return(c, "operr") \/ Return(c, "ok")
    BY <1>1 DEF Read, Mutate, InsertDocs, ChangeDocs, ChangeNothing, Succeed
  <2> QED BY <1>a, <2>1, <2>2 DEF Goto, NextEntry, Return
<1>2. CASE Compute(c)
  <2>1. UNCHANGED <<cid, reported>>
        /\ (\/ Goto(c, "alloc") /\ attempt' = [attempt EXCEPT ![c] = 0]
            \/ NextEntry(c) /\ UNCHANGED attempt)
    BY <1>2 DEF Compute, TooComplex, StartAudit
  <2> QED BY <1>a, <2>1 DEF Goto, NextEntry, Return
<1>3. CASE Alloc(c)
  <2>1. UNCHANGED <<cid, reported, attempt>> /\ pc[c] = "alloc"
    BY <1>3 DEF Alloc
  <2>2. CASE seq[CurId(c)] = 0
    <3>1. Goto(c, "upsert") /\ attempt[c] # 1
      BY <1>3, <2>1, <2>2 DEF Alloc, RetryInv
    <3> QED BY <1>a, <2>1, <3>1 DEF Goto
  <2>3. CASE seq[CurId(c)] # 0
    BY <1>3, <1>a, <2>1, <2>3 DEF Alloc, Goto
  <2> QED BY <2>2, <2>3
<1>4. CASE Upsert(c)
  <2>1. attempt[c] = 0 /\ UNCHANGED cid /\ pc[c] = "upsert"
    BY <1>4, <1>a DEF Upsert, RetryInv
  <2>2. CASE seq[CurId(c)] = 0
    BY <1>4, <1>a, <2>1, <2>2 DEF Upsert, Goto
  <2>3. CASE seq[CurId(c)] # 0
    <3>1. UNCHANGED <<seq, cur, reported>> /\ attempt' = [attempt EXCEPT ![c] = 1]
          /\ Goto(c, "alloc")
      BY <1>4, <2>1, <2>3 DEF Upsert
    <3> QED BY <1>a, <2>1, <2>3, <3>1 DEF Goto, CurId
  <2> QED BY <2>2, <2>3
<1>5. CASE Persist(c)
  BY <1>5, <1>a DEF Persist, NextEntry, Goto, Return
<1> QED
  BY <1>1, <1>2, <1>3, <1>4, <1>5 DEF Step

(* Every step keeps the invariant of the race. *)
LEMMA RetryNext == AInv /\ [Next]_vars => AInv'
<1> SUFFICES ASSUME AInv, [Next]_vars, faults' = 0, DeferredChanges \/ Oversized = {}
             PROVE  /\ RetryAbsorbsUpsertRace'
                    /\ \A c \in Client : pc'[c] \in {"alloc", "upsert"} /\ attempt'[c] = 1 =>
                         pc'[c] = "alloc" /\ seq'[CurId(c)'] # 0
  BY InvariantStep DEF AInv, RetryInv
<1>a. faults \in Nat
  BY BoundAssumption DEF AInv, IInv, TInv, TypeOK
<1>1. CASE UNCHANGED vars
  BY <1>1 DEF AInv, RetryInv, RetryAbsorbsUpsertRace, CurId, vars, localVars, ghostVars
<1>2. ASSUME NEW c \in Client, NEW r \in Requests, Begin(c, r)
      PROVE  /\ UNCHANGED <<faults, outcome, reported, seq>>
             /\ pc'[c] \in {"read", "mutate"}
             /\ \A x \in Client \ {c} : pc'[x] = pc[x] /\ cur'[x] = cur[x]
                                        /\ attempt'[x] = attempt[x]
  BY <1>2 DEF Begin, Goto, AInv, IInv, TInv, TypeOK
<1>3. ASSUME NEW c \in Client, NEW r \in Requests, Begin(c, r)
      PROVE  /\ RetryAbsorbsUpsertRace'
             /\ \A x \in Client : pc'[x] \in {"alloc", "upsert"} /\ attempt'[x] = 1 =>
                  pc'[x] = "alloc" /\ seq'[CurId(x)'] # 0
  BY <1>2, <1>3 DEF AInv, RetryInv, RetryAbsorbsUpsertRace, CurId
<1>4. ASSUME NEW c \in Client, Failure(c) PROVE FALSE
  BY <1>4, <1>a DEF Failure, ReadFails, MutateFails, ComputeFails, AllocFails,
     PersistFails, Crash, Fault
<1>5. ASSUME NEW c \in Client, Step(c)
      PROVE  /\ RetryAbsorbsUpsertRace'
             /\ \A x \in Client : pc'[x] \in {"alloc", "upsert"} /\ attempt'[x] = 1 =>
                  pc'[x] = "alloc" /\ seq'[CurId(x)'] # 0
  <2>0. IInv
    BY DEF AInv
  <2>1. faults = 0
    BY <1>5, <1>a, <2>0, LossNeedsFault
  <2>2. /\ UNCHANGED <<reported, cid>>
        /\ outcome' = outcome \/ \E o \in {"ok", "operr"} : Return(c, o)
        /\ pc'[c] \in {"alloc", "upsert"} /\ attempt'[c] = 1 =>
             pc'[c] = "alloc" /\ seq'[CurId(c)'] # 0
        /\ \A x \in Client \ {c} : attempt'[x] = attempt[x]
    BY <1>5, <2>1, RetryStep
  <2>3. RetryAbsorbsUpsertRace'
    BY <2>1, <2>2 DEF RetryAbsorbsUpsertRace, AInv, RetryInv, Return, IInv, TInv, TypeOK
  <2>4. Quiet(c) \/ Allocates(c) \/ Burns(c) \/ Records(c)
    BY <1>5, StepKinds DEF AInv, IInv
  <2>5. OthersKeep(c) /\ \A i \in AuditId : seq[i] # 0 => seq'[i] # 0
    <3>1. seq \in [AuditId -> Nat] /\ CurId(c) \in AuditId
      BY CurTyped DEF AInv, IInv, TInv, TypeOK
    <3>2. \/ UNCHANGED seq
          \/ seq' = [seq EXCEPT ![CurId(c)] = seq[CurId(c)] + 1]
      BY <2>4 DEF Quiet, Allocates, Burns, Records
    <3>3. \A i \in AuditId : seq[i] # 0 => seq'[i] # 0
      BY <3>1, <3>2
    <3> QED BY <2>4, <3>3 DEF Quiet, Allocates, Burns, Records
  <2>6. ASSUME NEW x \in Client \ {c}, pc'[x] \in {"alloc", "upsert"}, attempt'[x] = 1
        PROVE  pc'[x] = "alloc" /\ seq'[CurId(x)'] # 0
    <3>1. CurId(x)' = CurId(x) /\ CurId(x) \in AuditId /\ pc'[x] = pc[x]
      BY <2>5, CurTyped DEF OthersKeep, CurId, AInv, IInv, TInv
    <3> QED BY <2>1, <2>2, <2>5, <2>6, <3>1 DEF AInv, RetryInv
  <2> QED BY <2>2, <2>3, <2>6
<1> QED
  BY <1>1, <1>3, <1>4, <1>5 DEF Next

(* Without failures nobody reports an error, however many callers race to  *)
(* create one sequence: one retry is enough for any number of them.  A     *)
(* value over the limits must have somewhere to go.                        *)
THEOREM OneRetryIsEnough ==
    ASSUME DeferredChanges \/ Oversized = {}
    PROVE  Spec => []RetryAbsorbsUpsertRace
<1>1. Init => AInv
  BY TypedInit, NumberInit DEF AInv, IInv, RetryInv, RetryAbsorbsUpsertRace, Init
<1>2. AInv => RetryAbsorbsUpsertRace
  BY DEF AInv, RetryInv, RetryAbsorbsUpsertRace
<1> QED
  BY <1>1, <1>2, RetryNext, PTL DEF Spec

-----------------------------------------------------------------------------
(* Errors of the audit *)

(* c stays in its call, ... *)
Stays(c) == pc'[c] \notin {"idle", "read"} /\ UNCHANGED outcome

(* ... or its call returns, without error only if it had none to report,   *)
(* and with the error of the pre-read only from there.                     *)
Returns(c) ==
    \E o \in Outcome :
      /\ Return(c, o)
      /\ o = "readerr" => pc[c] = "read" /\ UNCHANGED order
      /\ o = "ok" /\ FailOnAuditError => UNCHANGED reported

(* An audit error is reported; with FailOnAuditError the call ends with it. *)
LEMMA FailureReturns ==
    ASSUME TInv, NEW c \in Client, pc[c] # "idle", AuditFails(c)
    PROVE  /\ Stays(c) \/ Returns(c)
           /\ reported' = reported \cup {cid[c]}
           /\ FailOnAuditError => pc'[c] = "idle"
BY DEF AuditFails, HandleError, Return, NextEntry, Goto, Stays, Returns, TInv, TypeOK,
       Outcome

(* The loop goes on, or the call returns its outcome. *)
LEMMA NextReturns ==
    ASSUME TInv, NEW c \in Client, pc[c] # "idle", NextEntry(c), UNCHANGED reported
    PROVE  Stays(c) \/ Returns(c)
BY DEF Return, NextEntry, Goto, Stays, Returns, TInv, TypeOK, Outcome

(* What a step of a call does to it and to nothing else. *)
LEMMA CallStep ==
    ASSUME TInv, NEW c \in Client, Step(c) \/ Failure(c)
    PROVE  /\ pc[c] # "idle" /\ UNCHANGED <<cid, calls>>
           /\ \A x \in Client \ {c} : pc'[x] = pc[x]
           /\ Stays(c) \/ Returns(c)
           /\ reported' \in {reported, reported \cup {cid[c]}}
           /\ FailOnAuditError /\ reported' # reported => pc'[c] = "idle"
           /\ UNCHANGED order \/ \E D : Wrote(c, D)
<1> USE DEF TInv
<1>a. pc \in [Client -> PC]
  BY DEF TypeOK
<1>b. {"ok", "readerr", "operr", "crash"} \subseteq Outcome
  BY DEF Outcome
<1>1. CASE Read(c)
  BY <1>1, <1>a DEF Read, Goto, Stays
<1>2. CASE ReadFails(c)
  <2>1. CASE FailOnAuditError
    BY <1>2, <2>1, <1>a, <1>b DEF ReadFails, HandleError, Return, Returns
  <2>2. CASE ~FailOnAuditError
    BY <1>2, <2>2, <1>a DEF ReadFails, HandleError, Goto, Stays, localVars
  <2>3. UNCHANGED <<cid, calls>> /\ pc[c] # "idle"
    BY <1>2 DEF ReadFails
  <2> QED BY <1>2, <2>1, <2>2, <2>3, <1>a DEF ReadFails, HandleError, Return, Goto
<1>3. CASE Mutate(c)
  <2>1. pc[c] # "idle" /\ UNCHANGED <<cid, calls, reported>>
    BY <1>3 DEF Mutate
  <2>2. NextEntry(c) \/ Return(c, "operr") \/ Return(c, "ok")
    BY <1>3 DEF Mutate, InsertDocs, ChangeDocs, ChangeNothing, Succeed
  <2>3. Stays(c) \/ Returns(c)
    BY <2>1, <2>2, <1>b, NextReturns DEF Returns
  <2>4. \A x \in Client \ {c} : pc'[x] = pc[x]
    BY <2>2, <1>a DEF NextEntry, Return, Goto
  <2>5. UNCHANGED order \/ \E D : Wrote(c, D)
    BY <1>3 DEF Mutate, InsertDocs, ChangeDocs, ChangeNothing
  <2> QED BY <2>1, <2>3, <2>4, <2>5
<1>4. CASE MutateFails(c) \/ Crash(c)
  <2>1. pc[c] # "idle" /\ UNCHANGED <<cid, calls, reported>>
    BY <1>4 DEF MutateFails, Crash
  <2>2. Return(c, "operr") \/ Return(c, "crash")
    BY <1>4 DEF MutateFails, Crash
  <2>3. UNCHANGED order \/ \E D : Wrote(c, D)
    BY <1>4 DEF MutateFails, Crash
  <2> QED BY <2>1, <2>2, <2>3, <1>a, <1>b DEF Return, Returns
<1>5. CASE Compute(c) \/ ComputeFails(c)
  <2>1. pc[c] # "idle" /\ UNCHANGED <<cid, calls, order>>
    BY <1>5 DEF Compute, ComputeFails
  <2>2. \/ Goto(c, "alloc") /\ UNCHANGED reported
        \/ AuditFails(c)
        \/ NextEntry(c) /\ UNCHANGED reported
    BY <1>5 DEF Compute, ComputeFails, StartAudit
  <2>3. CASE Goto(c, "alloc") /\ UNCHANGED reported
    BY <2>1, <2>3, <1>a DEF Goto, Stays
  <2>4. CASE AuditFails(c)
    BY <2>1, <2>4, FailureReturns, NextKeepsOthers
  <2>5. CASE NextEntry(c) /\ UNCHANGED reported
    BY <2>1, <2>5, NextReturns, NextKeepsOthers
  <2> QED BY <2>2, <2>3, <2>4, <2>5
<1>6. CASE Alloc(c) \/ Upsert(c) \/ AllocFails(c)
  <2>1. pc[c] # "idle" /\ UNCHANGED <<cid, calls, order>>
    BY <1>6 DEF Alloc, Upsert, AllocFails
  <2>2. \/ \E l \in {"alloc", "upsert", "persist"} : Goto(c, l) /\ UNCHANGED reported
        \/ AuditFails(c)
    BY <1>6 DEF Alloc, Upsert, AllocFails
  <2>3. CASE \E l \in {"alloc", "upsert", "persist"} : Goto(c, l) /\ UNCHANGED reported
    BY <2>1, <2>3, <1>a DEF Goto, Stays
  <2>4. CASE AuditFails(c)
    BY <2>1, <2>4, FailureReturns, NextKeepsOthers
  <2> QED BY <2>2, <2>3, <2>4
<1>7. CASE Persist(c) \/ PersistFails(c)
  <2>1. pc[c] # "idle" /\ UNCHANGED <<cid, calls, order>>
    BY <1>7 DEF Persist, PersistFails
  <2>2. AuditFails(c) \/ (NextEntry(c) /\ UNCHANGED reported)
    BY <1>7 DEF Persist, PersistFails
  <2>3. CASE AuditFails(c)
    BY <2>1, <2>3, FailureReturns, NextKeepsOthers
  <2>4. CASE NextEntry(c) /\ UNCHANGED reported
    BY <2>1, <2>4, NextReturns, NextKeepsOthers
  <2> QED BY <2>2, <2>3, <2>4
<1> QED
  BY <1>1, <1>2, <1>3, <1>4, <1>5, <1>6, <1>7 DEF Step, Failure

(* A mutation adds to the writes of its own call only. *)
LEMMA WriteAdds ==
    ASSUME TInv, NEW c \in Client, NEW D, Wrote(c, D), NEW d \in DocId, NEW k \in Call,
           Writes(d, k)'
    PROVE  Writes(d, k) \/ k = cid[c]
<1>1. order[d] \in Seq(Call)
  BY DEF TInv, TypeOK
<1>2. order'[d] = order[d] \/ order'[d] = Append(order[d], cid[c])
  BY DEF Wrote
<1> QED
  BY <1>1, <1>2 DEF Writes

-----------------------------------------------------------------------------
(* FailClosed is not inductive: it has to be known that numbers of calls   *)
(* are not used twice, that a call in its pre-read has written nothing,    *)
(* and that one that failed to audit is over.                              *)
NumbersInv ==
    /\ \A c \in Client : cid[c] <= calls
    /\ \A c \in Client : pc[c] # "idle" => outcome[cid[c]] = "none"
    /\ \A x, y \in Client :
         x # y /\ pc[x] # "idle" /\ pc[y] # "idle" => cid[x] # cid[y]
    /\ \A k \in Call : k > calls =>
         outcome[k] = "none" /\ k \notin reported /\ \A d \in DocId : ~Writes(d, k)

ClosedInv ==
    /\ FailOnAuditError => \A c \in Client : pc[c] # "idle" => cid[c] \notin reported
    /\ \A c \in Client : pc[c] = "read" => \A d \in DocId : ~Writes(d, cid[c])
    /\ FailClosed

FInv == TInv /\ NumbersInv /\ ClosedInv

(* Nothing has been called at first. *)
LEMMA ClosedInit == Init => FInv
<1> SUFFICES ASSUME Init PROVE NumbersInv /\ ClosedInv
  BY TypedInit DEF FInv
<1>1. \A d \in DocId, k \in Call : ~Writes(d, k)
  BY DEF Init, Writes
<1>2. \A k \in Call : outcome[k] = "none"
  BY DEF Init
<1>3. \A c \in Client : cid[c] = 0 /\ pc[c] = "idle"
  BY DEF Init
<1>4. calls = 0 /\ reported = {}
  BY DEF Init
<1> QED
  BY <1>1, <1>2, <1>3, <1>4 DEF NumbersInv, ClosedInv, FailClosed

(* A new call has written and reported nothing. *)
LEMMA ClosedBegin ==
    ASSUME FInv, TInv', NEW c \in Client, NEW r \in Requests, Begin(c, r)
    PROVE  NumbersInv' /\ ClosedInv'
<1>1. /\ UNCHANGED <<outcome, order, reported>>
      /\ calls' = calls + 1 /\ calls \in Nat /\ calls + 1 \in Call
      /\ cid'[c] = calls + 1 /\ \A x \in Client \ {c} : cid'[x] = cid[x]
      /\ pc[c] = "idle" /\ \A x \in Client \ {c} : pc'[x] = pc[x]
  BY BoundAssumption DEF Begin, Goto, FInv, TInv, TypeOK, Call
<1>2. \A d \in DocId, k \in Call : Writes(d, k)' <=> Writes(d, k)
  BY <1>1 DEF Writes
<1>3. /\ outcome[calls + 1] = "none" /\ calls + 1 \notin reported
      /\ \A d \in DocId : ~Writes(d, calls + 1)
  BY <1>1 DEF FInv, NumbersInv
<1>4. \A x \in Client : cid[x] \in Nat /\ cid[x] # calls + 1
  BY <1>1 DEF FInv, TInv, TypeOK, NumbersInv
<1>5. \A x \in Client : cid'[x] <= calls'
  BY <1>1, <1>4 DEF FInv, NumbersInv
<1>6. \A k \in Call : k > calls' => k > calls
  BY <1>1 DEF Call
<1>7. NumbersInv'
  BY <1>1, <1>2, <1>3, <1>4, <1>5, <1>6 DEF FInv, NumbersInv
<1>8. \A x \in Client \ {c} : pc[x] # "idle" => cid[x] \in Call
  BY DEF FInv, TInv, BusyCall
<1>9. ClosedInv'
  BY <1>1, <1>2, <1>3, <1>8 DEF FInv, ClosedInv, FailClosed
<1> QED
  BY <1>7, <1>9

(* A step of a call under way keeps the invariant for it and for the others. *)
LEMMA ClosedStep ==
    ASSUME FInv, TInv', NEW c \in Client, Step(c) \/ Failure(c)
    PROVE  NumbersInv' /\ ClosedInv'
<1> DEFINE k == cid[c]
<1>1. /\ pc[c] # "idle" /\ UNCHANGED <<cid, calls>>
      /\ \A x \in Client \ {c} : pc'[x] = pc[x]
      /\ Stays(c) \/ Returns(c)
      /\ reported' \in {reported, reported \cup {k}}
      /\ FailOnAuditError /\ reported' # reported => pc'[c] = "idle"
      /\ UNCHANGED order \/ \E D : Wrote(c, D)
  BY CallStep DEF FInv
<1>2. k \in Call /\ k <= calls /\ \A x \in Client \ {c} : pc[x] # "idle" => cid[x] # k
  BY <1>1 DEF FInv, TInv, BusyCall, NumbersInv
<1>3. \A d \in DocId, j \in Call : Writes(d, j)' => Writes(d, j) \/ j = k
  <2>1. CASE UNCHANGED order
    BY <2>1 DEF Writes
  <2>2. CASE \E D : Wrote(c, D)
    BY <2>2, WriteAdds DEF FInv
  <2> QED BY <1>1, <2>1, <2>2
<1>4. \A j \in Call \ {k} : outcome'[j] = outcome[j]
  BY <1>1, <1>2 DEF Stays, Returns, Return, FInv, TInv, TypeOK
<1>5. pc'[c] # "idle" => outcome'[k] = "none" /\ pc'[c] # "read"
  BY <1>1, <1>2 DEF Stays, Returns, Return, FInv, TInv, TypeOK, NumbersInv
<1>6. \A x \in Client \ {c} : pc[x] # "idle" => cid[x] \in Call \ {k}
  BY <1>2 DEF FInv, TInv, BusyCall
<1>7. \A j \in Call : j > calls => j # k
  BY <1>2 DEF FInv, TInv, TypeOK, Call
<1>8. NumbersInv'
  BY <1>1, <1>2, <1>3, <1>4, <1>5, <1>6, <1>7 DEF FInv, NumbersInv
<1>9. FailOnAuditError =>
        \A x \in Client : pc'[x] # "idle" => cid[x] \notin reported'
  BY <1>1, <1>2 DEF FInv, ClosedInv
<1>10. \A x \in Client : pc'[x] = "read" => \A d \in DocId : ~Writes(d, cid[x])'
  <2> SUFFICES ASSUME NEW x \in Client, pc'[x] = "read", NEW d \in DocId
               PROVE  ~Writes(d, cid[x])'
    OBVIOUS
  <2>1. x # c /\ pc[x] = "read"
    BY <1>1, <1>5
  <2>2. cid[x] \in Call \ {k}
    BY <1>6, <2>1
  <2>3. ~Writes(d, cid[x])
    BY <2>1 DEF FInv, ClosedInv
  <2>4. cid'[x] = cid[x]
    BY <1>1
  <2> QED BY <1>3, <2>2, <2>3, <2>4 DEF Writes
<1>11. FailClosed'
  <2> SUFFICES ASSUME FailOnAuditError, NEW j \in Call
               PROVE  /\ outcome'[j] = "readerr" => \A d \in DocId : ~Writes(d, j)'
                      /\ outcome'[j] = "ok" => j \notin reported'
    BY DEF FailClosed
  <2>1. CASE j # k
    BY <1>1, <1>3, <1>4, <2>1 DEF FInv, ClosedInv, FailClosed
  <2>2. CASE j = k
    <3>1. k \notin reported
      BY <1>1 DEF FInv, ClosedInv
    <3>2. CASE Stays(c)
      BY <1>5, <2>2, <3>2 DEF Stays
    <3>3. CASE Returns(c)
      <4>1. PICK o \in Outcome :
              /\ Return(c, o)
              /\ o = "readerr" => pc[c] = "read" /\ UNCHANGED order
              /\ o = "ok" => UNCHANGED reported
        BY <3>3 DEF Returns
      <4>2. outcome'[k] = o
        BY <1>2, <4>1 DEF Return, FInv, TInv, TypeOK
      <4>3. o = "readerr" => \A d \in DocId : ~Writes(d, j)'
        BY <2>2, <4>1 DEF FInv, ClosedInv, Writes
      <4>4. outcome'[j] = o /\ j \notin reported
        BY <2>2, <3>1, <4>2
      <4> QED BY <4>1, <4>3, <4>4
    <3> QED BY <1>1, <3>2, <3>3
  <2> QED BY <2>1, <2>2
<1> QED
  BY <1>1, <1>8, <1>9, <1>10, <1>11 DEF ClosedInv

(* So does every step. *)
LEMMA ClosedNext == FInv /\ [Next]_vars => FInv'
<1> SUFFICES ASSUME FInv, [Next]_vars PROVE FInv'
  OBVIOUS
<1>1. TInv'
  BY TypedStep DEF FInv
<1>2. CASE UNCHANGED vars
  BY <1>1, <1>2 DEF FInv, NumbersInv, ClosedInv, FailClosed, Writes, vars, ghostVars
<1>3. CASE Next
  BY <1>1, <1>3, ClosedBegin, ClosedStep DEF FInv, Next
<1> QED
  BY <1>2, <1>3

(* With FailOnAuditError a call that fails on its pre-read has written     *)
(* nothing, and one that returns without error had no audit error.         *)
THEOREM FailsClosed == Spec => []FailClosed
<1>1. FInv => FailClosed
  BY DEF FInv, ClosedInv
<1> QED
  BY <1>1, ClosedInit, ClosedNext, PTL DEF Spec

-----------------------------------------------------------------------------
(* Versions and real time *)

(* A call has returned when another is said to be later; the numbers of    *)
(* later calls lie beyond the audits of earlier ones, held or recorded.    *)
OrderedInv ==
    /\ \A k \in Call : \A j \in earlier[k] : outcome[j] # "none"
    /\ \A a \in audits : a.call <= calls
    /\ \A c \in Client : HoldsNumber(c) =>
         \A a \in audits : a.id = CurId(c) /\ a.call \in earlier[cid[c]] =>
           a.version < cur[c].version
    /\ RealTimeOrder

OInv == IInv /\ FInv /\ OrderedInv

(* Only a new call looks at which calls have returned. *)
LEMMA EarlierKept ==
    ASSUME NEW c \in Client, Step(c) \/ Failure(c)
    PROVE  UNCHANGED earlier
BY DEF Step, Failure, Read, Mutate, Compute, Alloc, Upsert, Persist, ReadFails,
       MutateFails, ComputeFails, AllocFails, PersistFails, Crash

(* A call that has returned has returned for good. *)
LEMMA ReturnedStays ==
    ASSUME FInv, NEW c \in Client, Step(c) \/ Failure(c), NEW j \in Call,
           outcome[j] # "none"
    PROVE  outcome'[j] = outcome[j]
<1>1. pc[c] # "idle" /\ (Stays(c) \/ Returns(c))
  BY CallStep DEF FInv
<1>2. cid[c] # j
  BY <1>1 DEF FInv, NumbersInv
<1> QED
  BY <1>1, <1>2 DEF Stays, Returns, Return, FInv, TInv, TypeOK

(* A new call is later than those that have returned and no call is later. *)
LEMMA OrderedBegin ==
    ASSUME OInv, NEW c \in Client, NEW r \in Requests, Begin(c, r)
    PROVE  OrderedInv'
<1>1. /\ UNCHANGED <<outcome, audits>>
      /\ calls' = calls + 1 /\ calls \in Nat /\ calls + 1 \in Call
      /\ \A x \in Client \ {c} : cid'[x] = cid[x] /\ pc'[x] = pc[x] /\ cur'[x] = cur[x]
      /\ earlier'[calls + 1] = {k \in Call : outcome[k] # "none"}
      /\ \A k \in Call \ {calls + 1} : earlier'[k] = earlier[k]
      /\ pc'[c] # "persist"
  BY BoundAssumption DEF Begin, Goto, OInv, FInv, TInv, TypeOK, Call
<1>2. \A a \in audits : a.call \in Call /\ a.call # calls + 1 /\ a.call <= calls + 1
  BY <1>1 DEF OInv, FInv, TInv, TypeOK, Audit, OrderedInv, Call
<1>3. \A x \in Client : HoldsNumber(x)' =>
        /\ HoldsNumber(x) /\ CurId(x)' = CurId(x) /\ cur'[x] = cur[x]
        /\ cid'[x] = cid[x] /\ cid[x] \in Call \ {calls + 1}
  BY <1>1 DEF HoldsNumber, CurId, OInv, FInv, TInv, TypeOK, BusyCall, NumbersInv
<1>4. \A x \in Client : HoldsNumber(x)' => earlier'[cid'[x]] = earlier[cid[x]]
  BY <1>1, <1>3
<1>5. \A a \in audits : earlier'[a.call] = earlier[a.call]
  BY <1>1, <1>2
<1>6. \A k \in Call : \A j \in earlier'[k] : outcome'[j] # "none"
  BY <1>1 DEF OInv, OrderedInv
<1>7. RealTimeOrder'
  BY <1>1, <1>5 DEF OInv, OrderedInv, RealTimeOrder
<1> QED
  BY <1>1, <1>2, <1>3, <1>4, <1>6, <1>7 DEF OInv, OrderedInv

(* A step of a call keeps versions in the order of calls. *)
LEMMA OrderedStep ==
    ASSUME OInv, NEW c \in Client, Step(c) \/ Failure(c)
    PROVE  OrderedInv'
<1> DEFINE k == cid[c]
<1>a. /\ seq \in [AuditId -> Nat]
      /\ \A a \in audits : a.id \in AuditId /\ a.version \in Nat /\ a.call \in Call
      /\ \A x \in Client : CurId(x) \in AuditId /\ cur[x].version \in Nat
  BY CurTyped DEF OInv, IInv, TInv, TypeOK, Audit, Pending
<1>1. pc[c] # "idle" /\ UNCHANGED <<cid, calls, earlier>>
  BY CallStep, EarlierKept DEF OInv, FInv
<1>2. k \in Call /\ k <= calls /\ outcome[k] = "none"
  BY <1>1 DEF OInv, FInv, TInv, BusyCall, NumbersInv
<1>3. \A j \in Call : k \notin earlier[j]
  BY <1>2 DEF OInv, OrderedInv
<1>4. Quiet(c) \/ Allocates(c) \/ Burns(c) \/ Records(c)
  BY StepKinds DEF OInv, FInv
<1>5. OthersKeep(c)
  BY <1>4 DEF Quiet, Allocates, Burns, Records
<1>6. \A x \in Client \ {c} :
        /\ HoldsNumber(x)' = HoldsNumber(x) /\ CurId(x)' = CurId(x)
        /\ cur'[x] = cur[x]
        /\ HoldsNumber(x) => cid[x] \in Call
  BY <1>5 DEF OthersKeep, HoldsNumber, CurId, OInv, FInv, TInv, BusyCall
<1>7. \A j \in Call : \A i \in earlier'[j] : outcome'[i] # "none"
  BY <1>1, ReturnedStays DEF OInv, OrderedInv, FInv, TInv, TypeOK
<1>8. CASE Quiet(c) \/ Burns(c)
  <2>1. UNCHANGED audits /\ ~HoldsNumber(c)'
    BY <1>8 DEF Quiet, Burns, HoldsNumber
  <2> QED BY <1>1, <1>6, <1>7, <2>1 DEF OInv, OrderedInv, RealTimeOrder
<1>9. CASE Allocates(c)
  <2>1. UNCHANGED audits /\ CurId(c)' = CurId(c) /\ cur'[c].version = seq[CurId(c)] + 1
    BY <1>9 DEF Allocates, CurId, Numbered, Draft
  <2>2. \A a \in audits : a.id = CurId(c) => a.version < cur'[c].version
    BY <1>a, <2>1 DEF OInv, IInv, NumberInv
  <2> QED BY <1>1, <1>6, <1>7, <2>1, <2>2 DEF OInv, OrderedInv, RealTimeOrder
<1>10. CASE Records(c)
  <2> DEFINE n == AuditOf(c)
  <2>1. HoldsNumber(c) /\ ~HoldsNumber(c)' /\ audits' = audits \cup {n}
    BY <1>10 DEF Records, HoldsNumber
  <2>2. n.call = k /\ n.id = CurId(c) /\ n.version = cur[c].version
    BY DEF AuditOf
  <2>3. \A a \in audits' : a.call <= calls'
    BY <1>1, <1>2, <2>1, <2>2 DEF OInv, OrderedInv
  <2>4. RealTimeOrder'
    <3> SUFFICES ASSUME NEW a \in audits', NEW b \in audits', a.id = b.id,
                        a.call \in earlier[b.call]
                 PROVE  a.version < b.version
      BY <1>1 DEF RealTimeOrder
    <3>1. a # n
      BY <1>a, <1>2, <1>3, <2>1, <2>2
    <3>2. CASE b = n
      BY <2>1, <2>2, <3>1, <3>2 DEF OInv, OrderedInv
    <3>3. CASE b # n
      BY <2>1, <3>1, <3>3 DEF OInv, OrderedInv, RealTimeOrder
    <3> QED BY <3>2, <3>3
  <2>5. ASSUME NEW x \in Client, HoldsNumber(x)', NEW a \in audits',
               a.id = CurId(x)', a.call \in earlier'[cid'[x]]
        PROVE  a.version < cur'[x].version
    BY <1>1, <1>3, <1>6, <2>1, <2>2, <2>5 DEF OInv, OrderedInv
  <2> QED BY <1>7, <2>3, <2>4, <2>5 DEF OrderedInv
<1> QED
  BY <1>4, <1>8, <1>9, <1>10

(* No call has been made at first. *)
LEMMA OrderedInit == Init => OInv
<1> SUFFICES ASSUME Init PROVE OrderedInv
  BY TypedInit, NumberInit, ClosedInit DEF OInv, IInv
<1> QED
  BY DEF Init, OrderedInv, RealTimeOrder, HoldsNumber

(* Every step keeps the order. *)
LEMMA OrderedNext == OInv /\ [Next]_vars => OInv'
<1> SUFFICES ASSUME OInv, [Next]_vars PROVE OInv'
  OBVIOUS
<1>1. IInv' /\ FInv' /\ TInv'
  BY InvariantStep, ClosedNext DEF OInv, FInv
<1>2. CASE UNCHANGED vars
  BY <1>1, <1>2 DEF OInv, OrderedInv, RealTimeOrder, HoldsNumber, CurId, vars, localVars,
     ghostVars
<1>3. CASE Next
  BY <1>1, <1>3, OrderedBegin, OrderedStep DEF OInv, Next
<1> QED
  BY <1>2, <1>3

(* A call that began after another had returned writes the higher version  *)
(* of a document both audit, whatever is concurrent and whatever fails.    *)
THEOREM VersionsFollowRealTime == Spec => []RealTimeOrder
<1>1. OInv => RealTimeOrder
  BY DEF OInv, OrderedInv
<1> QED
  BY <1>1, OrderedInit, OrderedNext, PTL DEF Spec

-----------------------------------------------------------------------------
(* What a step does to the loop of a call *)

Working(c) == pc[c] \in {"alloc", "upsert", "persist"}
Looping(c) == pc[c] = "compute" \/ Working(c)

(* The other calls go on as before. *)
OthersLoop(c) ==
    \A x \in Client \ {c} :
      pc'[x] = pc[x] /\ snap'[x] = snap[x] /\ todo'[x] = todo[x] /\ cur'[x] = cur[x]

(* The loop goes to its next entry; the call returns "ok" when none is left. *)
Proceeds(c) ==
    /\ pc'[c] \in {"compute", "idle"}
    /\ pc'[c] = "idle" /\ outcome'[cid[c]] = "ok" => todo'[c] = {}

(* Audits of the same change, numbered or not. *)
SameChange(a, b) == a.doc = b.doc /\ a.before = b.before /\ a.after = b.after

(* The pre-read finds documents, or fails and is reported. *)
Reads(c) ==
    /\ pc[c] = "read" /\ pc'[c] = "mutate"
    /\ UNCHANGED <<coll, audits, order, cur, todo>>
    /\ \/ snap'[c] = {[doc |-> d, before |-> IF req[c].op \in IdOnlyOps THEN Nil
                                             ELSE coll[d]] : d \in Found(req[c])}
       \/ snap'[c] = snap[c] /\ cid[c] \in reported'

(* The operation writes the documents D, and the loop begins if something  *)
(* was written and has to be audited.                                      *)
Changes(c) ==
    /\ pc[c] = "mutate" /\ pc'[c] \in {"compute", "idle"}
    /\ UNCHANGED <<audits, snap, cur>>
    /\ \E D \in SUBSET req[c].ids :
         /\ Wrote(c, D)
         /\ pc'[c] = "compute" => D # {} /\ todo'[c] = Entries(c)
         /\ pc'[c] = "compute" \/ outcome'[cid[c]] = "ok" =>
              IF req[c].op \in InsertOps THEN D = req[c].ids
              ELSE D = Selected(req[c]) \/ req[c].upsert
         /\ pc'[c] = "idle" /\ outcome'[cid[c]] = "ok" /\ AllowsOp(req[c].op) =>
              \/ Entries(c) = {}
              \/ req[c].op \notin InsertOps /\ (D = {} \/ req[c].upsert)

(* The audit of e is given up or has no changes, ... *)
Drops(c) ==
    /\ pc[c] = "compute" /\ Proceeds(c)
    /\ UNCHANGED <<audits, order, snap, cur>>
    /\ \E e \in todo[c] :
         /\ todo'[c] = todo[c] \ {e}
         /\ cid[c] \in reported' \/ NoChanges(req[c], e)

(* ... or is the one the call works on next, ... *)
Starts(c) ==
    /\ pc[c] = "compute" /\ pc'[c] = "alloc"
    /\ UNCHANGED <<audits, order, snap>>
    /\ \E e \in todo[c] : todo'[c] = todo[c] \ {e} /\ SameChange(cur'[c], e)

(* ... goes on with, ... *)
Works(c) ==
    /\ Working(c) /\ pc'[c] \in {"alloc", "upsert", "persist"}
    /\ UNCHANGED <<audits, order, snap, todo>>
    /\ SameChange(cur'[c], cur[c])

(* ... and finishes, or gives up and reports. *)
Finishes(c) ==
    /\ Working(c) /\ Proceeds(c)
    /\ UNCHANGED <<order, snap, todo, cur>>
    /\ audits' \in {audits, audits \cup {AuditOf(c)}}
    /\ AuditOf(c) \in audits' \/ cid[c] \in reported'

(* The call ends with an error or a crash. *)
Dies(c) ==
    /\ pc'[c] = "idle" /\ outcome'[cid[c]] # "ok"
    /\ UNCHANGED <<audits, snap, todo, cur>>

Deed(c) ==
    \/ Reads(c) \/ Changes(c) \/ Drops(c) \/ Starts(c) \/ Works(c) \/ Finishes(c)
    \/ Dies(c)

(* The loop goes on, or the call returns. *)
LEMMA NextProceeds ==
    ASSUME TInv, NEW c \in Client, pc[c] # "idle", NextEntry(c) \/ AuditFails(c)
    PROVE  Proceeds(c)
  BY DEF TInv, TypeOK, BusyCall, Return, Goto, NextEntry, AuditFails, Proceeds

(* Every step of a call is one of these deeds. *)
LEMMA Deeds ==
    ASSUME TInv, NEW c \in Client, Step(c) \/ Failure(c)
    PROVE  UNCHANGED req /\ OthersLoop(c) /\ Deed(c)
<1>a. /\ pc \in [Client -> PC] /\ cur \in [Client -> Pending]
      /\ DOMAIN snap = Client /\ DOMAIN todo = Client /\ DOMAIN outcome = Call
      /\ snap \in [Client -> SUBSET [doc : DocId, before : Content]]
      /\ todo \in [Client -> SUBSET Entry]
  BY DEF TInv, TypeOK
<1>b. pc[c] # "idle" /\ \A x \in Client \ {c} : pc'[x] = pc[x]
  BY CallStep
<1>c. cid[c] \in Call
  BY <1>b DEF TInv, BusyCall
<1>1. CASE Read(c)
  BY <1>1, <1>a, <1>b DEF Read, Goto, OthersLoop, Deed, Reads
<1>2. CASE ReadFails(c)
  <2>1. CASE FailOnAuditError
    BY <1>2, <2>1, <1>a, <1>b, <1>c
       DEF ReadFails, Return, localVars, OthersLoop, Deed, Dies
  <2>2. CASE ~FailOnAuditError
    BY <1>2, <2>2, <1>a, <1>b
       DEF ReadFails, HandleError, Goto, localVars, OthersLoop, Deed, Reads
  <2> QED BY <2>1, <2>2
<1>3. CASE Mutate(c)
  <2> DEFINE r == req[c]
  <2>0. UNCHANGED <<req, audits, snap, cur>> /\ pc[c] = "mutate"
    BY <1>3 DEF Mutate
  <2>1. ASSUME Succeed(c)
        PROVE  /\ \A x \in Client \ {c} : todo'[x] = todo[x]
               /\ pc'[c] \in {"compute", "idle"}
               /\ pc'[c] = "compute" => todo'[c] = Entries(c) /\ AllowsOp(r.op)
               /\ pc'[c] = "idle" /\ AllowsOp(r.op) => Entries(c) = {}
    BY <2>1, <1>a DEF Succeed, NextEntry, Return, Goto
  <2>2. CASE InsertDocs(c)
    <3>1. Wrote(c, Insertable(r)) /\ Insertable(r) \in SUBSET r.ids /\ r.op \in InsertOps
      BY <2>2 DEF InsertDocs, Insertable
    <3>2. CASE Insertable(r) = r.ids
      <4>1. Succeed(c)
        BY <2>2, <3>2 DEF InsertDocs
      <4>2. r.ids = {} => Entries(c) = {}
        BY <3>1 DEF Entries
      <4>3. pc'[c] = "compute" => r.ids # {}
        <5>1. pc'[c] = "compute" => todo'[c] # {}
          BY <4>1, <1>a DEF Succeed, NextEntry, Return
        <5> QED BY <2>1, <4>1, <4>2, <5>1
      <4> QED
        BY <1>b, <2>0, <2>1, <3>1, <3>2, <4>1, <4>3 DEF OthersLoop, Deed, Changes
    <3>3. CASE Insertable(r) # r.ids
      <4>1. Return(c, "operr") /\ UNCHANGED todo
        BY <2>2, <3>3 DEF InsertDocs
      <4> QED BY <1>a, <1>b, <1>c, <2>0, <4>1 DEF Return, OthersLoop, Deed, Dies
    <3> QED BY <3>2, <3>3
  <2>3. CASE ChangeDocs(c)
    <3>1. /\ Wrote(c, Selected(r)) /\ Selected(r) \in SUBSET r.ids
          /\ r.op \notin InsertOps /\ Selected(r) # {} /\ Succeed(c)
      BY <2>3 DEF ChangeDocs, Selected, Filtered, First
    <3> QED BY <1>b, <2>0, <2>1, <3>1 DEF OthersLoop, Deed, Changes
  <2>4. CASE ChangeNothing(c)
    <3> DEFINE D == IF r.upsert /\ r.op \in UpdateOps THEN First(r.ids) ELSE {}
    <3>1. UNCHANGED todo /\ r.op \notin InsertOps /\ Selected(r) = {}
          /\ D \in SUBSET r.ids /\ (D = Selected(r) \/ r.upsert)
          /\ (D = {} \/ r.upsert)
      BY <2>4 DEF ChangeNothing, First
    <3>2. Return(c, "operr") \/ (Wrote(c, D) /\ Return(c, "ok"))
      BY <2>4 DEF ChangeNothing
    <3>3. CASE Return(c, "operr")
      BY <1>a, <1>b, <1>c, <2>0, <3>1, <3>3 DEF Return, OthersLoop, Deed, Dies
    <3>4. CASE Wrote(c, D) /\ Return(c, "ok")
      <4>1. pc'[c] = "idle"
        BY <1>a, <3>4 DEF Return
      <4>2. Changes(c)
        BY <2>0, <3>1, <3>4, <4>1 DEF Changes
      <4> QED BY <1>b, <2>0, <3>1, <4>2 DEF OthersLoop, Deed
    <3> QED BY <3>2, <3>3, <3>4
  <2> QED BY <1>3, <2>2, <2>3, <2>4 DEF Mutate
<1>4. CASE MutateFails(c) \/ Crash(c)
  <2>1. UNCHANGED <<req, audits, localVars>>
        /\ (Return(c, "operr") \/ Return(c, "crash"))
    BY <1>4 DEF MutateFails, Crash
  <2> QED BY <1>a, <1>b, <1>c, <2>1 DEF Return, localVars, OthersLoop, Deed, Dies
<1>5. CASE Compute(c) \/ ComputeFails(c)
  <2>1. /\ UNCHANGED <<req, audits, snap, order>> /\ pc[c] = "compute"
        /\ \E e \in Chosen(c) :
             /\ todo' = [todo EXCEPT ![c] = todo[c] \ {e}]
             /\ \/ \E status \in {"inline", "deferred"} : StartAudit(c, e, status)
                \/ UNCHANGED cur /\ AuditFails(c)
                \/ UNCHANGED cur /\ NextEntry(c) /\ NoChanges(req[c], e)
    BY <1>5 DEF Compute, ComputeFails
  <2>2. PICK e \in todo[c] :
             /\ todo' = [todo EXCEPT ![c] = todo[c] \ {e}]
             /\ \/ \E status \in {"inline", "deferred"} : StartAudit(c, e, status)
                \/ UNCHANGED cur /\ AuditFails(c)
                \/ UNCHANGED cur /\ NextEntry(c) /\ NoChanges(req[c], e)
    BY <2>1 DEF Chosen
  <2>3. todo'[c] = todo[c] \ {e} /\ \A x \in Client \ {c} : todo'[x] = todo[x]
    BY <1>a, <2>2
  <2>4. CASE \E status \in {"inline", "deferred"} : StartAudit(c, e, status)
    <3>1. pc'[c] = "alloc" /\ SameChange(cur'[c], e)
          /\ \A x \in Client \ {c} : cur'[x] = cur[x]
      BY <1>a, <2>4 DEF StartAudit, Goto, Draft, SameChange
    <3> QED BY <1>b, <2>1, <2>3, <3>1 DEF OthersLoop, Deed, Starts
  <2>5. CASE UNCHANGED cur /\ AuditFails(c)
    <3>1. Proceeds(c) /\ cid[c] \in reported'
      BY <1>b, <2>5, NextProceeds DEF AuditFails, HandleError
    <3> QED BY <1>b, <2>1, <2>3, <2>5, <3>1 DEF OthersLoop, Deed, Drops
  <2>6. CASE UNCHANGED cur /\ NextEntry(c) /\ NoChanges(req[c], e)
    <3>1. Proceeds(c)
      BY <1>b, <2>6, NextProceeds
    <3> QED BY <1>b, <2>1, <2>3, <2>6, <3>1 DEF OthersLoop, Deed, Drops
  <2> QED BY <2>2, <2>4, <2>5, <2>6
<1>6. CASE Alloc(c) \/ Upsert(c) \/ AllocFails(c)
  <2>1. UNCHANGED <<req, audits, snap, order, todo>> /\ pc[c] \in {"alloc", "upsert"}
    BY <1>6 DEF Alloc, Upsert, AllocFails
  <2>2. \/ /\ \E l \in {"alloc", "upsert", "persist"} : Goto(c, l)
           /\ UNCHANGED cur \/ \E n : cur' = [cur EXCEPT ![c] = Numbered(c, n)]
        \/ UNCHANGED cur /\ AuditFails(c)
    BY <1>6 DEF Alloc, Upsert, AllocFails
  <2>3. CASE /\ \E l \in {"alloc", "upsert", "persist"} : Goto(c, l)
             /\ UNCHANGED cur \/ \E n : cur' = [cur EXCEPT ![c] = Numbered(c, n)]
    <3>1. pc'[c] \in {"alloc", "upsert", "persist"}
      BY <1>a, <2>3 DEF Goto
    <3>2. SameChange(cur'[c], cur[c]) /\ \A x \in Client \ {c} : cur'[x] = cur[x]
      BY <1>a, <2>3 DEF Numbered, Draft, SameChange
    <3> QED BY <1>b, <2>1, <3>1, <3>2 DEF OthersLoop, Deed, Works, Working
  <2>4. CASE UNCHANGED cur /\ AuditFails(c)
    <3>1. Proceeds(c) /\ cid[c] \in reported'
      BY <1>b, <2>4, NextProceeds DEF AuditFails, HandleError
    <3> QED BY <1>b, <2>1, <2>4, <3>1 DEF OthersLoop, Deed, Finishes, Working
  <2> QED BY <2>2, <2>3, <2>4
<1>7. CASE Persist(c) \/ PersistFails(c)
  <2>1. /\ UNCHANGED <<req, snap, order, todo, cur>> /\ pc[c] = "persist"
        /\ audits' \in {audits, audits \cup {AuditOf(c)}}
        /\ NextEntry(c) \/ AuditFails(c)
        /\ AuditOf(c) \in audits' \/ cid[c] \in reported'
    BY <1>7 DEF Persist, PersistFails, AuditFails, HandleError
  <2>2. Proceeds(c)
    BY <1>b, <2>1, NextProceeds
  <2> QED BY <1>b, <2>1, <2>2 DEF OthersLoop, Deed, Finishes, Working
<1> QED
  BY <1>1, <1>2, <1>3, <1>4, <1>5, <1>6, <1>7 DEF Step, Failure

-----------------------------------------------------------------------------
(* One audit for one document *)

Written(r) == IF r.op \in DeleteOps THEN Nil ELSE r.val

(* Before it mutates, a call has written and recorded nothing.  In the     *)
(* loop it has written a document, and each entry is for another document  *)
(* of the filter, or for none.                                             *)
LoopOf(c) ==
    /\ pc[c] # "idle" =>
         \A s \in snap[c] : /\ s.doc \in req[c].ids
                            /\ \A t \in snap[c] : s.doc = t.doc => s = t
    /\ pc[c] \in {"read", "mutate"} =>
         /\ \A d \in DocId : ~Writes(d, cid[c])
         /\ \A a \in audits : a.call # cid[c]
    /\ Looping(c) =>
         /\ \E d \in req[c].ids : Writes(d, cid[c])
         /\ \A e \in todo[c] :
              /\ e.doc \in req[c].ids \cup {NoDoc}
              /\ \A f \in todo[c] : e.doc = f.doc => e = f
              /\ e.after = Written(req[c])
              /\ req[c].op = "ReplaceOne" /\ e.doc # NoDoc =>
                   \E s \in snap[c] : s.before = e.before
    /\ Working(c) =>
         /\ cur[c].doc \in req[c].ids \cup {NoDoc}
         /\ \A e \in todo[c] : e.doc # cur[c].doc

LoopInv == \A c \in Client : LoopOf(c)
LInv == OInv /\ LoopInv

(* The entries of the loop: one for each document inserted or found. *)
LEMMA EntriesAre ==
    ASSUME LInv, NEW c \in Client, pc[c] # "idle"
    PROVE  /\ \A e \in Entries(c) :
                /\ e.doc \in req[c].ids \cup {NoDoc}
                /\ \A f \in Entries(c) : e.doc = f.doc => e = f
                /\ e.after = Written(req[c])
                /\ req[c].op = "ReplaceOne" /\ e.doc # NoDoc =>
                     \E s \in snap[c] : s.before = e.before
           /\ \A d \in DocId :
                \/ req[c].op \in InsertOps /\ d \in req[c].ids
                \/ req[c].op \notin InsertOps /\ \E s \in snap[c] : s.doc = d
                => \E e \in Entries(c) : e.doc = d
<1> DEFINE r == req[c]
           found == {[doc |-> s.doc, before |-> s.before, after |-> Written(r)] :
                       s \in snap[c]}
<1>a. \A s \in snap[c] : s.doc \in r.ids /\ \A t \in snap[c] : s.doc = t.doc => s = t
  BY DEF LInv, LoopInv, LoopOf
<1>1. CASE r.op \in InsertOps
  <2>1. Entries(c) = {[doc |-> d, before |-> Nil, after |-> Written(r)] : d \in r.ids}
    BY <1>1 DEF Entries, Written
  <2>2. r.op # "ReplaceOne"
    BY <1>1 DEF InsertOps
  <2>3. \A e \in Entries(c) : /\ e.doc \in r.ids /\ e.before = Nil
                              /\ e.after = Written(r)
                              /\ \A f \in Entries(c) : e.doc = f.doc => e = f
    BY <2>1
  <2>4. ASSUME NEW d \in r.ids PROVE \E e \in Entries(c) : e.doc = d
    <3>1. [doc |-> d, before |-> Nil, after |-> Written(r)] \in Entries(c)
      BY <2>1
    <3> QED BY <3>1
  <2> QED BY <1>1, <2>2, <2>3, <2>4
<1>2. CASE r.op \notin InsertOps /\ found = {} /\ r.op \in {"UpdateOne", "ReplaceOne"}
  <2>1. Entries(c) = {[doc |-> NoDoc, before |-> Nil, after |-> Written(r)]}
    BY <1>2 DEF Entries, Written
  <2>2. snap[c] = {}
    BY <1>2
  <2> QED BY <1>2, <2>1, <2>2
<1>3. CASE r.op \notin InsertOps /\ ~(found = {} /\ r.op \in {"UpdateOne", "ReplaceOne"})
  <2>1. Entries(c) = found
    BY <1>3 DEF Entries, Written
  <2>2. \A e \in found : \E s \in snap[c] : e.doc = s.doc /\ e.before = s.before
                                            /\ e.after = Written(r)
    OBVIOUS
  <2>3. \A e, f \in found : e.doc = f.doc => e = f
    BY <1>a
  <2>4. ASSUME NEW s \in snap[c] PROVE \E e \in found : e.doc = s.doc
    <3>1. [doc |-> s.doc, before |-> s.before, after |-> Written(r)] \in found
      OBVIOUS
    <3> QED BY <3>1
  <2> QED BY <1>3, <1>a, <2>1, <2>2, <2>3, <2>4
<1> QED
  BY <1>1, <1>2, <1>3

(* The documents found are of the filter, one snapshot each. *)
LEMMA ReadsDistinct ==
    ASSUME NEW c \in Client, Reads(c), LInv
    PROVE  \A s \in snap'[c] : /\ s.doc \in req[c].ids
                               /\ \A t \in snap'[c] : s.doc = t.doc => s = t
<1>1. Found(req[c]) \subseteq req[c].ids
  BY DEF Found, Filtered, First
<1>2. \A s \in snap[c] : s.doc \in req[c].ids
                         /\ \A t \in snap[c] : s.doc = t.doc => s = t
  BY DEF Reads, LInv, LoopInv, LoopOf
<1> QED
  BY <1>1, <1>2 DEF Reads

(* What the other calls see of a step: audits and writes of a call that is *)
(* not theirs.                                                             *)
LEMMA OthersUnaffected ==
    ASSUME FInv, NEW c \in Client, Step(c) \/ Failure(c)
    PROVE  /\ audits' \in {audits, audits \cup {AuditOf(c)}} /\ AuditOf(c).call = cid[c]
           /\ \A d \in DocId, j \in Call : j # cid[c] => (Writes(d, j)' <=> Writes(d, j))
           /\ \A d \in DocId, j \in Call : Writes(d, j) => Writes(d, j)'
           /\ cid[c] \in Call
           /\ \A x \in Client \ {c} : pc[x] # "idle" => cid[x] # cid[c] /\ cid[x] \in Call
<1>1. TInv /\ pc[c] # "idle" /\ (UNCHANGED order \/ \E D : Wrote(c, D))
  BY CallStep DEF FInv
<1>2. cid[c] \in Call
        /\ \A x \in Client \ {c} : pc[x] # "idle" => cid[x] # cid[c] /\ cid[x] \in Call
  BY <1>1 DEF FInv, TInv, BusyCall, NumbersInv
<1>3. \A d \in DocId, j \in Call : Writes(d, j) => Writes(d, j)'
  <2> SUFFICES ASSUME NEW d \in DocId, NEW j \in Call, Writes(d, j) PROVE Writes(d, j)'
    OBVIOUS
  <2>1. order[d] \in Seq(Call)
    BY <1>1 DEF TInv, TypeOK
  <2>2. order'[d] = order[d] \/ order'[d] = Append(order[d], cid[c])
    BY <1>1 DEF Wrote
  <2> QED BY <2>1, <2>2 DEF Writes
<1>4. \A d \in DocId, j \in Call : j # cid[c] /\ Writes(d, j)' => Writes(d, j)
  <2>1. CASE UNCHANGED order
    BY <2>1 DEF Writes
  <2>2. CASE \E D : Wrote(c, D)
    BY <1>1, <2>2, WriteAdds
  <2> QED BY <1>1, <2>1, <2>2
<1>5. audits' \in {audits, audits \cup {AuditOf(c)}}
  BY <1>1, StepKinds DEF Quiet, Allocates, Burns, Records
<1> QED
  BY <1>2, <1>3, <1>4, <1>5 DEF AuditOf

(* What c writes it has written. *)
LEMMA WroteWrites ==
    ASSUME TInv, NEW c \in Client, NEW D, Wrote(c, D), UNCHANGED cid,
           NEW d \in DocId, NEW j \in Call
    PROVE  /\ d \in D /\ j = cid[c] => Writes(d, j)'
           /\ Writes(d, j)' => Writes(d, j) \/ (d \in D /\ j = cid[c])
<1>1. order[d] \in Seq(Call)
  BY DEF TInv, TypeOK
<1>2. order'[d] = IF d \in D THEN Append(order[d], cid[c]) ELSE order[d]
  BY DEF Wrote
<1>3. Writes(d, j)' => Writes(d, j) \/ (d \in D /\ j = cid[c])
  BY <1>1, <1>2 DEF Writes
<1>4. ASSUME d \in D PROVE Writes(d, cid[c])'
  <2>1. order'[d] = Append(order[d], cid[c])
    BY <1>2, <1>4
  <2>2. Len(order[d]) + 1 \in DOMAIN order'[d]
        /\ order'[d][Len(order[d]) + 1] = cid[c]
    BY <1>1, <2>1
  <2>3. UNCHANGED cid => Writes(d, cid[c])'
    BY <2>2 DEF Writes
  <2> QED BY <2>3
<1> QED
  BY <1>3, <1>4

(* A new call begins with nothing. *)
LEMMA BeginIs ==
    ASSUME OInv, NEW c \in Client, NEW r \in Requests, Begin(c, r)
    PROVE  /\ UNCHANGED <<coll, audits, order, reported, outcome>>
           /\ OthersLoop(c) /\ \A x \in Client \ {c} : req'[x] = req[x] /\ cid'[x] = cid[x]
           /\ pc[c] = "idle" /\ pc'[c] \in {"read", "mutate"}
           /\ pc'[c] = "mutate" => r.op \in InsertOps
           /\ cid'[c] = calls + 1 /\ calls' = calls + 1 /\ calls + 1 \in Call /\ calls \in Nat
           /\ snap'[c] = {} /\ req'[c] = r /\ outcome[calls + 1] = "none"
           /\ \A a \in audits : a.call # calls + 1
           /\ \A d \in DocId, j \in Call : Writes(d, j)' <=> Writes(d, j)
           /\ \A d \in DocId : ~Writes(d, calls + 1)
           /\ \A k \in Call \ {calls + 1} : earlier'[k] = earlier[k]
<1>1. /\ UNCHANGED <<coll, audits, order, reported, outcome>>
      /\ OthersLoop(c) /\ \A x \in Client \ {c} : req'[x] = req[x] /\ cid'[x] = cid[x]
      /\ pc[c] = "idle" /\ pc'[c] \in {"read", "mutate"}
      /\ pc'[c] = "mutate" => r.op \in InsertOps
      /\ cid'[c] = calls + 1 /\ calls' = calls + 1 /\ calls + 1 \in Call /\ calls \in Nat
      /\ snap'[c] = {} /\ req'[c] = r
      /\ \A k \in Call \ {calls + 1} : earlier'[k] = earlier[k]
  BY BoundAssumption DEF Begin, Goto, OInv, FInv, TInv, TypeOK, Call, OthersLoop
<1>2. \A a \in audits : a.call \in Nat /\ a.call <= calls
  BY DEF OInv, OrderedInv, FInv, TInv, TypeOK, Audit, Call
<1> QED
  BY <1>1, <1>2 DEF OInv, FInv, NumbersInv, Writes

(* The loop of a call that does not move is as it was. *)
LEMMA LoopOthers ==
    ASSUME LInv, NEW c \in Client, NEW x \in Client \ {c}, OthersLoop(c),
           req'[x] = req[x], cid'[x] = cid[x],
           \A d \in DocId : Writes(d, cid[x])' <=> Writes(d, cid[x]),
           \A a \in audits' \ audits : a.call # cid[x]
    PROVE  LoopOf(x)'
<1>1. LoopOf(x) /\ req[x].ids \subseteq DocId
  BY DEF LInv, LoopInv, OInv, FInv, TInv, TypeOK, Request
<1>2. /\ pc'[x] = pc[x] /\ snap'[x] = snap[x] /\ todo'[x] = todo[x] /\ cur'[x] = cur[x]
      /\ Looping(x)' = Looping(x) /\ Working(x)' = Working(x)
  BY DEF OthersLoop, Looping, Working
<1>3. pc[x] # "idle" => \A s \in snap[x] : /\ s.doc \in req[x].ids
                              /\ \A t \in snap[x] : s.doc = t.doc => s = t
  BY <1>1 DEF LoopOf
<1>4. pc'[x] \in {"read", "mutate"} =>
         /\ \A d \in DocId : ~Writes(d, cid[x])'
         /\ \A a \in audits' : a.call # cid'[x]
  BY <1>1, <1>2 DEF LoopOf
<1>5. Looping(x)' => \E d \in req'[x].ids : Writes(d, cid[x])'
  BY <1>1, <1>2 DEF LoopOf
<1>6. Looping(x) =>
         \A e \in todo[x] :
              /\ e.doc \in req[x].ids \cup {NoDoc}
              /\ \A f \in todo[x] : e.doc = f.doc => e = f
              /\ e.after = Written(req[x])
              /\ req[x].op = "ReplaceOne" /\ e.doc # NoDoc =>
                   \E s \in snap[x] : s.before = e.before
  BY <1>1 DEF LoopOf
<1>7. Working(x) => /\ cur[x].doc \in req[x].ids \cup {NoDoc}
                    /\ \A e \in todo[x] : e.doc # cur[x].doc
  BY <1>1 DEF LoopOf
<1> QED
  BY <1>2, <1>3, <1>4, <1>5, <1>6, <1>7 DEF LoopOf

(* A step of a call keeps its loop in shape. *)
LEMMA LoopStep ==
    ASSUME LInv, TInv', NEW c \in Client, Step(c) \/ Failure(c)
    PROVE  LoopOf(c)'
<1> DEFINE k == cid[c]  r == req[c]
<1>0. FInv /\ TInv /\ LoopOf(c)
  BY DEF LInv, OInv, FInv, LoopInv
<1>1. /\ pc[c] # "idle" /\ UNCHANGED <<cid, req>> /\ Deed(c)
      /\ UNCHANGED order \/ \E D : Wrote(c, D)
  BY <1>0, CallStep, Deeds
<1>2. /\ k \in Call /\ r.ids \subseteq DocId
      /\ \A d \in DocId : Writes(d, k) => Writes(d, k)'
  <2>1. k \in Call /\ \A d \in DocId, j \in Call : Writes(d, j) => Writes(d, j)'
    BY <1>0, OthersUnaffected
  <2>2. \A d \in DocId : Writes(d, k) => Writes(d, k)'
    BY <1>1, <2>1 DEF Writes
  <2> QED BY <1>0, <2>1, <2>2 DEF TInv, TypeOK, Request
<1>3. \A d \in r.ids : Writes(d, k) => Writes(d, cid[c])'
  BY <1>1, <1>2
<1>4. CASE Reads(c)
  <2>1. /\ pc'[c] = "mutate" /\ ~Looping(c)' /\ ~Working(c)' /\ UNCHANGED <<order, audits>>
        /\ pc[c] = "read"
    BY <1>4 DEF Reads, Looping, Working
  <2>2. \A d \in DocId : ~Writes(d, cid[c])'
    BY <1>0, <1>1, <2>1 DEF LoopOf, Writes
  <2>3. \A a \in audits' : a.call # cid'[c]
    BY <1>0, <1>1, <2>1 DEF LoopOf
  <2>4. \A s \in snap'[c] : /\ s.doc \in req'[c].ids
                            /\ \A t \in snap'[c] : s.doc = t.doc => s = t
    BY <1>1, <1>4, ReadsDistinct
  <2> QED BY <2>1, <2>2, <2>3, <2>4 DEF LoopOf
<1>a. CASE UNCHANGED snap
  <2>0. pc'[c] # "idle" =>
          \A s \in snap'[c] : /\ s.doc \in req'[c].ids
                              /\ \A t \in snap'[c] : s.doc = t.doc => s = t
    BY <1>0, <1>1, <1>a DEF LoopOf
  <2>1. CASE Changes(c)
    <3>1. PICK D \in SUBSET r.ids :
            Wrote(c, D) /\ (pc'[c] = "compute" => D # {} /\ todo'[c] = Entries(c))
      BY <2>1 DEF Changes
    <3>2. pc'[c] \in {"compute", "idle"} /\ ~Working(c)' /\ (Looping(c)' => pc'[c] = "compute")
      BY <2>1 DEF Changes, Looping, Working
    <3>3. ASSUME pc'[c] = "compute"
          PROVE  /\ \E d \in req'[c].ids : Writes(d, cid[c])'
                 /\ \A e \in todo'[c] :
                      /\ e.doc \in req'[c].ids \cup {NoDoc}
                      /\ \A f \in todo'[c] : e.doc = f.doc => e = f
                      /\ e.after = Written(req'[c])
                      /\ req'[c].op = "ReplaceOne" /\ e.doc # NoDoc =>
                           \E s \in snap'[c] : s.before = e.before
      <4>1. PICK d \in D : TRUE
        BY <3>1, <3>3
      <4>2. Writes(d, k)'
        BY <1>0, <1>1, <1>2, <3>1, <4>1, WroteWrites
      <4>3. todo'[c] = Entries(c)
        BY <3>1, <3>3
      <4> QED BY <1>1, <1>a, <3>1, <4>1, <4>2, <4>3, EntriesAre
    <3> QED BY <2>0, <3>2, <3>3 DEF LoopOf
  <2>2. CASE Dies(c)
    BY <2>0, <2>2 DEF Dies, LoopOf, Looping, Working
  <2>3. CASE Drops(c) \/ Starts(c)
    <3>1. PICK e \in todo[c] :
            /\ todo'[c] = todo[c] \ {e}
            /\ Working(c)' => cur'[c].doc = e.doc
      BY <2>3 DEF Drops, Starts, Proceeds, Working, SameChange
    <3>2. Looping(c) /\ pc'[c] \notin {"read", "mutate"}
      BY <2>3 DEF Drops, Starts, Proceeds, Looping
    <3>3. \E d \in req'[c].ids : Writes(d, cid[c])'
      BY <1>0, <1>1, <1>3, <3>2 DEF LoopOf
    <3>4. \A f \in todo'[c] : f \in todo[c] /\ f # e
      BY <3>1
    <3>5. \A f \in todo[c] :
            /\ f.doc \in r.ids \cup {NoDoc}
            /\ \A g \in todo[c] : f.doc = g.doc => f = g
            /\ f.after = Written(r)
            /\ r.op = "ReplaceOne" /\ f.doc # NoDoc =>
                 \E s \in snap[c] : s.before = f.before
      BY <1>0, <3>2 DEF LoopOf
    <3>6. \A f \in todo'[c] : f.doc # e.doc
      BY <3>1, <3>4, <3>5
    <3>7. Working(c)' => /\ cur'[c].doc \in req'[c].ids \cup {NoDoc}
                         /\ \A f \in todo'[c] : f.doc # cur'[c].doc
      BY <1>1, <3>1, <3>5, <3>6
    <3> QED BY <1>1, <1>a, <2>0, <3>2, <3>3, <3>4, <3>5, <3>7 DEF LoopOf
  <2>4. CASE Works(c) \/ Finishes(c)
    <3>1. Working(c) /\ Looping(c) /\ todo'[c] = todo[c]
          /\ pc'[c] \notin {"read", "mutate"} /\ cur'[c].doc = cur[c].doc
      BY <2>4 DEF Works, Finishes, Looping, Proceeds, SameChange
    <3>3. \E d \in req'[c].ids : Writes(d, cid[c])'
      BY <1>0, <1>1, <1>3, <3>1 DEF LoopOf
    <3> QED BY <1>0, <1>1, <1>a, <2>0, <3>1, <3>3 DEF LoopOf
  <2> QED BY <1>1, <1>4, <2>1, <2>2, <2>3, <2>4 DEF Deed
<1> QED
  BY <1>1, <1>4, <1>a DEF Deed, Changes, Drops, Starts, Works, Finishes, Dies

(* So do all steps. *)
LEMMA LoopNext == LInv /\ [Next]_vars => LInv'
<1> SUFFICES ASSUME LInv, [Next]_vars PROVE LInv'
  OBVIOUS
<1>1. OInv' /\ TInv' /\ FInv
  BY OrderedNext DEF LInv, OInv, FInv
<1>2. CASE UNCHANGED vars
  BY <1>1, <1>2 DEF LInv, LoopInv, LoopOf, Looping, Working, Writes, vars, localVars,
     ghostVars
<1>3. ASSUME NEW c \in Client, NEW r \in Requests, Begin(c, r) PROVE LoopInv'
  <2>1. LoopOf(c)'
    <3>1. snap'[c] = {} /\ ~Looping(c)' /\ ~Working(c)'
      BY <1>3, BeginIs DEF Looping, Working, LInv
    <3>2. /\ cid'[c] = calls + 1 /\ calls + 1 \in Call
          /\ \A d \in DocId : ~Writes(d, calls + 1)
          /\ \A d \in DocId, j \in Call : Writes(d, j)' <=> Writes(d, j)
          /\ UNCHANGED audits /\ \A a \in audits : a.call # calls + 1
      BY <1>3, BeginIs DEF LInv
    <3>3. \A d \in DocId : ~Writes(d, cid[c])'
      BY <3>2 DEF Writes
    <3>4. \A a \in audits' : a.call # cid'[c]
      BY <3>2
    <3>5. \A s \in snap'[c] : /\ s.doc \in req'[c].ids
                              /\ \A t \in snap'[c] : s.doc = t.doc => s = t
      BY <3>1
    <3> QED BY <3>1, <3>3, <3>4, <3>5 DEF LoopOf
  <2>2. ASSUME NEW x \in Client \ {c} PROVE LoopOf(x)'
    <3>1. UNCHANGED <<audits, order>> /\ OthersLoop(c)
          /\ req'[x] = req[x] /\ cid'[x] = cid[x]
      BY <1>3, BeginIs DEF LInv
    <3>2. \A d \in DocId : Writes(d, cid[x])' <=> Writes(d, cid[x])
      BY <3>1 DEF Writes
    <3> QED BY <3>1, <3>2, LoopOthers
  <2> QED BY <2>1, <2>2 DEF LoopInv
<1>4. ASSUME NEW c \in Client, Step(c) \/ Failure(c) PROVE LoopInv'
  <2>1. LoopOf(c)'
    BY <1>1, <1>4, LoopStep
  <2>2. ASSUME NEW x \in Client \ {c} PROVE LoopOf(x)'
    <3>1. /\ UNCHANGED <<req, cid>> /\ OthersLoop(c)
      BY <1>1, <1>4, CallStep, Deeds DEF FInv
    <3>2. CASE pc[x] = "idle"
      BY <3>1, <3>2 DEF OthersLoop, LoopOf, Looping, Working
    <3>3. CASE pc[x] # "idle"
      <4>1. /\ cid[x] # cid[c] /\ cid[x] \in Call
            /\ \A d \in DocId, j \in Call : j # cid[c] => (Writes(d, j)' <=> Writes(d, j))
            /\ \A a \in audits' \ audits : a.call = cid[c]
        BY <1>1, <1>4, <3>3, OthersUnaffected
      <4>2. \A d \in DocId : Writes(d, cid[x])' <=> Writes(d, cid[x])
        BY <3>1, <4>1 DEF Writes
      <4>3. req'[x] = req[x] /\ cid'[x] = cid[x] /\ OthersLoop(c)
            /\ \A a \in audits' \ audits : a.call # cid[x]
        BY <3>1, <4>1
      <4> QED BY <4>2, <4>3, LoopOthers
    <3> QED BY <3>2, <3>3
  <2> QED BY <2>1, <2>2 DEF LoopInv
<1> QED
  BY <1>1, <1>2, <1>3, <1>4 DEF LInv, Next

(* No loop runs at first. *)
LEMMA LoopInit == Init => LInv
<1> SUFFICES ASSUME Init PROVE LoopInv
  BY OrderedInit DEF LInv
<1> QED
  BY DEF Init, LoopInv, LoopOf, Looping, Working

(* The loops stay in shape in every reachable state. *)
LEMMA LoopInvariant == Spec => []LInv
  BY LoopInit, LoopNext, PTL DEF Spec

(* An audit of a call whose filter names one _id names that document, and  *)
(* the call wrote it; or it has the id of no document, because the         *)
(* pre-read found none.                                                    *)
THEOREM AuditNamesWrittenDocument ==
    ASSUME IsFiniteSet(DocId)
    PROVE  Spec => []NamedDocumentWasWritten
<1>1. LInv => NamedDocumentWasWritten
  <2> SUFFICES ASSUME LInv, NEW c \in Client, pc[c] = "persist", Cardinality(req[c].ids) = 1,
                      AuditOf(c).id # IdString[NoDoc]
               PROVE  \E d \in DocId : AuditOf(c).id = IdString[d] /\ Writes(d, cid[c])
    BY DEF NamedDocumentWasWritten
  <2>1. req[c].ids \in SUBSET DocId
    BY DEF LInv, OInv, FInv, TInv, TypeOK, Request
  <2>2. IsFiniteSet(req[c].ids)
    BY <2>1, FS_Subset
  <2>3. PICK d : req[c].ids = {d}
    BY <2>2, FS_Singleton
  <2>4. LoopOf(c) /\ Working(c) /\ Looping(c)
    BY DEF LInv, LoopInv, Working, Looping
  <2>5. cur[c].doc \in {d, NoDoc} /\ Writes(d, cid[c])
    BY <2>3, <2>4 DEF LoopOf
  <2>6. AuditOf(c).id = IdString[cur[c].doc]
    BY DEF AuditOf, CurId
  <2> QED BY <2>1, <2>3, <2>5, <2>6
<1> QED
  BY <1>1, LoopInvariant, PTL

-----------------------------------------------------------------------------
(* fmt.Sprint tells all _ids, and a missing one, apart. *)
IdsApart == \A d, e \in DocId \cup {NoDoc} : IdString[d] = IdString[e] => d = e

(* What a call has still to audit it has not audited. *)
OnceOf(c) ==
    Looping(c) =>
      \A a \in audits : a.call = cid[c] =>
        /\ \A e \in todo[c] : a.id # IdString[e.doc]
        /\ Working(c) => a.id # CurId(c)

OnceInv == IdsApart => AuditedOncePerCall /\ \A c \in Client : OnceOf(c)

(* Every step keeps this. *)
LEMMA OnceNext == LInv /\ OnceInv /\ [Next]_vars => OnceInv'
<1> SUFFICES ASSUME LInv, OnceInv, [Next]_vars, IdsApart
             PROVE  AuditedOncePerCall' /\ \A c \in Client : OnceOf(c)'
  BY DEF OnceInv
<1>0. FInv /\ TInv
  BY DEF LInv, OInv, FInv
<1>1. AuditedOncePerCall /\ \A c \in Client : OnceOf(c)
  BY DEF OnceInv
<1>2. CASE UNCHANGED vars
  BY <1>1, <1>2 DEF AuditedOncePerCall, OnceOf, Looping, Working, CurId, vars, localVars
<1>3. ASSUME NEW c \in Client, NEW r \in Requests, Begin(c, r)
      PROVE  AuditedOncePerCall' /\ \A x \in Client : OnceOf(x)'
  <2>1. /\ UNCHANGED audits /\ OthersLoop(c) /\ ~Looping(c)'
        /\ \A x \in Client \ {c} : cid'[x] = cid[x]
    BY <1>3, BeginIs DEF LInv, Looping, Working
  <2> QED BY <1>1, <2>1 DEF AuditedOncePerCall, OnceOf, OthersLoop, Looping, Working, CurId
<1>4. ASSUME NEW c \in Client, Step(c) \/ Failure(c)
      PROVE  AuditedOncePerCall' /\ \A x \in Client : OnceOf(x)'
  <2> DEFINE n == AuditOf(c)
  <2>1. /\ UNCHANGED cid /\ pc[c] # "idle" /\ OthersLoop(c) /\ Deed(c)
        /\ audits' \in {audits, audits \cup {n}} /\ n.call = cid[c] /\ n.id = CurId(c)
        /\ \A x \in Client \ {c} : pc[x] # "idle" => cid[x] # cid[c]
    BY <1>0, <1>4, CallStep, Deeds, OthersUnaffected DEF AuditOf
  <2>2. ASSUME NEW x \in Client \ {c} PROVE OnceOf(x)'
    <3>1. /\ pc'[x] = pc[x] /\ todo'[x] = todo[x] /\ cur'[x] = cur[x] /\ cid'[x] = cid[x]
          /\ Looping(x)' = Looping(x) /\ Working(x)' = Working(x) /\ CurId(x)' = CurId(x)
      BY <2>1 DEF OthersLoop, Looping, Working, CurId
    <3>2. Looping(x) => pc[x] # "idle"
      BY DEF Looping, Working
    <3> QED BY <1>1, <2>1, <3>1, <3>2 DEF OnceOf
  <2>3. LoopOf(c) /\ OnceOf(c)
    BY <1>1 DEF LInv, LoopInv
  <2>4. CASE UNCHANGED audits
    <3>1. AuditedOncePerCall'
      BY <1>1, <2>4 DEF AuditedOncePerCall
    <3>2. OnceOf(c)'
      <4>1. CASE Changes(c)
        <5>1. pc[c] = "mutate" /\ \A a \in audits : a.call # cid[c]
          BY <2>3, <4>1 DEF Changes, LoopOf
        <5> QED BY <2>1, <2>4, <5>1 DEF OnceOf
      <4>2. CASE Reads(c) \/ Dies(c)
        BY <4>2 DEF Reads, Dies, OnceOf, Looping, Working
      <4>3. CASE Drops(c) \/ Starts(c)
        <5>1. PICK e \in todo[c] :
                /\ todo'[c] = todo[c] \ {e}
                /\ Working(c)' => cur'[c].doc = e.doc
          BY <4>3 DEF Drops, Starts, Proceeds, Working, SameChange
        <5>2. Looping(c)
          BY <4>3 DEF Drops, Starts, Looping
        <5> QED BY <2>1, <2>3, <2>4, <5>1, <5>2 DEF OnceOf, CurId
      <4>4. CASE Works(c) \/ Finishes(c)
        <5>1. Working(c) /\ Looping(c) /\ todo'[c] = todo[c] /\ cur'[c].doc = cur[c].doc
          BY <4>4 DEF Works, Finishes, Looping, SameChange
        <5> QED BY <2>1, <2>3, <2>4, <5>1 DEF OnceOf, CurId
      <4> QED BY <2>1, <4>1, <4>2, <4>3, <4>4 DEF Deed
    <3> QED BY <2>2, <3>1, <3>2
  <2>5. CASE audits' = audits \cup {n} /\ audits' # audits
    <3>1. Finishes(c)
      BY <2>1, <2>5 DEF Deed, Reads, Changes, Drops, Starts, Works, Dies
    <3>2. Working(c) /\ Looping(c) /\ todo'[c] = todo[c] /\ cur'[c] = cur[c]
          /\ ~Working(c)'
      BY <3>1 DEF Finishes, Looping, Proceeds, Working
    <3>3. \A a \in audits : a.call = cid[c] => a.id # CurId(c)
      BY <2>3, <3>2 DEF OnceOf
    <3>4. AuditedOncePerCall'
      BY <1>1, <2>1, <2>5, <3>3 DEF AuditedOncePerCall
    <3>5. \A e \in todo[c] : IdString[e.doc] # CurId(c)
      <4> SUFFICES ASSUME NEW e \in todo[c] PROVE IdString[e.doc] # CurId(c)
        OBVIOUS
      <4>1. e.doc # cur[c].doc
        BY <2>3, <3>2 DEF LoopOf
      <4>2. e.doc \in DocId \cup {NoDoc} /\ cur[c].doc \in DocId \cup {NoDoc}
        BY <1>0 DEF TInv, TypeOK, Entry, Pending
      <4> QED BY <4>1, <4>2 DEF IdsApart, CurId
    <3>6. OnceOf(c)'
      BY <2>1, <2>3, <2>5, <3>2, <3>5 DEF OnceOf
    <3> QED BY <2>2, <3>4, <3>6
  <2> QED BY <2>1, <2>4, <2>5
<1> QED
  BY <1>2, <1>3, <1>4 DEF Next

(* A call writes at most one audit for a document, also when the answer to *)
(* an insert was lost, if the strings that stand for _ids tell them apart. *)
THEOREM OneAuditPerDocument ==
    ASSUME IdsApart
    PROVE  Spec => []AuditedOncePerCall
<1>1. Init => OnceInv
  BY DEF Init, OnceInv, OnceOf, AuditedOncePerCall
<1>2. OnceInv => AuditedOncePerCall
  BY DEF OnceInv
<1> QED
  BY <1>1, <1>2, OnceNext, LoopInvariant, PTL DEF Spec

-----------------------------------------------------------------------------
(* Nothing is silently missing *)

(* Why nothing is missing for document d: the audit is there, or the error *)
(* is reported, or there was nothing to audit; ...                         *)
Covered(c, d) ==
    \/ \E a \in audits : a.call = cid[c] /\ a.id = IdString[d]
    \/ cid[c] \in reported
    \/ req[c].op \in IdOnlyOps /\ req[c].val = Nil
    \/ req[c].op = "ReplaceOne" /\ \E s \in snap[c] : s.before = req[c].val

(* ... or, while the loop runs, it is still to come.                       *)
Due(c, d) ==
    /\ Looping(c)
    /\ (\E e \in todo[c] : e.doc = d) \/ (Working(c) /\ cur[c].doc = d)

CoverOf(c) ==
    \/ Looping(c)
    \/ pc[c] = "idle" /\ cid[c] # 0 /\ AllowsOp(req[c].op) /\ outcome[cid[c]] = "ok"
    => \A d \in DocId : Writes(d, cid[c]) /\ Knows(c, d) => Covered(c, d) \/ Due(c, d)

(* A call that runs alone is about to write what its pre-read found.       *)
SeesOf(c) ==
    pc[c] = "mutate" /\ req[c].op \notin InsertOps /\ Alone(cid[c])
      /\ req[c].plain = req[c].match =>
        \/ cid[c] \in reported
        \/ \A d \in Selected(req[c]) : \E s \in snap[c] : s.doc = d

CoverInv ==
    \A c \in Client :
      /\ \A x \in Client \ {c} : cid[c] # 0 => cid[c] # cid[x]
      /\ SeesOf(c)
      /\ CoverOf(c)

CInv == LInv /\ CoverInv

(* Calls are only added, each after those before. *)
LEMMA CallsGrow ==
    ASSUME OInv, [Next]_vars
    PROVE  /\ calls' \in Nat /\ calls \in Nat /\ calls <= calls'
           /\ \A j \in 1..calls : earlier'[j] = earlier[j]
<1>1. calls \in Nat
  BY BoundAssumption DEF OInv, FInv, TInv, TypeOK
<1>2. CASE UNCHANGED vars
  BY <1>1, <1>2 DEF vars, ghostVars
<1>3. ASSUME NEW c \in Client, NEW r \in Requests, Begin(c, r)
      PROVE  calls' = calls + 1 /\ \A j \in Call \ {calls + 1} : earlier'[j] = earlier[j]
  BY <1>3, BeginIs
<1>4. ASSUME NEW c \in Client, Step(c) \/ Failure(c)
      PROVE  UNCHANGED <<calls, earlier>>
  BY <1>4, CallStep, EarlierKept DEF OInv, FInv
<1>5. 1..calls \subseteq Call \ {calls + 1}
  BY <1>1, BoundAssumption DEF OInv, FInv, TInv, TypeOK, Call
<1> QED
  BY <1>1, <1>2, <1>3, <1>4, <1>5 DEF Next

(* A call that runs alone has done so from its beginning. *)
LEMMA AloneBack ==
    ASSUME OInv, [Next]_vars, NEW k \in Call, k <= calls, Alone(k)'
    PROVE  Alone(k)
<1>1. calls' \in Nat /\ calls \in Nat
      /\ calls <= calls' /\ \A j \in 1..calls : earlier'[j] = earlier[j]
  BY CallsGrow
<1>2. k \in 1..calls
  BY <1>1 DEF Call
<1>3. \A j \in 1..calls : j \in 1..calls'
  BY <1>1
<1> QED
  BY <1>1, <1>2, <1>3 DEF Alone

(* What a call knows it knows for good, and it knew it before others came. *)
LEMMA KnowsBack ==
    ASSUME OInv, [Next]_vars, NEW c \in Client, NEW d \in DocId,
           req'[c] = req[c], cid'[c] = cid[c], snap'[c] = snap[c],
           cid[c] \in Call, Knows(c, d)'
    PROVE  Knows(c, d)
<1>1. cid[c] <= calls
  BY DEF OInv, FInv, NumbersInv
<1>2. Alone(cid[c])' => Alone(cid[c])
  <2>1. Alone(cid[c])' => \A j \in 1..calls' \ {cid[c]} :
                            j \in earlier'[cid[c]] \/ cid[c] \in earlier'[j]
    BY DEF Alone
  <2> QED BY <1>1, <2>1, AloneBack DEF Alone
<1> QED
  BY <1>2 DEF Knows

(* What covers a document keeps covering it. *)
LEMMA CoveredStays ==
    ASSUME NEW c \in Client, NEW d \in DocId, Covered(c, d),
           req'[c] = req[c], cid'[c] = cid[c], snap'[c] = snap[c],
           audits \subseteq audits', reported \subseteq reported'
    PROVE  Covered(c, d)'
  BY DEF Covered

(* An entry that is dropped without an error had no changes to audit. *)
LEMMA DroppedIsCovered ==
    ASSUME LInv, NEW c \in Client, pc[c] = "compute", NEW e \in todo[c],
           NoChanges(req[c], e), e.doc \in DocId
    PROVE  Covered(c, e.doc)
<1>1. /\ e.after = Written(req[c])
      /\ req[c].op = "ReplaceOne" => \E s \in snap[c] : s.before = e.before
  BY DocIdAssumption DEF LInv, LoopInv, LoopOf, Looping, NoDoc
<1>2. req[c].op \in UpdateOps
  BY DEF NoChanges, IdOnlyOps, UpdateOps
<1>3. e.after = req[c].val
  BY <1>1, <1>2 DEF Written, UpdateOps, DeleteOps
<1>4. CASE req[c].op \in IdOnlyOps
  BY <1>3, <1>4 DEF NoChanges, Covered
<1>5. CASE req[c].op \notin IdOnlyOps
  <2>1. req[c].op = "ReplaceOne" /\ e.before = e.after
    BY <1>2, <1>5 DEF NoChanges, UpdateOps, IdOnlyOps
  <2> QED BY <1>1, <1>3, <2>1 DEF Covered
<1> QED
  BY <1>4, <1>5

(* The documents the operation writes are covered or in the loop. *)
LEMMA ChangesCovers ==
    ASSUME CInv, NEW c \in Client, Changes(c), UNCHANGED <<req, cid>>,
           reported \subseteq reported', [Next]_vars
    PROVE  CoverOf(c)'
<1> DEFINE r == req[c]  k == cid[c]
<1>1. /\ LInv /\ OInv /\ TInv /\ k \in Call /\ pc[c] = "mutate" /\ UNCHANGED snap
      /\ pc'[c] \in {"compute", "idle"}
      /\ SeesOf(c) /\ \A d \in DocId : ~Writes(d, k)
  BY DEF CInv, CoverInv, LInv, LoopInv, LoopOf, OInv, FInv, TInv, BusyCall, Changes
<1>2. PICK D \in SUBSET r.ids :
         /\ Wrote(c, D)
         /\ pc'[c] = "compute" => D # {} /\ todo'[c] = Entries(c)
         /\ pc'[c] = "compute" \/ outcome'[k] = "ok" =>
              IF r.op \in InsertOps THEN D = r.ids
              ELSE D = Selected(r) \/ r.upsert
         /\ pc'[c] = "idle" /\ outcome'[k] = "ok" /\ AllowsOp(r.op) =>
              \/ Entries(c) = {}
              \/ r.op \notin InsertOps /\ (D = {} \/ r.upsert)
  BY DEF Changes
<1> SUFFICES ASSUME \/ pc'[c] = "compute"
                    \/ pc'[c] = "idle" /\ AllowsOp(r.op) /\ outcome'[k] = "ok",
                    NEW d \in DocId, Writes(d, cid[c])', Knows(c, d)'
             PROVE  Covered(c, d)' \/ Due(c, d)'
  BY <1>1 DEF CoverOf, Looping, Working
<1>3. d \in D
  <2>1. Writes(d, k)' => Writes(d, k) \/ d \in D
    BY <1>1, <1>2, WroteWrites
  <2> QED BY <1>1, <2>1
<1>4. Knows(c, d)
  BY <1>1, KnowsBack
<1>5. k \in reported \/ \E e \in Entries(c) : e.doc = d
  <2>1. CASE r.op \in InsertOps
    BY <1>1, <1>2, <1>3, <2>1, EntriesAre
  <2>2. CASE r.op \notin InsertOps /\ \E s \in snap[c] : s.doc = d
    BY <1>1, <2>2, EntriesAre
  <2>3. CASE r.op \notin InsertOps /\ ~r.upsert /\ Alone(k) /\ r.plain = r.match
    <3>1. D = Selected(r)
      BY <1>2, <2>3
    <3>2. k \in reported \/ \E s \in snap[c] : s.doc = d
      BY <1>1, <1>3, <2>3, <3>1 DEF SeesOf
    <3> QED BY <2>2, <2>3, <3>2
  <2> QED BY <1>4, <2>1, <2>2, <2>3 DEF Knows
<1>6. CASE k \in reported
  BY <1>6 DEF Covered
<1>7. CASE pc'[c] = "compute"
  BY <1>2, <1>5, <1>6, <1>7 DEF Due, Looping
<1>8. CASE pc'[c] = "idle" /\ k \notin reported
  <2>1. r.op \notin InsertOps /\ r.upsert
    BY <1>2, <1>3, <1>5, <1>8
  <2> QED BY <1>4, <2>1 DEF Knows
<1> QED
  BY <1>1, <1>6, <1>7, <1>8

(* The loop covers what is due. *)
LEMMA LoopCovers ==
    ASSUME CInv, NEW c \in Client, Drops(c) \/ Starts(c) \/ Works(c) \/ Finishes(c),
           UNCHANGED <<req, cid>>, reported \subseteq reported', [Next]_vars
    PROVE  CoverOf(c)'
<1> DEFINE k == cid[c]
<1>1. /\ LInv /\ OInv /\ UNCHANGED <<snap, order>> /\ Looping(c)
      /\ audits \subseteq audits' /\ CoverOf(c)
  BY DEF CInv, CoverInv, LInv, Drops, Starts, Works, Finishes, Looping
<1>2. k \in Call
  BY <1>1 DEF OInv, FInv, TInv, BusyCall, Looping, Working
<1>3. /\ pc'[c] \in {"compute", "alloc", "upsert", "persist", "idle"}
      /\ pc'[c] = "idle" /\ outcome'[k] = "ok" => todo'[c] = {}
  BY DEF Drops, Starts, Works, Finishes, Proceeds
<1> SUFFICES ASSUME \/ pc'[c] # "idle"
                    \/ pc'[c] = "idle" /\ outcome'[k] = "ok",
                    NEW d \in DocId, Writes(d, cid[c])', Knows(c, d)'
             PROVE  Covered(c, d)' \/ Due(c, d)'
  BY <1>3 DEF CoverOf, Looping, Working
<1>4. Writes(d, k) /\ Knows(c, d)
  BY <1>1, <1>2, KnowsBack DEF Writes
<1>5. CASE Covered(c, d)
  BY <1>1, <1>5, CoveredStays
<1>6. ASSUME NEW e \in todo'[c], e.doc = d PROVE Due(c, d)'
  BY <1>3, <1>6 DEF Due, Looping, Working
<1>7. CASE ~Covered(c, d) /\ (Drops(c) \/ Starts(c))
  <2>1. PICK f \in todo[c] : f.doc = d
    BY <1>1, <1>4, <1>7 DEF CoverOf, Due, Drops, Starts, Working
  <2>2. CASE Drops(c)
    <3>1. PICK e \in todo[c] :
             todo'[c] = todo[c] \ {e} /\ (k \in reported' \/ NoChanges(req[c], e))
      BY <2>2 DEF Drops
    <3>2. CASE f # e
      BY <1>6, <2>1, <3>1, <3>2
    <3>3. CASE f = e /\ k \in reported'
      BY <3>3 DEF Covered
    <3>4. CASE f = e /\ NoChanges(req[c], e)
      BY <1>1, <1>7, <2>1, <2>2, <3>4, DroppedIsCovered DEF Drops
    <3> QED BY <3>1, <3>2, <3>3, <3>4
  <2>3. CASE Starts(c)
    <3>1. PICK e \in todo[c] : todo'[c] = todo[c] \ {e} /\ cur'[c].doc = e.doc
      BY <2>3 DEF Starts, SameChange
    <3>2. CASE f # e
      BY <1>6, <2>1, <3>1, <3>2
    <3>3. CASE f = e
      BY <2>1, <2>3, <3>1, <3>3 DEF Starts, Due, Looping, Working
    <3> QED BY <3>2, <3>3
  <2> QED BY <1>7, <2>2, <2>3
<1>8. CASE ~Covered(c, d) /\ (Works(c) \/ Finishes(c))
  <2>1. Due(c, d) /\ todo'[c] = todo[c]
    BY <1>1, <1>4, <1>8 DEF CoverOf, Works, Finishes
  <2>2. CASE \E e \in todo[c] : e.doc = d
    BY <1>6, <2>1, <2>2
  <2>3. CASE cur[c].doc = d /\ Works(c)
    BY <2>3 DEF Works, Due, Looping, Working, SameChange
  <2>4. CASE cur[c].doc = d /\ Finishes(c)
    <3>1. AuditOf(c).call = cid'[c] /\ AuditOf(c).id = IdString[d]
      BY <2>4 DEF AuditOf, CurId
    <3> QED BY <2>4, <3>1 DEF Finishes, Covered
  <2> QED BY <1>8, <2>1, <2>2, <2>3, <2>4 DEF Due
<1> QED
  BY <1>5, <1>7, <1>8

(* Every step of a call keeps its documents covered. *)
LEMMA CoverStep ==
    ASSUME CInv, [Next]_vars, NEW c \in Client, Step(c) \/ Failure(c)
    PROVE  SeesOf(c)' /\ CoverOf(c)'
<1>0. FInv /\ TInv
  BY DEF CInv, LInv, OInv, FInv
<1>a. UNCHANGED cid /\ pc[c] # "idle" /\ reported' \in {reported, reported \cup {cid[c]}}
  BY <1>0, CallStep
<1>b. UNCHANGED req /\ Deed(c)
  BY <1>0, Deeds
<1>1. /\ FInv /\ UNCHANGED <<cid, req>> /\ Deed(c) /\ pc[c] # "idle"
      /\ reported \subseteq reported' /\ cid[c] \in Call
  BY <1>0, <1>a, <1>b DEF TInv, BusyCall
<1>2. CASE Reads(c)
  <2>1. ~Looping(c)' /\ pc'[c] # "idle"
    BY <1>2 DEF Reads, Looping, Working
  <2>2. CASE cid[c] \in reported'
    BY <1>1, <2>1, <2>2 DEF SeesOf, CoverOf
  <2>3. CASE snap'[c] = {[doc |-> d, before |-> IF req[c].op \in IdOnlyOps THEN Nil
                                                ELSE coll[d]] : d \in Found(req[c])}
    <3>1. \A d \in Found(req[c]) : \E s \in snap'[c] : s.doc = d
      <4> SUFFICES ASSUME NEW d \in Found(req[c]) PROVE \E s \in snap'[c] : s.doc = d
        OBVIOUS
      <4>1. [doc |-> d, before |-> IF req[c].op \in IdOnlyOps THEN Nil ELSE coll[d]]
              \in snap'[c]
        BY <2>3
      <4> QED BY <4>1
    <3>2. req[c].plain = req[c].match => Selected(req[c])' = Found(req[c])
      BY <1>1, <1>2 DEF Reads, Selected, Found, Filtered
    <3>3. SeesOf(c)'
      BY <1>1, <3>1, <3>2 DEF SeesOf
    <3> QED BY <2>1, <3>3 DEF CoverOf
  <2> QED BY <1>2, <2>2, <2>3 DEF Reads
<1>3. CASE Dies(c)
  BY <1>1, <1>3 DEF Dies, SeesOf, CoverOf, Looping, Working
<1>4. CASE ~Reads(c) /\ ~Dies(c)
  <2>1. pc'[c] # "mutate"
    BY <1>1, <1>4 DEF Deed, Changes, Drops, Starts, Works, Finishes, Proceeds
  <2>2. CoverOf(c)'
    BY <1>1, <1>4, ChangesCovers, LoopCovers DEF Deed
  <2> QED BY <2>1, <2>2 DEF SeesOf
<1> QED
  BY <1>2, <1>3, <1>4

(* A call that does not move stays covered. *)
LEMMA CoverOthers ==
    ASSUME CInv, [Next]_vars, NEW x \in Client, req'[x] = req[x], cid'[x] = cid[x],
           pc'[x] = pc[x], snap'[x] = snap[x], todo'[x] = todo[x], cur'[x] = cur[x],
           cid[x] # 0 => /\ outcome'[cid[x]] = outcome[cid[x]]
                         /\ \A d \in DocId : Writes(d, cid[x])' => Writes(d, cid[x]),
           audits \subseteq audits', reported \subseteq reported'
    PROVE  CoverOf(x)'
<1>1. OInv /\ CoverOf(x)
  BY DEF CInv, LInv, CoverInv
<1>2. (Looping(x) \/ cid[x] # 0) => cid[x] \in Call
  BY <1>1 DEF OInv, FInv, TInv, TypeOK, BusyCall, Looping, Working, Call
<1>3. Looping(x)' = Looping(x) /\ Working(x)' = Working(x)
  BY DEF Looping, Working
<1> SUFFICES ASSUME \/ Looping(x)
                    \/ pc[x] = "idle" /\ cid[x] # 0 /\ AllowsOp(req[x].op)
                         /\ outcome[cid[x]] = "ok",
                    NEW d \in DocId, Writes(d, cid[x])', Knows(x, d)'
             PROVE  Covered(x, d)' \/ Due(x, d)'
  BY <1>3 DEF CoverOf
<1>4. cid[x] \in Call /\ cid[x] # 0
  BY <1>2 DEF Call
<1>5. Writes(d, cid[x]) /\ Knows(x, d)
  BY <1>1, <1>4, KnowsBack
<1>6. Covered(x, d) \/ Due(x, d)
  BY <1>1, <1>5 DEF CoverOf
<1>7. Due(x, d) => Due(x, d)'
  BY <1>3 DEF Due
<1> QED
  BY <1>6, <1>7, CoveredStays

(* All steps keep all calls covered. *)
LEMMA CoverNext == CInv /\ [Next]_vars => CInv'
<1> SUFFICES ASSUME CInv, [Next]_vars PROVE CInv'
  OBVIOUS
<1>1. LInv' /\ LInv /\ OInv /\ FInv /\ TInv
  BY LoopNext DEF CInv, LInv, OInv, FInv
<1>2. CASE UNCHANGED vars
  <2>1. UNCHANGED <<coll, audits, pc, req, cid, snap, todo, cur>>
        /\ UNCHANGED <<calls, earlier, order, reported, outcome>>
    BY <1>2 DEF vars, localVars, ghostVars
  <2>2. ASSUME NEW x \in Client PROVE SeesOf(x)' /\ CoverOf(x)'
    <3>1. SeesOf(x) /\ CoverOf(x)
      BY DEF CInv, CoverInv
    <3>2. Looping(x)' <=> Looping(x)
      BY <2>1 DEF Looping, Working
    <3>3. ASSUME NEW d \in DocId
          PROVE  /\ Covered(x, d)' <=> Covered(x, d)
                 /\ Due(x, d)' <=> Due(x, d)
                 /\ Knows(x, d)' <=> Knows(x, d)
                 /\ Writes(d, cid[x])' <=> Writes(d, cid[x])
      <4>1. Covered(x, d)' <=> Covered(x, d)
        BY <2>1 DEF Covered
      <4>2. Due(x, d)' <=> Due(x, d)
        BY <2>1, <3>2 DEF Due, Working
      <4>3. Knows(x, d)' <=> Knows(x, d)
        BY <2>1 DEF Knows, Alone
      <4>4. Writes(d, cid[x])' <=> Writes(d, cid[x])
        BY <2>1 DEF Writes
      <4> QED BY <4>1, <4>2, <4>3, <4>4
    <3>4. SeesOf(x)'
      BY <2>1, <3>1 DEF SeesOf, Alone, Selected, Filtered
    <3> QED
      BY <2>1, <3>1, <3>2, <3>3, <3>4 DEF CoverOf
  <2> QED
    BY <1>1, <2>1, <2>2 DEF CInv, CoverInv
<1>3. ASSUME NEW c \in Client, NEW r \in Requests, Begin(c, r) PROVE CoverInv'
  <2>1. /\ UNCHANGED <<coll, audits, order, reported, outcome>>
        /\ OthersLoop(c) /\ \A x \in Client \ {c} : req'[x] = req[x] /\ cid'[x] = cid[x]
        /\ pc[c] = "idle" /\ pc'[c] \in {"read", "mutate"}
        /\ pc'[c] = "mutate" => r.op \in InsertOps
        /\ cid'[c] = calls + 1 /\ calls \in Nat /\ req'[c] = r
    BY <1>1, <1>3, BeginIs
  <2>2. SeesOf(c)' /\ CoverOf(c)'
    BY <2>1 DEF SeesOf, CoverOf, Looping, Working
  <2>3. ASSUME NEW x \in Client \ {c} PROVE SeesOf(x)' /\ CoverOf(x)'
    <3>1. /\ req'[x] = req[x] /\ cid'[x] = cid[x] /\ pc'[x] = pc[x] /\ snap'[x] = snap[x]
          /\ todo'[x] = todo[x] /\ cur'[x] = cur[x]
      BY <2>1 DEF OthersLoop
    <3>2. \A d \in DocId : Writes(d, cid[x])' => Writes(d, cid[x])
      BY <2>1, <3>1 DEF Writes
    <3>3. CoverOf(x)'
      BY <2>1, <3>1, <3>2, CoverOthers
    <3>4. SeesOf(x)'
      <4>1. CASE pc[x] # "mutate"
        BY <3>1, <4>1 DEF SeesOf
      <4>2. CASE pc[x] = "mutate"
        <5>1. cid[x] \in Call /\ cid[x] <= calls
          BY <1>1, <4>2 DEF FInv, TInv, BusyCall, NumbersInv
        <5>2. Alone(cid[x])' => Alone(cid[x])
          <6>1. Alone(cid[x])' => \A j \in 1..calls' \ {cid[x]} :
                                    j \in earlier'[cid[x]] \/ cid[x] \in earlier'[j]
            BY <3>1 DEF Alone
          <6> QED BY <1>1, <5>1, <3>1, AloneBack DEF Alone
        <5>3. Selected(req[x])' = Selected(req[x])
          BY <2>1, <3>1 DEF Selected, Filtered
        <5>4. SeesOf(x)
          BY DEF CInv, CoverInv
        <5> QED BY <2>1, <3>1, <5>2, <5>3, <5>4 DEF SeesOf
      <4> QED BY <4>1, <4>2
    <3> QED BY <3>3, <3>4
  <2>4. \A x \in Client : cid[x] \in Nat /\ cid[x] <= calls
    BY <1>1 DEF FInv, TInv, TypeOK, NumbersInv
  <2>5. \A x, y \in Client : x # y /\ cid'[x] # 0 => cid'[x] # cid'[y]
    <3>1. \A x, y \in Client : x # y /\ cid[x] # 0 => cid[x] # cid[y]
      BY DEF CInv, CoverInv
    <3> QED BY <2>1, <2>4, <3>1
  <2> QED BY <2>2, <2>3, <2>5 DEF CoverInv
<1>4. ASSUME NEW c \in Client, Step(c) \/ Failure(c) PROVE CoverInv'
  <2>1. /\ UNCHANGED <<cid, req, calls, earlier>> /\ OthersLoop(c) /\ pc[c] # "idle"
        /\ reported \subseteq reported'
        /\ Stays(c) \/ Returns(c)
    BY <1>1, <1>4, CallStep, Deeds, EarlierKept
  <2>2. SeesOf(c)' /\ CoverOf(c)'
    BY <1>4, CoverStep
  <2>3. ASSUME NEW x \in Client \ {c} PROVE SeesOf(x)' /\ CoverOf(x)'
    <3>1. /\ req'[x] = req[x] /\ cid'[x] = cid[x] /\ pc'[x] = pc[x] /\ snap'[x] = snap[x]
          /\ todo'[x] = todo[x] /\ cur'[x] = cur[x]
      BY <2>1 DEF OthersLoop
    <3>2. /\ audits \subseteq audits' /\ cid[c] \in Call
          /\ \A d \in DocId, j \in Call : j # cid[c] => (Writes(d, j)' <=> Writes(d, j))
      BY <1>1, <1>4, OthersUnaffected
    <3>3. cid[x] # 0 => cid[x] \in Call /\ cid[x] # cid[c]
      BY <1>1 DEF CInv, CoverInv, FInv, TInv, TypeOK, Call
    <3>4. cid[x] # 0 => outcome'[cid[x]] = outcome[cid[x]]
      BY <1>1, <2>1, <3>3 DEF Stays, Returns, Return, TInv, TypeOK
    <3>5. cid[x] # 0 => \A d \in DocId : Writes(d, cid[x])' => Writes(d, cid[x])
      BY <3>1, <3>2, <3>3 DEF Writes
    <3>6. CoverOf(x)'
      BY <2>1, <3>1, <3>2, <3>4, <3>5, CoverOthers
    <3>7. pc'[x] = "mutate" => ~Alone(cid[x])'
      <4> SUFFICES ASSUME pc[x] = "mutate" PROVE ~Alone(cid[x])'
        BY <3>1
      <4>1. /\ cid[x] \in Call /\ outcome[cid[x]] = "none" /\ outcome[cid[c]] = "none"
            /\ cid[c] \in 1..calls /\ cid[c] # cid[x]
        BY <1>1, <2>1, <3>2 DEF FInv, TInv, TypeOK, BusyCall, NumbersInv, Call
      <4>2. cid[c] \notin earlier[cid[x]] /\ cid[x] \notin earlier[cid[c]]
        BY <1>1, <3>2, <4>1 DEF OInv, OrderedInv
      <4> QED BY <2>1, <3>1, <4>1, <4>2 DEF Alone
    <3> QED BY <3>6, <3>7 DEF SeesOf
  <2>4. \A x, y \in Client : x # y /\ cid'[x] # 0 => cid'[x] # cid'[y]
    BY <2>1 DEF CInv, CoverInv
  <2> QED BY <2>2, <2>3, <2>4 DEF CoverInv
<1> QED
  BY <1>1, <1>2, <1>3, <1>4 DEF CInv, Next

(* Nothing is to be covered at first. *)
LEMMA CoverInit == Init => CInv
<1> SUFFICES ASSUME Init PROVE CoverInv
  BY LoopInit DEF CInv
<1> QED BY DEF Init, CoverInv, SeesOf, CoverOf, Looping, Working

(* When a call returns without error, each document it can know to have    *)
(* written has its audit, or the error was reported, or there was nothing  *)
(* to audit, whatever other calls, failures and crashes come between.      *)
THEOREM NothingIsSilentlyMissing == Spec => []NoSilentGap
<1>1. Init => CInv
  BY CoverInit
<1>2. CInv => NoSilentGap
  <2> SUFFICES ASSUME CInv, NEW c \in Client, pc[c] = "idle", cid[c] # 0,
                      AllowsOp(req[c].op), outcome[cid[c]] = "ok",
                      NEW d \in DocId, Writes(d, cid[c]), Knows(c, d)
               PROVE  Covered(c, d)
    BY DEF NoSilentGap, Covered
  <2>1. CoverOf(c) /\ ~Due(c, d)
    BY DEF CInv, CoverInv, Due, Looping, Working
  <2> QED BY <2>1 DEF CoverOf
<1> QED
  BY <1>1, <1>2, CoverNext, PTL DEF Spec

-----------------------------------------------------------------------------
(* The trail replays the document *)

Last(d) == Len(order[d])
Sequential == \A k \in 1..calls : earlier[k] = 1..(k - 1)
HasBefore(a) == a.before # Nil \/ a.action = "create"

(* What is known of document d between calls: its writers follow one       *)
(* another, the audit of the last one ends at its content, and an audit    *)
(* starts where that of the writer before ended.                           *)
TrailOf(d) ==
    /\ \A i, j \in 1..Last(d) : i < j => order[d][i] < order[d][j]
    /\ \A a \in audits : a.id = IdString[d] /\ Imaged(a) =>
         /\ Last(d) > 0 /\ a.call = order[d][Last(d)] => a.after = coll[d]
         /\ \A b \in audits : b.id = IdString[d] /\ HasBefore(b) =>
              \A j \in 2..Last(d) : order[d][j] = b.call /\ order[d][j - 1] = a.call =>
                b.before = a.after

(* What call c is going to record of document d, which it has written, is  *)
(* the next piece.                                                         *)
FitsNext(c, d, e) ==
    /\ e.after # Nil \/ req[c].op \in DeleteOps => e.after = coll[d]
    /\ e.before # Nil \/ req[c].op \in InsertOps =>
         \A a \in audits : a.id = IdString[d] /\ Imaged(a) /\ Last(d) > 1 =>
           (a.call = order[d][Last(d) - 1] => e.before = a.after)

ChangeOf(c) ==
    /\ pc[c] \in {"read", "mutate"} =>
         \A s \in snap[c] : s.before = IF req[c].op \in IdOnlyOps THEN Nil ELSE coll[s.doc]
    /\ Looping(c) => \A d \in DocId : Writes(d, cid[c]) =>
         /\ \A e \in todo[c] : e.doc = d => FitsNext(c, d, e)
         /\ Working(c) /\ cur[c].doc = d => FitsNext(c, d, cur[c])

ReplayInv ==
    IdsApart /\ Sequential =>
      /\ \A d \in DocId : TrailOf(d)
      /\ \A c \in Client : ChangeOf(c)
PInv == LInv /\ OnceInv /\ ReplayInv

(* Calls have been sequential from the beginning. *)
LEMMA SequentialBack ==
    ASSUME OInv, [Next]_vars, Sequential'
    PROVE  Sequential
<1>1. /\ calls' \in Nat /\ calls \in Nat
      /\ calls <= calls' /\ \A j \in 1..calls : earlier'[j] = earlier[j]
  BY CallsGrow
<1> QED
  BY <1>1 DEF Sequential

(* While they are, the call in progress is the only one, and the latest. *)
LEMMA OnlyOne ==
    ASSUME OInv, Sequential, NEW c \in Client, pc[c] # "idle"
    PROVE  /\ cid[c] = calls /\ calls \in Call
           /\ \A x \in Client \ {c} : pc[x] = "idle"
<1>1. /\ \A x \in Client : pc[x] # "idle" =>
            cid[x] \in Call /\ cid[x] <= calls /\ outcome[cid[x]] = "none"
      /\ \A x \in Client \ {c} : pc[x] # "idle" => cid[x] # cid[c]
      /\ calls \in Nat /\ Call \subseteq Nat
      /\ \A k \in Call : k <= calls => k \in 1..calls
  BY BoundAssumption DEF OInv, FInv, TInv, TypeOK, BusyCall, NumbersInv, Call
<1>2. calls \in Call
  BY <1>1, BoundAssumption DEF OInv, FInv, TInv, TypeOK, Call
<1>3. ASSUME NEW j \in Call, j < calls PROVE outcome[j] # "none"
  <2>1. earlier[calls] = 1..(calls - 1)
    BY <1>1, <1>2 DEF Sequential
  <2>2. j \in earlier[calls]
    BY <1>1, <1>3, <2>1 DEF Call
  <2> QED BY <1>2, <2>2 DEF OInv, OrderedInv
<1>4. ASSUME NEW x \in Client, pc[x] # "idle" PROVE cid[x] = calls
  <2>1. cid[x] \in Call /\ cid[x] <= calls /\ outcome[cid[x]] = "none"
    BY <1>1, <1>4
  <2>2. ~(cid[x] < calls)
    BY <1>3, <2>1
  <2>3. cid[x] \in Nat
    BY <1>1, <2>1
  <2> QED BY <1>1, <2>1, <2>2, <2>3
<1> QED
  BY <1>1, <1>2, <1>4

(* The collection and the order of writes change in the mutation only. *)
LEMMA WritesAre ==
    ASSUME TInv, NEW c \in Client, Step(c) \/ Failure(c)
    PROVE  \/ UNCHANGED <<coll, order>>
           \/ /\ pc[c] = "mutate"
              /\ \E D \in SUBSET req[c].ids :
                   /\ coll' = Applied(req[c], D) /\ Wrote(c, D)
                   /\ pc'[c] = "compute" /\ req[c].op \in InsertOps =>
                        \A d \in D : coll[d] = Nil
<1> DEFINE r == req[c]
           Writing(D) == /\ coll' = Applied(r, D) /\ Wrote(c, D)
                         /\ pc'[c] = "compute" /\ r.op \in InsertOps =>
                              \A d \in D : coll[d] = Nil
<1>a. pc \in [Client -> PC] /\ r.ids \subseteq Nat
  BY DocIdAssumption DEF TInv, TypeOK, Request
<1>1. CASE Mutate(c)
  <2>1. CASE InsertDocs(c)
    <3>1. coll' = Applied(r, Insertable(r)) /\ Wrote(c, Insertable(r))
          /\ Insertable(r) \in SUBSET r.ids
      BY <2>1 DEF InsertDocs, Insertable
    <3>2. CASE Insertable(r) = r.ids
      <4>1. \A d \in r.ids : coll[d] = Nil
        <5> SUFFICES ASSUME NEW d \in r.ids, d \in Duplicates(r) PROVE FALSE
          BY DEF Duplicates
        <5>1. d < d
          BY <3>2 DEF Insertable
        <5> QED BY <1>a, <5>1
      <4> QED BY <1>1, <3>1, <3>2, <4>1 DEF Mutate
    <3>3. CASE Insertable(r) # r.ids
      <4>1. pc'[c] = "idle"
        BY <1>a, <2>1, <3>3 DEF InsertDocs, Return
      <4> QED BY <1>1, <3>1, <4>1 DEF Mutate
    <3> QED BY <3>2, <3>3
  <2>2. CASE ChangeDocs(c)
    <3>1. Writing(Selected(r)) /\ Selected(r) \in SUBSET r.ids
      BY <2>2 DEF ChangeDocs, Selected, Filtered, First
    <3> QED BY <1>1, <3>1 DEF Mutate
  <2>3. CASE ChangeNothing(c)
    <3> DEFINE D == IF r.upsert /\ r.op \in UpdateOps THEN First(r.ids) ELSE {}
    <3>1. UNCHANGED <<coll, order>> \/ Writing(D)
      BY <2>3 DEF ChangeNothing
    <3>2. D \in SUBSET r.ids
      BY DEF First
    <3> QED BY <1>1, <3>1, <3>2 DEF Mutate
  <2> QED BY <1>1, <2>1, <2>2, <2>3 DEF Mutate
<1>2. CASE MutateFails(c)
  <2>1. PICK D \in SUBSET (IF r.op \in InsertOps THEN Insertable(r) ELSE Selected(r)) :
          coll' = Applied(r, D) /\ Wrote(c, D)
    BY <1>2 DEF MutateFails
  <2>2. D \in SUBSET r.ids
    BY DEF Insertable, Selected, Filtered, First
  <2>3. pc'[c] = "idle"
    BY <1>2, <1>a DEF MutateFails, Return
  <2> QED BY <1>2, <2>1, <2>2, <2>3 DEF MutateFails
<1>3. CASE ~Mutate(c) /\ ~MutateFails(c)
  BY <1>3 DEF Step, Failure, Read, Compute, Alloc, Upsert, Persist, ReadFails, ComputeFails,
     AllocFails, PersistFails, Crash
<1> QED
  BY <1>1, <1>2, <1>3

(* The writers of a document are calls that have been made; the call in    *)
(* progress, if it is one of them, is the last.                            *)
LEMMA WritersAre ==
    ASSUME OInv, NEW d \in DocId
    PROVE  /\ order[d] \in Seq(Call) /\ Last(d) \in Nat /\ DOMAIN order[d] = 1..Last(d)
           /\ \A j \in 1..Last(d) : order[d][j] \in Call /\ order[d][j] <= calls
                                    /\ Writes(d, order[d][j])
           /\ TrailOf(d) /\ Writes(d, calls) /\ calls \in Call =>
                /\ Last(d) > 0 /\ order[d][Last(d)] = calls
                /\ \A j \in 1..(Last(d) - 1) : order[d][j] < calls
<1>1. /\ order[d] \in Seq(Call) /\ Last(d) \in Nat /\ DOMAIN order[d] = 1..Last(d)
      /\ calls \in Nat
  BY BoundAssumption DEF OInv, FInv, TInv, TypeOK, Last
<1>2. ASSUME NEW j \in 1..Last(d)
      PROVE  order[d][j] \in Call /\ order[d][j] <= calls /\ Writes(d, order[d][j])
  <2>1. order[d][j] \in Call /\ Writes(d, order[d][j])
    BY <1>1, <1>2 DEF Writes
  <2>2. ~(order[d][j] > calls)
    BY <2>1 DEF OInv, FInv, NumbersInv
  <2> QED BY <1>1, <2>1, <2>2 DEF Call
<1>3. ASSUME TrailOf(d), Writes(d, calls), calls \in Call
      PROVE  /\ Last(d) > 0 /\ order[d][Last(d)] = calls
             /\ \A j \in 1..(Last(d) - 1) : order[d][j] < calls
  <2>1. PICK i \in 1..Last(d) : order[d][i] = calls
    BY <1>1, <1>3 DEF Writes
  <2>2. \A j \in 1..Last(d) : i < j => order[d][i] < order[d][j]
    BY <1>3 DEF TrailOf
  <2>3. i = Last(d)
    <3> SUFFICES ASSUME i < Last(d) PROVE FALSE
      BY <1>1
    <3>1. calls < order[d][Last(d)] /\ order[d][Last(d)] <= calls
      BY <1>1, <1>2, <2>1, <2>2
    <3>2. order[d][Last(d)] \in Nat
      BY <1>1, <1>2 DEF Call
    <3> QED BY <1>1, <3>1, <3>2
  <2>4. \A j \in 1..(Last(d) - 1) : order[d][j] < order[d][Last(d)]
    BY <1>1, <1>3, <2>3 DEF TrailOf
  <2> QED BY <1>1, <2>1, <2>3, <2>4
<1> QED
  BY <1>1, <1>2, <1>3

(* The mutation adds its call to the writers of the documents it writes. *)
LEMMA TrailWrite ==
    ASSUME PInv, IdsApart, Sequential, NEW c \in Client, pc[c] = "mutate",
           NEW D, coll' = Applied(req[c], D), Wrote(c, D), UNCHANGED audits,
           NEW d \in DocId
    PROVE  TrailOf(d)'
<1>1. /\ OInv /\ TrailOf(d) /\ cid[c] = calls /\ calls \in Call
      /\ ~Writes(d, cid[c]) /\ \A a \in audits : a.call # cid[c]
  BY OnlyOne DEF PInv, LInv, LoopInv, LoopOf, ReplayInv
<1>2. CASE d \notin D
  <2>1. order'[d] = order[d] /\ coll'[d] = coll[d]
    BY <1>2 DEF Wrote, Applied
  <2> QED BY <1>1, <2>1 DEF TrailOf, Last
<1>3. CASE d \in D
  <2> DEFINE n == Last(d)
  <2>1. order'[d] = Append(order[d], calls)
    BY <1>1, <1>3 DEF Wrote
  <2>2. /\ n \in Nat /\ order[d] \in Seq(Call)
        /\ \A j \in 1..n : order[d][j] \in Call /\ order[d][j] <= calls
                           /\ Writes(d, order[d][j])
    BY <1>1, WritersAre
  <2>3. \A j \in 1..n : order[d][j] < calls
    <3> SUFFICES ASSUME NEW j \in 1..n PROVE order[d][j] < calls
      OBVIOUS
    <3>1. order[d][j] # calls
      BY <1>1, <2>2
    <3> QED BY <1>1, <2>2, <3>1 DEF Call
  <2>4. /\ Last(d)' = n + 1 /\ order'[d][n + 1] = calls
        /\ \A j \in 1..n : order'[d][j] = order[d][j]
    BY <1>1, <2>1, <2>2 DEF Last
  <2>5. \A i, j \in 1..(n + 1) : i < j => order'[d][i] < order'[d][j]
    BY <1>1, <2>2, <2>3, <2>4 DEF TrailOf
  <2>6. ASSUME NEW a \in audits, a.id = IdString[d], Imaged(a)
        PROVE  /\ a.call # order'[d][n + 1]
               /\ \A b \in audits : b.id = IdString[d] /\ HasBefore(b) =>
                    \A j \in 2..(n + 1) :
                      order'[d][j] = b.call /\ order'[d][j - 1] = a.call => b.before = a.after
    <3>1. \A b \in audits : b.call # calls
      BY <1>1
    <3> SUFFICES ASSUME NEW b \in audits, b.id = IdString[d], HasBefore(b),
                        NEW j \in 2..(n + 1),
                        order'[d][j] = b.call, order'[d][j - 1] = a.call
                 PROVE  b.before = a.after
      BY <2>4, <3>1
    <3>2. j # n + 1
      BY <2>4, <3>1
    <3>3. j \in 2..n /\ order[d][j] = b.call /\ order[d][j - 1] = a.call
      BY <2>2, <2>4, <3>2
    <3> QED BY <1>1, <2>6, <3>3 DEF TrailOf
  <2>7. \A a \in audits' : Imaged(a)' = Imaged(a) /\ HasBefore(a)' = HasBefore(a)
    BY DEF Imaged, HasBefore
  <2> QED BY <2>4, <2>5, <2>6, <2>7 DEF TrailOf
<1> QED
  BY <1>2, <1>3

(* The entries of the loop begin at the content the mutation found and end *)
(* at the one it left.                                                     *)
LEMMA EntriesFit ==
    ASSUME PInv, IdsApart, Sequential, NEW c \in Client, Changes(c), UNCHANGED <<cid, req>>,
           Step(c) \/ Failure(c), pc'[c] = "compute"
    PROVE  \A d \in DocId : Writes(d, cid[c])' =>
             \A e \in todo'[c] : e.doc = d => FitsNext(c, d, e)'
<1> DEFINE r == req[c]
<1>1. /\ OInv /\ TInv /\ LInv /\ cid[c] = calls /\ calls \in Call /\ UNCHANGED audits
      /\ pc[c] = "mutate" /\ todo'[c] = Entries(c)
  BY OnlyOne DEF PInv, LInv, OInv, FInv, Changes
<1>2. \A d \in DocId : ~Writes(d, cid[c])
  BY <1>1 DEF LInv, LoopInv, LoopOf
<1> SUFFICES ASSUME NEW d \in DocId, Writes(d, cid[c])', NEW e \in todo'[c], e.doc = d
             PROVE  FitsNext(c, d, e)'
  OBVIOUS
<1>4. PICK D \in SUBSET r.ids :
        /\ coll' = Applied(r, D) /\ Wrote(c, D)
        /\ r.op \in InsertOps => \A x \in D : coll[x] = Nil
  <2>1. ~UNCHANGED order
    BY <1>1, <1>2 DEF Writes
  <2> QED BY <1>1, <2>1, WritesAre
<1>5. d \in D
  BY <1>1, <1>2, <1>4, WroteWrites
<1>6. e \in Entries(c) /\ e.after = Written(r)
  BY <1>1, EntriesAre
<1>7. e.after # Nil \/ r.op \in DeleteOps => e.after = coll'[d]
  BY <1>4, <1>5, <1>6 DEF Applied, Written
<1>8. e.before # Nil \/ r.op \in InsertOps => e.before = coll[d]
  <2>1. CASE r.op \in InsertOps
    BY <1>4, <1>5, <1>6, <2>1 DEF Entries
  <2>2. CASE r.op \notin InsertOps /\ e.before # Nil
    <3>1. PICK s \in snap[c] : e.doc = s.doc /\ e.before = s.before
      BY <1>6, <2>2 DEF Entries
    <3>2. s.before = IF r.op \in IdOnlyOps THEN Nil ELSE coll[s.doc]
      BY <1>1 DEF PInv, ReplayInv, ChangeOf
    <3> QED BY <2>2, <3>1, <3>2
  <2> QED BY <2>1, <2>2
<1>9. \A a \in audits : a.id = IdString[d] /\ Imaged(a) /\ Last(d)' > 1 =>
        (a.call = order'[d][Last(d)' - 1] => coll[d] = a.after)
  <2>1. order'[d] = Append(order[d], calls) /\ order[d] \in Seq(Call) /\ Last(d) \in Nat
    BY <1>1, <1>4, <1>5, WritersAre DEF Wrote
  <2>2. Last(d)' = Last(d) + 1 /\ \A j \in 1..Last(d) : order'[d][j] = order[d][j]
    BY <1>1, <2>1 DEF Last
  <2>3. ASSUME Last(d)' > 1
        PROVE  Last(d) > 0 /\ order'[d][Last(d)' - 1] = order[d][Last(d)]
    <3> DEFINE n == Last(d)
    <3>1. n \in Nat /\ Last(d)' = n + 1
      BY <2>1, <2>2
    <3>2. n > 0
      BY <2>3, <3>1
    <3>3. (n + 1) - 1 = n /\ n \in 1..n
      BY <3>1, <3>2
    <3>4. order'[d][n] = order[d][n]
      BY <2>2, <3>3
    <3> HIDE DEF n
    <3>5. order'[d][(n + 1) - 1] = order[d][n]
      BY <3>3, <3>4
    <3> QED BY <3>1, <3>2, <3>5 DEF n
  <2> QED BY <2>3 DEF PInv, ReplayInv, TrailOf
<1> QED
  BY <1>1, <1>7, <1>8, <1>9 DEF FitsNext, Imaged

(* What is to be recorded still fits when something else is recorded. *)
LEMMA FitsKept ==
    ASSUME PInv, IdsApart, Sequential, NEW c \in Client, pc[c] # "idle",
           UNCHANGED <<coll, order, req>>, audits' \in {audits, audits \cup {AuditOf(c)}},
           NEW d \in DocId, Writes(d, cid[c]), NEW e, FitsNext(c, d, e)
    PROVE  FitsNext(c, d, e)'
<1>1. OInv /\ TrailOf(d) /\ cid[c] = calls /\ calls \in Call /\ AuditOf(c).call = calls
  BY OnlyOne DEF PInv, LInv, ReplayInv, AuditOf
<1>2. /\ Last(d) \in Nat /\ Last(d)' = Last(d)
      /\ \A j \in 1..(Last(d) - 1) : order[d][j] < calls
  BY <1>1, WritersAre DEF Last
<1>3. calls \in Nat
  BY <1>1 DEF Call
<1>4. ASSUME Last(d) > 1 PROVE order[d][Last(d) - 1] # calls
  <2>1. Last(d) - 1 \in 1..(Last(d) - 1)
    BY <1>2, <1>4
  <2>2. order[d][Last(d) - 1] < calls
    BY <1>2, <2>1
  <2> QED BY <1>3, <2>2
<1>5. \A a \in audits' : Last(d) > 1 /\ a.call = order[d][Last(d) - 1] => a \in audits
  BY <1>1, <1>4
<1> QED
  BY <1>2, <1>5 DEF FitsNext, Imaged

(* The audit recorded is the next piece of the trail of its document. *)
LEMMA TrailRecord ==
    ASSUME PInv, IdsApart, Sequential, NEW c \in Client, Working(c),
           UNCHANGED <<coll, order>>, audits' = audits \cup {AuditOf(c)},
           NEW d \in DocId
    PROVE  TrailOf(d)'
<1> DEFINE n == AuditOf(c)  m == Last(d)
<1>1. /\ OInv /\ TInv /\ TrailOf(d) /\ ChangeOf(c) /\ cid[c] = calls /\ calls \in Call
      /\ n.call = calls /\ pc[c] # "idle"
  BY OnlyOne DEF PInv, LInv, OInv, FInv, ReplayInv, AuditOf, Working
<1>2. /\ m \in Nat /\ Last(d)' = m
      /\ \A j \in 1..m : order[d][j] \in Call /\ order[d][j] <= calls
                         /\ Writes(d, order[d][j])
      /\ \A i, j \in 1..m : i < j => order[d][i] < order[d][j]
  BY <1>1, WritersAre DEF Last, TrailOf
<1>3. req[c].op \in InsertOps \cup UpdateOps \cup DeleteOps /\ Call \subseteq Nat
      /\ cur[c].doc \in DocId \cup {NoDoc}
  BY <1>1 DEF TInv, TypeOK, Request, Pending, Call
<1>4. /\ n.after = cur[c].after /\ n.before = cur[c].before /\ n.id = IdString[cur[c].doc]
      /\ Imaged(n) <=> (cur[c].after # Nil \/ req[c].op \in DeleteOps)
      /\ HasBefore(n) <=> (cur[c].before # Nil \/ req[c].op \in InsertOps)
  BY <1>3 DEF AuditOf, CurId, Imaged, HasBefore, ActionOf, InsertOps, UpdateOps, DeleteOps
<1>5. ASSUME n.id = IdString[d], NEW j \in 1..m, order[d][j] = calls
      PROVE  j = m /\ FitsNext(c, d, cur[c])
  <2>1. cur[c].doc = d
    BY <1>3, <1>4, <1>5 DEF IdsApart
  <2>2. Writes(d, cid[c])
    BY <1>1, <1>2, <1>5
  <2>3. \A i \in 1..(m - 1) : order[d][i] < calls
    BY <1>1, <2>2, WritersAre
  <2>4. j = m
    <3> SUFFICES ASSUME j # m PROVE FALSE
      OBVIOUS
    <3>1. j \in 1..(m - 1)
      BY <1>2
    <3>2. calls < calls /\ calls \in Nat
      BY <1>1, <1>3, <1>5, <2>3, <3>1
    <3> QED BY <3>2
  <2> QED BY <1>1, <2>1, <2>2, <2>4 DEF ChangeOf, Looping
<1>6. ASSUME n.id = IdString[d], Imaged(n), m > 0, n.call = order[d][m]
      PROVE  n.after = coll[d]
  <2>1. FitsNext(c, d, cur[c])
    BY <1>1, <1>2, <1>5, <1>6
  <2> QED BY <1>4, <1>6, <2>1 DEF FitsNext
<1>7. ASSUME NEW a \in audits', NEW b \in audits', a.id = IdString[d], b.id = IdString[d],
             Imaged(a), HasBefore(b),
             NEW j \in 2..m, order[d][j] = b.call, order[d][j - 1] = a.call
      PROVE  b.before = a.after
  <2>1. /\ j \in 1..m /\ j - 1 \in 1..m /\ j - 1 < j
        /\ order[d][j - 1] < order[d][j] /\ order[d][j] <= calls
        /\ order[d][j] \in Nat /\ order[d][j - 1] \in Nat /\ calls \in Nat
    <3>1. j \in 1..m /\ j - 1 \in 1..m /\ j - 1 < j
      BY <1>2
    <3> QED BY <1>1, <1>2, <1>3, <3>1
  <2>2. a \in audits
    <3>1. a.call # calls
      BY <1>7, <2>1
    <3> QED BY <1>1, <3>1
  <2>3. CASE b \in audits
    BY <1>1, <1>7, <2>2, <2>3 DEF TrailOf
  <2>4. CASE b = n
    <3>1. j = m /\ FitsNext(c, d, cur[c])
      BY <1>1, <1>5, <1>7, <2>1, <2>4
    <3>2. m > 1 /\ a.call = order[d][m - 1]
      BY <1>2, <1>7, <3>1
    <3> QED BY <1>4, <1>7, <2>2, <2>4, <3>1, <3>2 DEF FitsNext
  <2> QED BY <2>3, <2>4
<1>8. \A a \in audits : a.id = IdString[d] /\ Imaged(a) =>
        (m > 0 /\ a.call = order[d][m] => a.after = coll[d])
  BY <1>1 DEF TrailOf
<1>9. \A a \in audits' : Imaged(a)' = Imaged(a) /\ HasBefore(a)' = HasBefore(a)
  BY DEF Imaged, HasBefore
<1> QED
  BY <1>2, <1>6, <1>7, <1>8, <1>9 DEF TrailOf

(* What a call is going to record fits, from its pre-read to its return. *)
LEMMA ChangeStep ==
    ASSUME PInv, IdsApart, Sequential, NEW c \in Client, Step(c) \/ Failure(c)
    PROVE  ChangeOf(c)'
<1>0. TInv /\ FInv /\ ChangeOf(c) /\ pc[c] # "idle"
  BY CallStep DEF PInv, LInv, OInv, FInv, ReplayInv
<1>1. UNCHANGED <<cid, req>> /\ Deed(c)
  BY <1>0, CallStep, Deeds
<1>2. UNCHANGED <<coll, order>> \/ pc[c] = "mutate"
  BY <1>0, WritesAre
<1>3. CASE Reads(c)
  <2>1. ~Looping(c)' /\ pc'[c] = "mutate" /\ UNCHANGED coll /\ pc[c] = "read"
    BY <1>3 DEF Reads, Looping, Working
  <2>2. \A s \in snap'[c] :
          s.before = IF req[c].op \in IdOnlyOps THEN Nil ELSE coll[s.doc]
    BY <1>0, <1>3, <2>1 DEF Reads, ChangeOf
  <2> QED BY <1>1, <2>1, <2>2 DEF ChangeOf
<1>4. CASE Changes(c)
  <2>1. /\ ~Working(c)' /\ pc'[c] \notin {"read", "mutate"}
        /\ Looping(c)' => pc'[c] = "compute"
    BY <1>4 DEF Changes, Looping, Working
  <2>2. pc'[c] = "compute" =>
          \A d \in DocId : Writes(d, cid[c])' =>
            \A e \in todo'[c] : e.doc = d => FitsNext(c, d, e)'
    BY <1>1, <1>4, EntriesFit
  <2> QED BY <2>1, <2>2 DEF ChangeOf
<1>5. CASE Dies(c)
  BY <1>5 DEF Dies, ChangeOf, Looping, Working
<1>6. CASE Drops(c) \/ Starts(c) \/ Works(c) \/ Finishes(c)
  <2>1. /\ Looping(c) /\ UNCHANGED <<coll, order>>
        /\ audits' \in {audits, audits \cup {AuditOf(c)}}
        /\ pc'[c] \notin {"read", "mutate"}
    BY <1>2, <1>6 DEF Drops, Starts, Works, Finishes, Proceeds, Looping, Working
  <2>2. /\ \A e \in todo'[c] : e \in todo[c]
        /\ Working(c)' => \/ \E e \in todo[c] : SameChange(cur'[c], e)
                          \/ Working(c) /\ SameChange(cur'[c], cur[c])
    BY <1>6 DEF Drops, Starts, Works, Finishes, Proceeds, Working, SameChange
  <2> SUFFICES ASSUME NEW d \in DocId, Writes(d, cid[c])'
               PROVE  /\ \A e \in todo'[c] : e.doc = d => FitsNext(c, d, e)'
                      /\ Working(c)' /\ cur'[c].doc = d => FitsNext(c, d, cur[c])'
    BY <2>1 DEF ChangeOf
  <2>3. Writes(d, cid[c])
    BY <1>1, <2>1 DEF Writes
  <2>4. ASSUME NEW e, FitsNext(c, d, e) PROVE FitsNext(c, d, e)'
    BY <1>0, <1>1, <2>1, <2>3, <2>4, FitsKept
  <2>5. \A e \in todo[c] : e.doc = d => FitsNext(c, d, e)
    BY <1>0, <2>1, <2>3 DEF ChangeOf
  <2>6. \A e \in todo'[c] : e.doc = d => FitsNext(c, d, e)'
    BY <2>2, <2>4, <2>5
  <2>7. ASSUME Working(c)', cur'[c].doc = d PROVE FitsNext(c, d, cur[c])'
    <3>1. PICK e : SameChange(cur'[c], e) /\ FitsNext(c, d, e)
      <4>1. CASE \E e \in todo[c] : SameChange(cur'[c], e)
        BY <2>5, <2>7, <4>1 DEF SameChange
      <4>2. CASE Working(c) /\ SameChange(cur'[c], cur[c])
        BY <1>0, <2>1, <2>3, <2>7, <4>2 DEF SameChange, ChangeOf
      <4> QED BY <2>2, <2>7, <4>1, <4>2
    <3>2. FitsNext(c, d, e)'
      BY <2>4, <3>1
    <3> QED BY <3>1, <3>2 DEF FitsNext, SameChange
  <2> QED BY <2>6, <2>7
<1> QED
  BY <1>1, <1>3, <1>4, <1>5, <1>6 DEF Deed

(* Every step keeps the trails replayable. *)
LEMMA ReplayNext == PInv /\ [Next]_vars => PInv'
<1> SUFFICES ASSUME PInv, [Next]_vars PROVE PInv'
  OBVIOUS
<1>1. LInv' /\ OnceInv'
  BY LoopNext, OnceNext DEF PInv
<1>2. /\ OInv /\ FInv /\ TInv
  BY DEF PInv, LInv, OInv, FInv
<1> SUFFICES ASSUME IdsApart, Sequential'
             PROVE  (\A d \in DocId : TrailOf(d)') /\ \A c \in Client : ChangeOf(c)'
  BY <1>1 DEF PInv, ReplayInv
<1>3. Sequential
  BY <1>2, SequentialBack
<1>4. (\A d \in DocId : TrailOf(d)) /\ \A c \in Client : ChangeOf(c)
  BY <1>3 DEF PInv, ReplayInv
<1>5. ASSUME UNCHANGED <<coll, order, audits>>, NEW d \in DocId PROVE TrailOf(d)'
  <2>1. Last(d)' = Last(d)
    BY <1>5 DEF Last
  <2>2. \A a \in audits : Imaged(a)' = Imaged(a) /\ HasBefore(a)' = HasBefore(a)
    BY DEF Imaged, HasBefore
  <2> QED BY <1>4, <1>5, <2>1, <2>2 DEF TrailOf
<1>6. CASE UNCHANGED vars
  <2>1. \A c \in Client : ChangeOf(c)'
    BY <1>4, <1>6 DEF ChangeOf, FitsNext, Looping, Working, Writes, Last, Imaged, vars, localVars,
       ghostVars
  <2> QED BY <1>5, <1>6, <2>1 DEF vars, ghostVars
<1>7. ASSUME NEW c \in Client, NEW r \in Requests, Begin(c, r)
      PROVE  (\A d \in DocId : TrailOf(d)') /\ \A x \in Client : ChangeOf(x)'
  <2>1. /\ UNCHANGED <<coll, audits, order>> /\ OthersLoop(c) /\ snap'[c] = {}
        /\ \A x \in Client \ {c} : req'[x] = req[x] /\ cid'[x] = cid[x]
        /\ pc'[c] \in {"read", "mutate"}
    BY <1>2, <1>7, BeginIs
  <2>2. ChangeOf(c)'
    BY <2>1 DEF ChangeOf, Looping, Working
  <2>3. ASSUME NEW x \in Client \ {c} PROVE ChangeOf(x)'
    <3>1. /\ pc'[x] = pc[x] /\ snap'[x] = snap[x] /\ todo'[x] = todo[x] /\ cur'[x] = cur[x]
          /\ req'[x] = req[x] /\ cid'[x] = cid[x]
      BY <2>1 DEF OthersLoop
    <3>2. \A d \in DocId : (Writes(d, cid[x])' <=> Writes(d, cid[x])) /\ Last(d)' = Last(d)
      BY <2>1, <3>1 DEF Writes, Last
    <3>3. \A d \in DocId : \A e : FitsNext(x, d, e) => FitsNext(x, d, e)'
      BY <2>1, <3>1, <3>2 DEF FitsNext, Imaged
    <3>4. /\ Looping(x)' = Looping(x) /\ Working(x)' = Working(x)
      BY <3>1 DEF Looping, Working
    <3>5. ChangeOf(x)
      BY <1>4
    <3>6. ASSUME Looping(x)', NEW d \in DocId, Writes(d, cid[x])'
          PROVE  /\ \A e \in todo'[x] : e.doc = d => FitsNext(x, d, e)'
                 /\ Working(x)' /\ cur'[x].doc = d => FitsNext(x, d, cur[x])'
      <4>1. /\ \A e \in todo[x] : e.doc = d => FitsNext(x, d, e)
            /\ Working(x) /\ cur[x].doc = d => FitsNext(x, d, cur[x])
        BY <3>2, <3>4, <3>5, <3>6 DEF ChangeOf
      <4>2. FitsNext(x, d, cur[x]) => FitsNext(x, d, cur[x])'
        BY <2>1, <3>1, <3>2 DEF FitsNext, Imaged
      <4> QED BY <3>1, <3>3, <3>4, <4>1, <4>2
    <3> QED BY <2>1, <3>1, <3>5, <3>6 DEF ChangeOf
  <2> QED BY <1>5, <2>1, <2>2, <2>3
<1>8. ASSUME NEW c \in Client, Step(c) \/ Failure(c)
      PROVE  (\A d \in DocId : TrailOf(d)') /\ \A x \in Client : ChangeOf(x)'
  <2>1. /\ pc[c] # "idle" /\ \A x \in Client \ {c} : pc'[x] = pc[x]
    BY <1>2, <1>8, CallStep
  <2>2. Deed(c)
    BY <1>2, <1>8, Deeds
  <2>3. ASSUME NEW x \in Client PROVE ChangeOf(x)'
    <3>1. CASE x = c
      BY <1>3, <1>8, <3>1, ChangeStep
    <3>2. CASE x # c
      <4>1. pc'[x] = "idle"
        BY <1>2, <1>3, <2>1, <3>2, OnlyOne
      <4> QED BY <4>1 DEF ChangeOf, Looping, Working
    <3> QED BY <3>1, <3>2
  <2>4. ASSUME NEW d \in DocId PROVE TrailOf(d)'
    <3>1. CASE ~UNCHANGED <<coll, order>>
      <4>1. pc[c] = "mutate" /\ \E D : coll' = Applied(req[c], D) /\ Wrote(c, D)
        BY <1>2, <1>8, <3>1, WritesAre
      <4>2. UNCHANGED audits
        BY <2>2, <4>1 DEF Deed, Reads, Changes, Drops, Starts, Works, Finishes, Dies, Working
      <4> QED BY <1>3, <4>1, <4>2, TrailWrite
    <3>2. CASE UNCHANGED <<coll, order>> /\ ~UNCHANGED audits
      <4>1. Finishes(c) /\ audits' = audits \cup {AuditOf(c)}
        BY <2>2, <3>2 DEF Deed, Reads, Changes, Drops, Starts, Works, Finishes, Dies
      <4>2. Working(c)
        BY <4>1 DEF Finishes
      <4> QED BY <1>3, <3>2, <4>1, <4>2, TrailRecord
    <3>3. CASE UNCHANGED <<coll, order, audits>>
      BY <1>5, <3>3
    <3> QED BY <3>1, <3>2, <3>3
  <2> QED BY <2>3, <2>4
<1> QED
  BY <1>6, <1>7, <1>8 DEF Next

(* No document has a trail at first. *)
LEMMA ReplayInit == Init => PInv
<1> SUFFICES ASSUME Init PROVE PInv
  OBVIOUS
<1>1. OnceInv
  BY DEF Init, OnceInv, OnceOf, AuditedOncePerCall
<1>2. \A d \in DocId : TrailOf(d)
  <2>1. \A d \in DocId : Last(d) = 0 /\ audits = {}
    BY DEF Init, Last
  <2> QED BY <2>1 DEF TrailOf
<1>3. \A c \in Client : ChangeOf(c)
  BY DEF Init, ChangeOf, Looping, Working
<1> QED
  BY <1>1, <1>2, <1>3, LoopInit DEF PInv, ReplayInv

(* As long as calls do not overlap, the trail of a document whose changes  *)
(* are all audited, and nothing else, replays it: audits fit together and  *)
(* the last one ends at the document.                                      *)
THEOREM TrailReplays ==
    ASSUME IdsApart
    PROVE  Spec => []TrailReplaysDocument
<1>1. PInv => TrailReplaysDocument
  <2> SUFFICES ASSUME PInv, Sequential, NEW d \in DocId,
                      \A i \in DOMAIN order[d] :
                        \E a \in audits : a.id = IdString[d] /\ a.call = order[d][i],
                      \A a \in audits : a.id = IdString[d] => Writes(d, a.call) /\ Imaged(a)
               PROVE  /\ \A a, b \in audits :
                           a.id = IdString[d] /\ b.id = IdString[d]
                             /\ b.version = a.version + 1 /\ HasBefore(b) =>
                               b.before = a.after
                      /\ \A a \in audits :
                           a.id = IdString[d]
                             /\ (\A b \in audits : b.id = IdString[d] =>
                                   b.version <= a.version) =>
                               a.after = coll[d]
    BY DEF TrailReplaysDocument, Sequential, HasBefore
  <2> DEFINE m == Last(d)
             Of(a) == a \in audits /\ a.id = IdString[d]
  <2>1. /\ OInv /\ TInv /\ TrailOf(d) /\ RealTimeOrder /\ AuditedOncePerCall
    BY DEF PInv, LInv, OInv, FInv, OrderedInv, OnceInv, ReplayInv
  <2>2. /\ m \in Nat /\ DOMAIN order[d] = 1..m /\ calls \in Nat /\ Call \subseteq Nat
        /\ \A j \in 1..m : order[d][j] \in 1..calls
        /\ \A i, j \in 1..m : i < j => order[d][i] < order[d][j]
    <3>1. \A j \in 1..m : order[d][j] \in Call /\ order[d][j] <= calls
      BY <2>1, WritersAre
    <3> QED BY <2>1, <3>1, WritersAre, BoundAssumption DEF TrailOf, Call, TInv, TypeOK
  <2>3. \A a \in audits : a.version \in Nat
    BY <2>1 DEF TInv, TypeOK, Audit
  <2>4. ASSUME NEW a, NEW b, Of(a), Of(b), NEW i \in 1..m, NEW j \in 1..m,
               a.call = order[d][i], b.call = order[d][j], i < j
        PROVE  a.version < b.version
    <3>1. a.call < b.call /\ a.call \in 1..calls /\ b.call \in 1..calls
      BY <2>2, <2>4
    <3>2. earlier[b.call] = 1..(b.call - 1)
      BY <3>1 DEF Sequential
    <3>3. a.call \in earlier[b.call]
      BY <3>1, <3>2
    <3> QED BY <2>1, <2>4, <3>3 DEF RealTimeOrder
  <2>5. ASSUME NEW a, Of(a) PROVE \E i \in 1..m : a.call = order[d][i]
    BY <2>2, <2>5 DEF Writes
  <2>6. ASSUME NEW i \in 1..m PROVE \E a : Of(a) /\ a.call = order[d][i]
    BY <2>2, <2>6
  <2>7. ASSUME NEW a, NEW b, Of(a), Of(b), b.version = a.version + 1, HasBefore(b)
        PROVE  b.before = a.after
    <3>1. PICK i \in 1..m : a.call = order[d][i]
      BY <2>5, <2>7
    <3>2. PICK j \in 1..m : b.call = order[d][j]
      BY <2>5, <2>7
    <3>3. a.version \in Nat /\ b.version \in Nat /\ a.version < b.version
      BY <2>3, <2>7
    <3>4. i # j
      BY <2>1, <2>7, <3>1, <3>2, <3>3 DEF AuditedOncePerCall
    <3>5. ~(j < i)
      <4> SUFFICES ASSUME j < i PROVE FALSE
        OBVIOUS
      <4>1. b.version < a.version
        BY <2>4, <2>7, <3>1, <3>2
      <4> QED BY <3>3, <4>1
    <3>6. i < j
      BY <2>2, <3>4, <3>5
    <3>7. i = j - 1
      <4> SUFFICES ASSUME i # j - 1 PROVE FALSE
        OBVIOUS
      <4>1. j - 1 \in 1..m /\ i < j - 1 /\ j - 1 < j
        BY <2>2, <3>6
      <4>2. PICK p : Of(p) /\ p.call = order[d][j - 1]
        BY <2>6, <4>1
      <4>3. a.version < p.version
        BY <2>4, <2>7, <3>1, <4>1, <4>2
      <4>4. p.version < b.version
        BY <2>4, <2>7, <3>2, <4>1, <4>2
      <4>5. p.version \in Nat
        BY <2>3, <4>2
      <4> QED BY <2>7, <3>3, <4>3, <4>4, <4>5
    <3>8. j \in 2..m /\ order[d][j - 1] = a.call /\ order[d][j] = b.call
      BY <2>2, <3>1, <3>2, <3>6, <3>7
    <3>9. Imaged(a)
      BY <2>7
    <3> QED BY <2>1, <2>7, <3>8, <3>9 DEF TrailOf
  <2>8. ASSUME NEW a, Of(a),
               \A b \in audits : b.id = IdString[d] => b.version <= a.version
        PROVE  a.after = coll[d]
    <3>1. PICK i \in 1..m : a.call = order[d][i]
      BY <2>5, <2>8
    <3>2. i = m
      <4> SUFFICES ASSUME i # m PROVE FALSE
        OBVIOUS
      <4>1. m \in 1..m /\ i < m
        BY <2>2
      <4>2. PICK p : Of(p) /\ p.call = order[d][m]
        BY <2>6, <4>1
      <4>3. a.version < p.version
        BY <2>4, <2>8, <3>1, <4>1, <4>2
      <4>4. p.version <= a.version /\ p.version \in Nat /\ a.version \in Nat
        BY <2>3, <2>8, <4>2
      <4> QED BY <4>3, <4>4
    <3>3. Imaged(a) /\ m > 0
      BY <2>2, <2>8
    <3> QED BY <2>1, <2>8, <3>1, <3>2, <3>3 DEF TrailOf
  <2> QED BY <2>7, <2>8
<1> QED
  BY <1>1, ReplayInit, ReplayNext, PTL DEF Spec

-----------------------------------------------------------------------------
(* What the pre-read tells a call that runs alone *)

(* No call has options its pre-read is not given. *)
PreReadsSee == \A r \in Requests : r.plain = r.match

(* While call c runs alone, its pre-read has found what it is about to     *)
(* write, and what it is going to audit it has written.                    *)
NamesOf(c) ==
    Alone(cid[c]) /\ cid[c] \notin reported =>
      /\ pc[c] = "mutate" /\ req[c].op \notin InsertOps =>
           \A s \in snap[c] : s.doc \in Selected(req[c])
      /\ Looping(c) => \A e \in todo[c] : e.doc \in DocId /\ Writes(e.doc, cid[c])
      /\ Working(c) => cur[c].doc \in DocId /\ Writes(cur[c].doc, cid[c])

NamesWritten(a) ==
    Alone(a.call) /\ a.call \notin reported =>
      \E d \in DocId : a.id = IdString[d] /\ Writes(d, a.call)

(* The audit of a call that ran alone and reported no error names a        *)
(* document the call has written, whatever its filter.                     *)
AloneNamesWritten == \A a \in audits : NamesWritten(a)

NamesInv ==
    /\ \A c \in Client : req[c] \in Requests \cup {NoRequest}
    /\ \A c \in Client : NamesOf(c)
    /\ AloneNamesWritten

NInv == CInv /\ NamesInv

(* Two calls in progress do not run alone. *)
LEMMA BusyNotAlone ==
    ASSUME OInv, NEW x \in Client, NEW c \in Client \ {x}, pc[x] # "idle", pc[c] # "idle"
    PROVE  ~Alone(cid[x])
<1>1. /\ cid[x] \in Call /\ outcome[cid[x]] = "none" /\ outcome[cid[c]] = "none"
      /\ cid[c] \in 1..calls /\ cid[c] # cid[x] /\ cid[c] \in Call
  BY DEF OInv, FInv, TInv, TypeOK, BusyCall, NumbersInv, Call
<1>2. cid[c] \notin earlier[cid[x]] /\ cid[x] \notin earlier[cid[c]]
  BY <1>1 DEF OInv, OrderedInv
<1> QED BY <1>1, <1>2 DEF Alone

(* The loop begins with the documents inserted, or selected. *)
LEMMA LoopBegins ==
    ASSUME TInv, NEW c \in Client, Step(c) \/ Failure(c),
           pc[c] = "mutate", pc'[c] = "compute"
    PROVE  /\ todo'[c] = Entries(c)
           /\ \E D \in SUBSET req[c].ids :
                /\ Wrote(c, D)
                /\ req[c].op \in InsertOps => D = req[c].ids
                /\ req[c].op \notin InsertOps => D = Selected(req[c]) /\ D # {}
<1> DEFINE r == req[c]
<1>a. pc \in [Client -> PC] /\ DOMAIN todo = Client
  BY DEF TInv, TypeOK
<1>b. ASSUME NEW o, Return(c, o) PROVE FALSE
  BY <1>a, <1>b DEF Return
<1>1. Mutate(c)
  <2>1. ~MutateFails(c) /\ ~Crash(c)
    BY <1>b DEF MutateFails, Crash
  <2> QED BY <2>1 DEF Step, Failure, Read, Compute, Alloc, Upsert, Persist, ReadFails,
             ComputeFails, AllocFails, PersistFails
<1>2. ASSUME Succeed(c) PROVE todo'[c] = Entries(c)
  <2>1. todo'[c] = IF AllowsOp(r.op) THEN Entries(c) ELSE {}
    BY <1>a, <1>2 DEF Succeed
  <2>2. todo'[c] # {}
    BY <1>b, <1>2 DEF Succeed, NextEntry
  <2> QED BY <2>1, <2>2
<1>3. CASE InsertDocs(c)
  <2>1. Insertable(r) = r.ids /\ Succeed(c) /\ Wrote(c, r.ids) /\ r.op \in InsertOps
    BY <1>b, <1>3 DEF InsertDocs
  <2> QED BY <1>2, <2>1
<1>4. CASE ChangeDocs(c)
  <2>1. /\ Succeed(c) /\ Wrote(c, Selected(r)) /\ Selected(r) # {} /\ r.op \notin InsertOps
    BY <1>4 DEF ChangeDocs
  <2>2. Selected(r) \in SUBSET r.ids
    BY DEF Selected, Filtered, First
  <2> QED BY <1>2, <2>1, <2>2
<1>5. ~ChangeNothing(c)
  <2> SUFFICES ASSUME ChangeNothing(c) PROVE FALSE
    OBVIOUS
  <2>1. Return(c, "ok") \/ Return(c, "operr")
    BY DEF ChangeNothing
  <2> QED BY <1>b, <2>1
<1> QED BY <1>1, <1>3, <1>4, <1>5 DEF Mutate

(* What is said of a call that ran alone stays true. *)
LEMMA NamesKept ==
    ASSUME OInv, [Next]_vars, NEW a \in audits, NamesWritten(a),
           reported \subseteq reported',
           \A d \in DocId : Writes(d, a.call) => Writes(d, a.call)'
    PROVE  NamesWritten(a)'
<1>1. a.call \in Call /\ a.call <= calls
  BY DEF OInv, OrderedInv, FInv, TInv, TypeOK, Audit
<1>2. Alone(a.call)' => Alone(a.call)
  BY <1>1, AloneBack
<1> QED BY <1>2 DEF NamesWritten

(* The entries of a call that runs alone are for documents it writes. *)
LEMMA EntriesWritten ==
    ASSUME NInv, PreReadsSee, NEW c \in Client, Step(c) \/ Failure(c), UNCHANGED cid,
           pc[c] = "mutate", pc'[c] = "compute", Alone(cid[c]), cid[c] \notin reported,
           NEW e \in todo'[c]
    PROVE  e.doc \in DocId /\ Writes(e.doc, cid[c])'
<1> DEFINE r == req[c]
<1>1. TInv /\ cid[c] \in Call /\ r.ids \subseteq DocId /\ r.plain = r.match
  <2>1. TInv /\ cid[c] \in Call /\ r.ids \subseteq DocId
    BY DEF NInv, CInv, LInv, OInv, FInv, TInv, TypeOK, BusyCall, Request
  <2>2. r \in Requests \cup {NoRequest}
    BY DEF NInv, NamesInv
  <2> QED BY <2>1, <2>2 DEF PreReadsSee, NoRequest
<1>2. e \in Entries(c)
  BY <1>1, LoopBegins
<1>3. PICK D \in SUBSET r.ids :
         /\ Wrote(c, D)
         /\ r.op \in InsertOps => D = r.ids
         /\ r.op \notin InsertOps => D = Selected(r) /\ D # {}
  BY <1>1, LoopBegins
<1>4. e.doc \in D
  <2>1. CASE r.op \in InsertOps
    BY <1>2, <1>3, <2>1 DEF Entries
  <2>2. CASE r.op \notin InsertOps
    <3>1. \A s \in snap[c] : s.doc \in Selected(r)
      BY <2>2 DEF NInv, NamesInv, NamesOf
    <3>2. \A d \in Selected(r) : \E s \in snap[c] : s.doc = d
      BY <1>1, <2>2 DEF NInv, CInv, CoverInv, SeesOf
    <3>3. snap[c] # {}
      BY <1>3, <2>2, <3>2
    <3>4. \E s \in snap[c] : e.doc = s.doc
      <4> DEFINE found == {[doc |-> s.doc, before |-> s.before,
                            after |-> IF r.op \in DeleteOps THEN Nil ELSE r.val] :
                             s \in snap[c]}
      <4>1. PICK s \in snap[c] : TRUE
        BY <3>3
      <4>2. [doc |-> s.doc, before |-> s.before,
             after |-> IF r.op \in DeleteOps THEN Nil ELSE r.val] \in found
        BY <4>1
      <4>3. Entries(c) = found
        BY <2>2, <4>2, Zenon DEF Entries
      <4> QED BY <1>2, <4>3
    <3> QED BY <1>3, <2>2, <3>1, <3>4
  <2> QED BY <2>1, <2>2
<1>5. e.doc \in DocId
  BY <1>1, <1>3, <1>4
<1>6. \A d \in D : Writes(d, cid[c])'
  <2>1. \A d \in DocId : \A k \in Call : d \in D /\ k = cid[c] => Writes(d, k)'
    BY <1>1, <1>3, WroteWrites
  <2> QED BY <1>1, <1>3, <2>1 DEF Writes
<1> QED BY <1>4, <1>5, <1>6

(* A step of a call that runs alone keeps to the documents it has written. *)
LEMMA NamesStep ==
    ASSUME NInv, PreReadsSee, [Next]_vars, NEW c \in Client, Step(c) \/ Failure(c)
    PROVE  NamesOf(c)' /\ \A a \in audits' \ audits : NamesWritten(a)'
<1> DEFINE r == req[c]  k == cid[c]
<1>0. OInv /\ FInv /\ TInv
  BY DEF NInv, CInv, LInv, OInv, FInv
<1>1. /\ pc[c] # "idle" /\ UNCHANGED <<cid, req, calls>> /\ Deed(c)
      /\ reported \subseteq reported' /\ k \in Call /\ k <= calls
  BY <1>0, CallStep, Deeds DEF TInv, BusyCall, FInv, NumbersInv
<1>2. r.plain = r.match
  <2>1. r \in Requests \cup {NoRequest}
    BY DEF NInv, NamesInv
  <2> QED BY <2>1 DEF PreReadsSee, NoRequest
<1>3. \A d \in DocId : Writes(d, k) => Writes(d, cid[c])'
  <2>1. \A d \in DocId, j \in Call : Writes(d, j) => Writes(d, j)'
    BY <1>0, OthersUnaffected
  <2>2. \A d \in DocId : Writes(d, k) => \A j \in Call : j = k => Writes(d, j)'
    BY <2>1
  <2> QED BY <1>1, <2>2 DEF Writes
<1>4. Alone(cid[c])' => Alone(k)
  <2>1. \A j \in Call : j = k /\ Alone(j)' => Alone(j)
    BY <1>0, <1>1, AloneBack
  <2> QED BY <1>1, <2>1 DEF Alone
<1>5. NamesOf(c)
  BY DEF NInv, NamesInv
<1>6. CASE ~Alone(k) \/ k \in reported'
  <2>1. NamesOf(c)'
    BY <1>1, <1>4, <1>6 DEF NamesOf
  <2>2. ASSUME NEW a \in audits' \ audits PROVE NamesWritten(a)'
    <3>1. a.call = k
      BY <1>0, OthersUnaffected
    <3>2. Alone(a.call)' => Alone(a.call)
      BY <1>0, <1>1, <3>1, AloneBack
    <3> QED BY <1>6, <3>1, <3>2 DEF NamesWritten
  <2> QED BY <2>1, <2>2
<1>7. CASE Alone(k) /\ k \notin reported'
  <2>0. /\ pc[c] = "mutate" /\ r.op \notin InsertOps =>
             \A s \in snap[c] : s.doc \in Selected(r)
        /\ Looping(c) => \A e \in todo[c] : e.doc \in DocId /\ Writes(e.doc, k)
        /\ Working(c) => cur[c].doc \in DocId /\ Writes(cur[c].doc, k)
    BY <1>1, <1>5, <1>7 DEF NamesOf
  <2>1. CASE Reads(c)
    <3>1. snap'[c] = {[doc |-> d, before |-> IF r.op \in IdOnlyOps THEN Nil ELSE coll[d]] :
                        d \in Found(r)}
      BY <1>7, <2>1 DEF Reads
    <3>2. Selected(req[c])' = Found(r)
      BY <1>1, <1>2, <2>1 DEF Reads, Selected, Found, Filtered
    <3>3. \A s \in snap'[c] : s.doc \in Found(r)
      BY <3>1
    <3> QED BY <2>1, <3>2, <3>3 DEF Reads, NamesOf, Looping, Working
  <2>2. CASE Changes(c)
    <3>1. pc[c] = "mutate" /\ pc'[c] \in {"compute", "idle"} /\ UNCHANGED audits
      BY <2>2 DEF Changes
    <3>2. pc'[c] = "compute" => \A e \in todo'[c] : e.doc \in DocId /\ Writes(e.doc, cid[c])'
      BY <1>1, <1>7, <3>1, EntriesWritten
    <3> QED BY <3>1, <3>2 DEF NamesOf, Looping, Working
  <2>3. CASE Drops(c) \/ Starts(c)
    <3>1. PICK e \in todo[c] : /\ todo'[c] = todo[c] \ {e}
                               /\ Working(c)' => cur'[c].doc = e.doc
      BY <2>3 DEF Drops, Starts, Proceeds, Working, SameChange
    <3>2. Looping(c) /\ pc'[c] # "mutate" /\ UNCHANGED audits
      BY <2>3 DEF Drops, Starts, Proceeds, Looping
    <3>3. \A f \in todo[c] : f.doc \in DocId /\ Writes(f.doc, cid[c])'
      BY <1>3, <2>0, <3>2
    <3>4. Working(c)' => cur'[c].doc \in DocId /\ Writes(cur[c].doc, cid[c])'
      BY <3>1, <3>3 DEF Writes
    <3> QED BY <3>1, <3>2, <3>3, <3>4 DEF NamesOf
  <2>4. CASE Works(c) \/ Finishes(c)
    <3>1. /\ Working(c) /\ Looping(c) /\ todo'[c] = todo[c] /\ cur'[c].doc = cur[c].doc
          /\ pc'[c] # "mutate" /\ audits' \in {audits, audits \cup {AuditOf(c)}}
      BY <2>4 DEF Works, Finishes, Looping, Proceeds, SameChange
    <3>2. PICK d \in DocId : d = cur[c].doc /\ Writes(d, k)
      BY <2>0, <3>1
    <3>3. Writes(d, cid[c])'
      BY <1>3, <3>2
    <3>4. NamesOf(c)'
      <4>1. \A e \in todo[c] : e.doc \in DocId /\ Writes(e.doc, cid[c])'
        BY <1>3, <2>0, <3>1
      <4>2. Writes(cur[c].doc, cid[c])'
        BY <3>1, <3>2, <3>3 DEF Writes
      <4> QED BY <3>1, <3>2, <4>1, <4>2 DEF NamesOf
    <3>5. ASSUME NEW a \in audits' \ audits PROVE NamesWritten(a)'
      <4>1. a.call = k /\ a.id = IdString[d]
        BY <3>1, <3>2 DEF AuditOf, CurId
      <4>2. Writes(d, a.call)'
        BY <1>1, <3>3, <4>1 DEF Writes
      <4> QED BY <4>1, <4>2 DEF NamesWritten
    <3> QED BY <3>4, <3>5
  <2>5. CASE Dies(c)
    BY <2>5 DEF Dies, NamesOf, Looping, Working
  <2> QED BY <1>1, <2>1, <2>2, <2>3, <2>4, <2>5 DEF Deed
<1> QED BY <1>1, <1>6, <1>7

(* So does every step. *)
LEMMA NamesNext ==
    ASSUME PreReadsSee
    PROVE  NInv /\ [Next]_vars => NInv'
<1> SUFFICES ASSUME NInv, [Next]_vars PROVE NInv'
  OBVIOUS
<1>1. CInv' /\ OInv /\ FInv /\ TInv /\ \A a \in audits : NamesWritten(a)
  BY CoverNext DEF NInv, CInv, LInv, OInv, FInv, NamesInv, AloneNamesWritten
<1>2. \A c \in Client : NamesOf(c) /\ req[c] \in Requests \cup {NoRequest}
  BY DEF NInv, NamesInv
<1>3. CASE UNCHANGED vars
  <2>1. UNCHANGED <<coll, audits, pc, req, cid, snap, todo, cur>>
        /\ UNCHANGED <<calls, earlier, order, reported>>
    BY <1>3 DEF vars, localVars, ghostVars
  <2>2. ASSUME NEW x \in Client PROVE NamesOf(x)'
    BY <1>2, <2>1 DEF NamesOf, Alone, Selected, Filtered, Looping, Working, Writes
  <2>3. ASSUME NEW a \in audits' PROVE NamesWritten(a)'
    BY <1>1, <2>1, <2>3 DEF NamesWritten, Alone, Writes
  <2> QED BY <1>1, <1>2, <2>1, <2>2, <2>3 DEF NInv, NamesInv, AloneNamesWritten
<1>4. ASSUME NEW c \in Client, NEW r \in Requests, Begin(c, r) PROVE NamesInv'
  <2>1. /\ UNCHANGED <<coll, audits, order, reported>>
        /\ OthersLoop(c) /\ \A x \in Client \ {c} : req'[x] = req[x] /\ cid'[x] = cid[x]
        /\ pc'[c] \in {"read", "mutate"} /\ req'[c] = r
        /\ pc'[c] = "mutate" => r.op \in InsertOps
    BY <1>1, <1>4, BeginIs
  <2>2. NamesOf(c)'
    BY <2>1 DEF NamesOf, Looping, Working
  <2>3. ASSUME NEW x \in Client \ {c} PROVE NamesOf(x)'
    <3>1. /\ req'[x] = req[x] /\ cid'[x] = cid[x] /\ pc'[x] = pc[x] /\ snap'[x] = snap[x]
          /\ todo'[x] = todo[x] /\ cur'[x] = cur[x]
      BY <2>1 DEF OthersLoop
    <3>2. CASE pc[x] = "idle"
      BY <3>1, <3>2 DEF NamesOf, Looping, Working
    <3>3. CASE pc[x] # "idle"
      <4>1. cid[x] \in Call /\ cid[x] <= calls
        BY <1>1, <3>3 DEF TInv, BusyCall, FInv, NumbersInv
      <4>2. \A j \in Call : j = cid[x] /\ Alone(j)' => Alone(j)
        BY <1>1, <4>1, AloneBack
      <4>3. Alone(cid[x])' => Alone(cid[x])
        BY <3>1, <4>1, <4>2 DEF Alone
      <4> QED BY <1>2, <2>1, <3>1, <4>3
              DEF NamesOf, Selected, Filtered, Looping, Working, Writes
    <3> QED BY <3>2, <3>3
  <2>4. ASSUME NEW a \in audits' PROVE NamesWritten(a)'
    <3>1. \A d \in DocId : Writes(d, a.call) => Writes(d, a.call)'
      BY <2>1 DEF Writes
    <3> QED BY <1>1, <2>1, <2>4, <3>1, NamesKept
  <2>5. \A x \in Client : req'[x] \in Requests \cup {NoRequest}
    BY <1>2, <2>1
  <2> QED BY <2>2, <2>3, <2>4, <2>5 DEF NamesInv, AloneNamesWritten
<1>5. ASSUME NEW c \in Client, Step(c) \/ Failure(c) PROVE NamesInv'
  <2>1. /\ UNCHANGED <<cid, req, calls>> /\ OthersLoop(c) /\ pc[c] # "idle"
        /\ reported \subseteq reported'
    BY <1>1, <1>5, CallStep, Deeds
  <2>2. NamesOf(c)' /\ \A a \in audits' \ audits : NamesWritten(a)'
    BY <1>5, NamesStep
  <2>3. ASSUME NEW x \in Client \ {c} PROVE NamesOf(x)'
    <3>1. pc'[x] = pc[x] /\ cid'[x] = cid[x]
      BY <2>1 DEF OthersLoop
    <3>2. CASE pc[x] = "idle"
      BY <3>1, <3>2 DEF NamesOf, Looping, Working
    <3>3. CASE pc[x] # "idle"
      <4>1. cid[x] \in Call /\ cid[x] <= calls
        BY <1>1, <3>3 DEF TInv, BusyCall, FInv, NumbersInv
      <4>2. \A j \in Call : j = cid[x] /\ Alone(j)' => Alone(j)
        BY <1>1, <4>1, AloneBack
      <4>3. ~Alone(cid[x])'
        BY <1>1, <2>1, <3>1, <3>3, <4>1, <4>2, BusyNotAlone DEF Alone
      <4> QED BY <4>3 DEF NamesOf
    <3> QED BY <3>2, <3>3
  <2>4. ASSUME NEW a \in audits PROVE NamesWritten(a)'
    <3>1. a.call \in Call
      BY <1>1 DEF TInv, TypeOK, Audit
    <3>2. \A d \in DocId : Writes(d, a.call) => Writes(d, a.call)'
      BY <1>1, <1>5, <3>1, OthersUnaffected
    <3> QED BY <1>1, <2>1, <2>4, <3>2, NamesKept
  <2>5. \A a \in audits' : NamesWritten(a)'
    BY <2>2, <2>4
  <2>6. \A x \in Client : req'[x] \in Requests \cup {NoRequest}
    BY <1>2, <2>1
  <2> QED BY <2>2, <2>3, <2>5, <2>6 DEF NamesInv, AloneNamesWritten
<1> QED
  BY <1>1, <1>3, <1>4, <1>5 DEF NInv, Next

(* The audits of a call that ran alone and reported no error name          *)
(* documents it has written, whatever its filter, when its pre-read is     *)
(* given what the operation is given: what mongo_wrong_id shows is due to  *)
(* the options of the operation, or to another call in between.            *)
THEOREM AuditsNameWritten ==
    ASSUME PreReadsSee
    PROVE  Spec => []AloneNamesWritten
<1>1. Init => NInv
  <2> SUFFICES ASSUME Init PROVE NamesInv
    BY CoverInit DEF NInv
  <2> QED BY DEF Init, NamesInv, NamesOf, AloneNamesWritten, Looping, Working
<1>2. NInv => AloneNamesWritten
  BY DEF NInv, NamesInv
<1> QED
  BY <1>1, <1>2, NamesNext, PTL DEF Spec

(* Updates are of one document each. *)
UpdatesAreSingle == \A r \in Requests : r.op \in UpdateOps => r.op \in SingleOps

WritesOne(k) == \A d, e \in DocId : Writes(d, k) /\ Writes(e, k) => d = e

(* Such an update that has come to its audit has written one document. *)
SingleInv ==
    /\ \A c \in Client : Looping(c) /\ req[c].op \in UpdateOps => WritesOne(cid[c])
    /\ \A a \in audits : a.action = "update" => WritesOne(a.call)

SInv == NInv /\ SingleInv

(* The documents a single operation selects are one. *)
LEMMA SelectsOne ==
    ASSUME NEW r, r.op \in SingleOps, r.ids \subseteq DocId,
           NEW d \in Selected(r), NEW e \in Selected(r)
    PROVE  d = e
<1>1. d \in Nat /\ e \in Nat
  BY DocIdAssumption DEF Selected, Filtered, First
<1>2. d <= e /\ e <= d
  BY DEF Selected, Filtered, First
<1> QED BY <1>1, <1>2

(* A call that comes to its audit has written what it selected. *)
LEMMA SingleStep ==
    ASSUME SInv, UpdatesAreSingle, NEW c \in Client, Step(c) \/ Failure(c),
           Looping(c)', req[c].op \in UpdateOps
    PROVE  WritesOne(cid[c])'
<1> DEFINE r == req[c]  k == cid[c]
<1>0. FInv /\ TInv /\ LoopOf(c)
  BY DEF SInv, NInv, CInv, LInv, LoopInv, OInv, FInv
<1>1. /\ pc[c] # "idle" /\ UNCHANGED cid /\ Deed(c) /\ k \in Call
      /\ r.ids \subseteq DocId /\ r.op \notin InsertOps /\ r.op \in SingleOps
  <2>1. /\ pc[c] # "idle" /\ UNCHANGED cid /\ Deed(c) /\ k \in Call
        /\ r.ids \subseteq DocId /\ r.op \notin InsertOps
    BY <1>0, CallStep, Deeds DEF TInv, TypeOK, BusyCall, Request, UpdateOps, InsertOps
  <2>2. r \in Requests \cup {NoRequest} /\ NoRequest.op \in SingleOps
    BY DEF SInv, NInv, NamesInv, NoRequest, SingleOps
  <2> QED BY <2>1, <2>2 DEF UpdatesAreSingle
<1>2. CASE pc[c] = "mutate"
  <2>1. pc'[c] = "compute"
    BY <1>1, <1>2
       DEF Deed, Reads, Changes, Drops, Starts, Works, Finishes, Dies, Looping, Working
  <2>2. Wrote(c, Selected(r))
    BY <1>0, <1>1, <1>2, <2>1, LoopBegins
  <2>3. \A d \in DocId : Writes(d, cid[c])' => d \in Selected(r)
    <3>1. \A d \in DocId : \A j \in Call : Writes(d, j)' => Writes(d, j) \/ d \in Selected(r)
      BY <1>0, <1>1, <2>2, WroteWrites
    <3>2. \A d \in DocId : ~Writes(d, k)
      BY <1>0, <1>2 DEF LoopOf
    <3>3. \A d \in DocId : \A j \in Call : j = k /\ Writes(d, j)' => d \in Selected(r)
      BY <3>1, <3>2
    <3> QED BY <1>1, <3>3 DEF Writes
  <2>4. \A d, e \in Selected(r) : d = e
    BY <1>1, SelectsOne
  <2> QED BY <2>3, <2>4 DEF WritesOne
<1>3. CASE pc[c] # "mutate"
  <2>1. Looping(c)
    BY <1>1, <1>3
       DEF Deed, Reads, Changes, Drops, Starts, Works, Finishes, Dies, Looping, Working
  <2>2. UNCHANGED order
    BY <1>0, <1>3, WritesAre
  <2>3. WritesOne(k)
    BY <2>1 DEF SInv, SingleInv
  <2> QED BY <1>1, <2>2, <2>3 DEF WritesOne, Writes
<1> QED BY <1>2, <1>3

(* Past its mutation, and by the steps of others, a call writes no more. *)
LEMMA WritesOneKept ==
    ASSUME LInv, NEW c \in Client, Step(c) \/ Failure(c), NEW k \in Call,
           k # cid[c] \/ pc[c] # "mutate", WritesOne(k)
    PROVE  WritesOne(k)'
<1>1. FInv /\ TInv
  BY DEF LInv, OInv, FInv
<1>2. \A d \in DocId : Writes(d, k)' => Writes(d, k)
  <2>1. CASE k # cid[c]
    BY <1>1, <2>1, OthersUnaffected
  <2>2. CASE pc[c] # "mutate"
    BY <1>1, <2>2, WritesAre DEF Writes
  <2> QED BY <2>1, <2>2
<1> QED BY <1>2 DEF WritesOne

(* Every step keeps the writes of updates single. *)
LEMMA SingleNext ==
    ASSUME PreReadsSee, UpdatesAreSingle
    PROVE  SInv /\ [Next]_vars => SInv'
<1> SUFFICES ASSUME SInv, [Next]_vars PROVE SingleInv'
  BY NamesNext DEF SInv
<1>1. LInv /\ OInv /\ FInv /\ TInv
  BY DEF SInv, NInv, CInv, LInv, OInv, FInv
<1>2. /\ \A c \in Client : Looping(c) /\ req[c].op \in UpdateOps => WritesOne(cid[c])
      /\ \A a \in audits : a.call \in Call /\ (a.action = "update" => WritesOne(a.call))
  BY <1>1 DEF SInv, SingleInv, TInv, TypeOK, Audit
<1>3. CASE UNCHANGED vars
  <2>1. UNCHANGED <<audits, pc, req, cid, order>>
    BY <1>3 DEF vars, localVars, ghostVars
  <2> QED BY <1>2, <2>1 DEF SingleInv, WritesOne, Writes, Looping, Working
<1>4. ASSUME NEW c \in Client, NEW r \in Requests, Begin(c, r) PROVE SingleInv'
  <2>1. /\ UNCHANGED <<audits, order>> /\ OthersLoop(c)
        /\ \A x \in Client \ {c} : req'[x] = req[x] /\ cid'[x] = cid[x]
        /\ pc'[c] \in {"read", "mutate"}
    BY <1>1, <1>4, BeginIs
  <2>2. \A a \in audits' : a.action = "update" => WritesOne(a.call)'
    BY <1>2, <2>1 DEF WritesOne, Writes
  <2>3. ASSUME NEW x \in Client, Looping(x)', req'[x].op \in UpdateOps
        PROVE  WritesOne(cid[x])'
    <3>1. x # c
      BY <2>1, <2>3 DEF Looping, Working
    <3>2. Looping(x) /\ req[x] = req'[x] /\ cid'[x] = cid[x]
      BY <2>1, <2>3, <3>1 DEF Looping, Working, OthersLoop
    <3> QED BY <1>2, <2>1, <2>3, <3>2 DEF WritesOne, Writes
  <2> QED BY <2>2, <2>3 DEF SingleInv
<1>5. ASSUME NEW c \in Client, Step(c) \/ Failure(c) PROVE SingleInv'
  <2>1. /\ UNCHANGED <<cid, req>> /\ OthersLoop(c) /\ pc[c] # "idle" /\ Deed(c)
        /\ cid[c] \in Call /\ LoopOf(c)
    BY <1>1, <1>5, CallStep, Deeds DEF TInv, BusyCall, LInv, LoopInv
  <2>2. ASSUME NEW a \in audits', a.action = "update" PROVE WritesOne(a.call)'
    <3>1. CASE a \in audits
      <4>1. a.call # cid[c] \/ pc[c] # "mutate"
        BY <2>1, <3>1 DEF LoopOf
      <4> QED BY <1>1, <1>2, <1>5, <2>2, <3>1, <4>1, WritesOneKept
    <3>2. CASE a \notin audits
      <4>1. Finishes(c) /\ a = AuditOf(c)
        BY <2>1, <3>2 DEF Deed, Reads, Changes, Drops, Starts, Works, Finishes, Dies
      <4>2. a.call = cid[c] /\ Looping(c) /\ req[c].op \in UpdateOps /\ pc[c] # "mutate"
        <5>1. Working(c) /\ a.action = ActionOf(req[c].op) /\ a.call = cid[c]
          BY <4>1 DEF Finishes, AuditOf
        <5>2. req[c].op \in UpdateOps
          BY <2>2, <5>1 DEF ActionOf
        <5> QED BY <5>1, <5>2 DEF Working, Looping
      <4>3. WritesOne(a.call)
        BY <1>2, <4>2
      <4> QED BY <1>1, <1>5, <2>1, <4>2, <4>3, WritesOneKept
    <3> QED BY <3>1, <3>2
  <2>3. ASSUME NEW x \in Client, Looping(x)', req'[x].op \in UpdateOps
        PROVE  WritesOne(cid[x])'
    <3>1. CASE x = c
      BY <1>5, <2>1, <2>3, <3>1, SingleStep
    <3>2. CASE x # c
      <4>1. Looping(x) /\ req[x] = req'[x] /\ cid'[x] = cid[x] /\ pc[x] # "idle"
        BY <2>1, <2>3, <3>2 DEF Looping, Working, OthersLoop
      <4>2. cid[x] \in Call /\ cid[x] # cid[c] /\ WritesOne(cid[x])
        BY <1>1, <1>2, <1>5, <2>3, <3>2, <4>1, OthersUnaffected
      <4>3. \A j \in Call : j = cid[x] => WritesOne(j)'
        BY <1>1, <1>5, <4>2, WritesOneKept
      <4> QED BY <4>1, <4>2, <4>3 DEF WritesOne, Writes
    <3> QED BY <3>1, <3>2
  <2> QED BY <2>2, <2>3 DEF SingleInv
<1> QED
  BY <1>3, <1>4, <1>5 DEF Next

(* In particular the audit of an update of one document names the document *)
(* the operation matched, as long as no calls overlap and none reports an  *)
(* error.                                                                  *)
THEOREM MatchedDocumentNamed ==
    ASSUME PreReadsSee, UpdatesAreSingle
    PROVE  Spec => []((\A k \in 1..calls : Alone(k)) /\ reported = {}
                        => AuditOfMatchedDocument)
<1>1. Init => SInv
  <2> SUFFICES ASSUME Init PROVE NamesInv /\ SingleInv
    BY CoverInit DEF SInv, NInv
  <2> QED BY DEF Init, NamesInv, NamesOf, AloneNamesWritten, SingleInv, Looping, Working
<1>2. SInv => ((\A k \in 1..calls : Alone(k)) /\ reported = {} => AuditOfMatchedDocument)
  <2> SUFFICES ASSUME SInv, \A k \in 1..calls : Alone(k), reported = {},
                      NEW a \in audits, NEW d \in DocId,
                      a.action = "update", Writes(d, a.call)
               PROVE  a.id = IdString[d]
    BY DEF AuditOfMatchedDocument
  <2>1. a.call \in 1..calls
    <3>1. OInv /\ TInv
      BY DEF SInv, NInv, CInv, LInv, OInv, FInv
    <3>2. a.call \in Call /\ a.call <= calls /\ calls \in Nat
      BY <3>1, BoundAssumption DEF OInv, OrderedInv, TInv, TypeOK, Audit
    <3> QED BY <3>2 DEF Call
  <2>2. PICK e \in DocId : a.id = IdString[e] /\ Writes(e, a.call)
    BY <2>1 DEF SInv, NInv, NamesInv, AloneNamesWritten, NamesWritten
  <2>3. e = d
    BY <2>2 DEF SInv, SingleInv, WritesOne
  <2> QED BY <2>2, <2>3
<1> QED
  BY <1>1, <1>2, SingleNext, PTL DEF Spec

-----------------------------------------------------------------------------
(* Calls come to an end *)

(* How far a call is from its return: the stage it is in, the audits it    *)
(* has still to begin, and the round trips of the one it is writing, with  *)
(* its retry.                                                              *)
Stage(c) ==
    CASE pc[c] = "idle" -> 0
      [] pc[c] \in {"compute", "alloc", "upsert", "persist"} -> 1
      [] pc[c] = "mutate" -> 2
      [] pc[c] = "read" -> 3
Entering(c) == Cardinality(todo[c])
Trips(c) ==
    CASE pc[c] = "alloc" -> 5 - 2 * attempt[c]
      [] pc[c] = "upsert" -> 4 - 2 * attempt[c]
      [] pc[c] = "persist" -> 1
      [] pc[c] \in {"idle", "compute", "read", "mutate"} -> 0

(* The distance becomes smaller in the lexicographic order. *)
Nearer(c) ==
    \/ Stage(c)' < Stage(c)
    \/ Stage(c)' = Stage(c) /\ Entering(c)' < Entering(c)
    \/ Stage(c)' = Stage(c) /\ Entering(c)' = Entering(c) /\ Trips(c)' < Trips(c)

(* Each step of a call in progress, whether it succeeds or fails, brings   *)
(* it nearer to its return, and no step of another call takes it away.     *)
CallsApproachReturn ==
    \A c \in Client : pc[c] # "idle" =>
      /\ Step(c) \/ Failure(c) => Nearer(c)
      /\ Nearer(c) \/ UNCHANGED <<Stage(c), Entering(c), Trips(c)>>

(* The distance is one of natural numbers: the loop of a call has finitely *)
(* many entries, as they are for different documents.                      *)
LEMMA DistanceTyped ==
    ASSUME IsFiniteSet(DocId), LInv, NEW c \in Client, Looping(c)
    PROVE  IsFiniteSet(todo[c]) /\ Entering(c) \in Nat
<1> DEFINE T == DocId \cup {NoDoc}
           f == [e \in todo[c] |-> e.doc]
<1>1. \A e \in todo[c] : e.doc \in T /\ \A g \in todo[c] : e.doc = g.doc => e = g
  BY DEF LInv, LoopInv, LoopOf, OInv, FInv, TInv, TypeOK, Request
<1>2. IsFiniteSet(T)
  BY FS_AddElement
<1>3. f \in Injection(todo[c], T)
  BY <1>1, Fun_IsInj
<1>4. IsFiniteSet(todo[c])
  BY <1>2, <1>3, FS_Injection
<1> QED BY <1>4, FS_CardinalityType DEF Entering

(* An entry leaves the loop. *)
LEMMA FewerEntries ==
    ASSUME IsFiniteSet(DocId), LInv, NEW c \in Client, Looping(c),
           NEW e \in todo[c], todo'[c] = todo[c] \ {e}
    PROVE  Entering(c)' < Entering(c)
<1>1. IsFiniteSet(todo[c]) /\ Entering(c) \in Nat
  BY DistanceTyped
<1>2. Entering(c)' = Entering(c) - 1
  BY <1>1, FS_RemoveElement DEF Entering
<1> QED BY <1>1, <1>2

(* A call that returns is at its end. *)
LEMMA ReturnNearer ==
    ASSUME TInv, NEW c \in Client, pc[c] # "idle", pc'[c] = "idle"
    PROVE  Nearer(c)
<1>1. pc[c] \in PC
  BY DEF TInv, TypeOK
<1>2. Stage(c) \in {1, 2, 3} /\ Stage(c)' = 0
  BY <1>1 DEF Stage, PC
<1> QED BY <1>2 DEF Nearer

(* An audit that is written, or given up, is behind it. *)
LEMMA EndsAudit ==
    ASSUME TInv, NEW c \in Client, Working(c), NextEntry(c) \/ AuditFails(c),
           UNCHANGED todo
    PROVE  Nearer(c)
<1>1. pc'[c] \in {"idle", "compute"}
  BY DEF TInv, TypeOK, Return, Goto, NextEntry, AuditFails
<1>2. CASE pc'[c] = "idle"
  BY <1>2, ReturnNearer DEF Working
<1>3. CASE pc'[c] = "compute"
  <2>1. attempt[c] \in {0, 1} /\ pc[c] \in {"alloc", "upsert", "persist"}
    BY DEF TInv, TypeOK, Working
  <2>2. Stage(c) = 1 /\ Stage(c)' = 1 /\ Trips(c)' = 0
    BY <1>3, <2>1 DEF Stage, Trips
  <2>3. Trips(c) \in {1, 2, 3, 4, 5}
    BY <2>1 DEF Trips
  <2> QED BY <2>2, <2>3 DEF Nearer, Entering
<1> QED BY <1>1, <1>2, <1>3

(* So is an entry that is begun, or needs no audit. *)
LEMMA EndsEntry ==
    ASSUME IsFiniteSet(DocId), LInv, NEW c \in Client, pc[c] = "compute",
           pc'[c] \in {"alloc", "compute", "idle"},
           NEW e \in todo[c], todo'[c] = todo[c] \ {e}
    PROVE  Nearer(c)
<1>1. TInv /\ Looping(c)
  BY DEF LInv, OInv, FInv, Looping
<1>2. CASE pc'[c] = "idle"
  BY <1>1, <1>2, ReturnNearer
<1>3. CASE pc'[c] \in {"alloc", "compute"}
  <2>1. Stage(c)' = Stage(c)
    BY <1>3 DEF Stage
  <2> QED BY <1>1, <2>1, FewerEntries DEF Nearer
<1> QED BY <1>2, <1>3

(* A round trip for the number is followed by a later one. *)
LEMMA NextTrip ==
    ASSUME TInv, TInv', NEW c \in Client, UNCHANGED todo,
           \/ pc[c] = "alloc" /\ pc'[c] \in {"upsert", "persist"} /\ UNCHANGED attempt
           \/ pc[c] = "upsert" /\ pc'[c] = "persist" /\ UNCHANGED attempt
           \/ pc[c] = "upsert" /\ pc'[c] = "alloc" /\ attempt[c] = 0 /\ attempt'[c] = 1
    PROVE  Nearer(c)
<1>1. attempt[c] \in {0, 1} /\ attempt'[c] \in {0, 1}
  BY DEF TInv, TypeOK
<1>2. Stage(c)' = Stage(c) /\ Entering(c)' = Entering(c)
  BY DEF Stage, Entering
<1>3. Trips(c)' < Trips(c)
  BY <1>1 DEF Trips
<1> QED BY <1>2, <1>3 DEF Nearer

(* Every step of a call shortens the distance. *)
LEMMA StepNearer ==
    ASSUME IsFiniteSet(DocId), LInv, TInv', NEW c \in Client, Step(c) \/ Failure(c)
    PROVE  Nearer(c)
<1>a. TInv /\ pc \in [Client -> PC] /\ attempt \in [Client -> 0..1] /\ DOMAIN todo = Client
  BY DEF LInv, OInv, FInv, TInv, TypeOK
<1>b. \A o : Return(c, o) => pc'[c] = "idle"
  BY <1>a DEF Return
<1>c. pc[c] # "idle"
  BY <1>a, CallStep
<1>d. \A l : Goto(c, l) => pc'[c] = l
  BY <1>a DEF Goto
<1>e. AuditFails(c) \/ NextEntry(c) => pc'[c] \in {"idle", "compute"}
  BY <1>b, <1>d DEF AuditFails, NextEntry
<1>1. CASE pc'[c] = "idle"
  BY <1>a, <1>c, <1>1, ReturnNearer
<1>2. CASE Read(c) \/ (ReadFails(c) /\ pc'[c] # "idle")
  <2>1. pc[c] = "read" /\ pc'[c] = "mutate"
    BY <1>b, <1>d, <1>2 DEF Read, ReadFails
  <2> QED BY <2>1 DEF Nearer, Stage
<1>3. CASE Mutate(c)
  <2>1. pc[c] = "mutate" /\ pc'[c] \in {"idle", "compute"}
    BY <1>b, <1>e, <1>3 DEF Mutate, InsertDocs, ChangeDocs, ChangeNothing, Succeed
  <2> QED BY <1>1, <2>1 DEF Nearer, Stage
<1>4. CASE MutateFails(c) \/ Crash(c)
  BY <1>b, <1>1, <1>4 DEF MutateFails, Crash
<1>5. CASE Compute(c) \/ ComputeFails(c)
  <2>1. pc[c] = "compute" /\ pc'[c] \in {"alloc", "compute", "idle"}
    BY <1>d, <1>e, <1>5 DEF Compute, ComputeFails, StartAudit
  <2>2. \E e \in todo[c] : todo'[c] = todo[c] \ {e}
    BY <1>a, <1>5 DEF Compute, ComputeFails, Chosen
  <2> QED BY <2>1, <2>2, EndsEntry
<1>6. CASE Alloc(c)
  <2>1. pc[c] = "alloc" /\ pc'[c] \in {"upsert", "persist"} /\ UNCHANGED <<todo, attempt>>
    BY <1>d, <1>6 DEF Alloc
  <2> QED BY <1>a, <2>1, NextTrip
<1>7. CASE Upsert(c)
  <2>1. pc[c] = "upsert" /\ UNCHANGED todo
    BY <1>7 DEF Upsert
  <2>2. \/ pc'[c] = "persist" /\ UNCHANGED attempt
        \/ pc'[c] = "alloc" /\ attempt[c] = 0 /\ attempt'[c] = 1
        \/ AuditFails(c)
    BY <1>a, <1>d, <1>7 DEF Upsert
  <2> QED BY <1>a, <2>1, <2>2, NextTrip, EndsAudit DEF Working
<1>8. CASE AllocFails(c) \/ Persist(c) \/ PersistFails(c)
  <2>1. Working(c) /\ UNCHANGED todo /\ (AuditFails(c) \/ NextEntry(c))
    BY <1>8 DEF AllocFails, Persist, PersistFails, Working
  <2> QED BY <1>a, <2>1, EndsAudit
<1> QED
  BY <1>1, <1>2, <1>3, <1>4, <1>5, <1>6, <1>7, <1>8 DEF Step, Failure

(* The other calls are as far from their return as before. *)
LEMMA OthersStayAway ==
    ASSUME TInv, NEW c \in Client, NEW x \in Client \ {c},
           \/ Step(c) \/ Failure(c)
           \/ \E r \in Requests : Begin(c, r)
    PROVE  UNCHANGED <<Stage(x), Entering(x), Trips(x)>>
<1>1. attempt'[x] = attempt[x]
  BY DEF TInv, TypeOK, Begin, Step, Failure, Read, Mutate, Compute, Alloc, Upsert, Persist,
     ReadFails, MutateFails, ComputeFails, AllocFails, PersistFails, Crash, StartAudit,
     localVars
<1>2. pc'[x] = pc[x] /\ todo'[x] = todo[x]
  <2>1. CASE Step(c) \/ Failure(c)
    BY <2>1, Deeds DEF OthersLoop
  <2>2. CASE \E r \in Requests : Begin(c, r)
    BY <2>2 DEF TInv, TypeOK, Begin, Goto
  <2> QED BY <2>1, <2>2
<1> QED BY <1>1, <1>2 DEF Stage, Entering, Trips

(* A call comes nearer to its return with each of its steps, whatever      *)
(* fails, and no other call takes that away, so that it makes finitely     *)
(* many: the retry of nextVersion is the only way back, and is taken once. *)
(* With the steps of a call taken in the end, this is why calls return.    *)
THEOREM CallsEnd ==
    ASSUME IsFiniteSet(DocId)
    PROVE  Spec => [][CallsApproachReturn]_vars
<1>1. LInv /\ LInv' /\ [Next]_vars => [CallsApproachReturn]_vars
  <2> SUFFICES ASSUME LInv, LInv', Next PROVE CallsApproachReturn
    OBVIOUS
  <2>1. TInv /\ TInv'
    BY DEF LInv, OInv, FInv
  <2>2. PICK c \in Client : \/ Step(c) \/ Failure(c)
                            \/ \E r \in Requests : Begin(c, r)
    BY DEF Next
  <2> SUFFICES ASSUME NEW x \in Client, pc[x] # "idle"
               PROVE  /\ Step(x) \/ Failure(x) => Nearer(x)
                      /\ Nearer(x) \/ UNCHANGED <<Stage(x), Entering(x), Trips(x)>>
    BY DEF CallsApproachReturn
  <2>3. Step(x) \/ Failure(x) => Nearer(x)
    BY <2>1, StepNearer
  <2>4. CASE x # c
    BY <2>1, <2>2, <2>3, <2>4, OthersStayAway
  <2>5. CASE x = c
    <3>1. \A r \in Requests : ~Begin(c, r)
      BY <2>5 DEF Begin
    <3> QED BY <2>2, <2>3, <2>5, <3>1
  <2> QED BY <2>4, <2>5
<1> QED
  BY <1>1, LoopInvariant, PTL DEF Spec
=============================================================================
