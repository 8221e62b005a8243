--------------------------- MODULE GormPluginProofs ---------------------------
(***************************************************************************)
(* postgres-gorm, for every set of goroutines, rows and values and every   *)
(* setup: type correctness, one audit per version, no gap in the versions  *)
(* of a transactional trail, and that the trail kept outside transactions  *)
(* implements AuditTrail.                                                  *)
(***************************************************************************)
EXTENDS GormPlugin, WellFoundedInduction, TLAPS

(* A call in progress has a number, an audit about to be numbered or saved *)
(* has a row, and only MongoStore inserts sequences.                       *)
Busy ==
    /\ \A c \in Client : pc[c] # "idle" => cid[c] \in Call
    /\ \A c \in Client : pc[c] \in {"insert", "save"} => cur[c].row \in Row
    /\ \A c \in Client : pc[c] = "insert" => setup.store = "mongo"

(* There is a highest version among the audits a client can see, or        *)
(* MAX(version) would not be defined.                                      *)
Bounded ==
    /\ \E n \in Nat : \A a \in audits : a.version <= n
    /\ \A c \in Client : \E n \in Nat : \A a \in staged[c] : a.version <= n

TInv == TypeOK /\ Busy /\ Bounded

-----------------------------------------------------------------------------
(* Type correctness *)

Outcome == {"none", "ok", "error", "crash"}

(* A set of numbers with a bound has a maximum, 0 if it is empty. *)
LEMMA Maximum ==
    ASSUME NEW S \in SUBSET Nat, NEW n \in Nat, \A m \in S : m <= n
    PROVE  \E k \in S \cup {0} : \A m \in S : m <= k
<1> DEFINE B == {k \in Nat : \A m \in S : m <= k}
           R == {p \in Nat \X Nat : p[1] < p[2]}
<1>1. B \subseteq Nat /\ B # {}
  OBVIOUS
<1>2. IsWellFoundedOn(R, Nat)
  BY NatLessThanWellFounded DEF OpToRel
<1>3. PICK k \in B : \A j \in B : <<j, k>> \notin R
  BY <1>1, <1>2, WFMin
<1>4. \A j \in B : ~(j < k)
  BY <1>3
<1>5. CASE k \in S \cup {0}
  BY <1>5
<1>6. CASE k \notin S \cup {0}
  <2>1. k - 1 \in Nat /\ \A m \in S : m <= k - 1
    BY <1>6
  <2> QED
    BY <2>1, <1>4
<1> QED
  BY <1>5, <1>6

(* What is known of the setup. *)
LEMMA Setting ==
    ASSUME TypeOK
    PROVE  /\ setup \in Setup /\ setup.calls \in 0..MaxCalls /\ setup.faults \in Nat
           /\ setup.requests \in SUBSET Request
           /\ \A x \in Row : PkStr(x) \in AuditId
           /\ setup.store = "root" => ~setup.failOnAuditError
  BY SetupAssumption DEF TypeOK, Setup, PkStr

(* nextVersion of the module root is beyond every audit c can see. *)
LEMMA MaxVersionBeyond ==
    ASSUME TInv, NEW c \in Client, NEW i \in AuditId
    PROVE  /\ MaxVersion(c, i) \in Nat
           /\ \A a \in audits \cup staged[c] : a.id = i => a.version <= MaxVersion(c, i)
<1> DEFINE seen == {a.version : a \in {b \in audits \cup staged[c] : b.id = i}}
<1>1. \A a \in audits \cup staged[c] : a.version \in Nat
  BY DEF TInv, TypeOK, Audit
<1>2. PICK n \in Nat : \A a \in audits : a.version <= n
  BY DEF TInv, Bounded
<1>3. PICK m \in Nat : \A a \in staged[c] : a.version <= m
  BY DEF TInv, Bounded
<1>4. seen \in SUBSET Nat
  BY <1>1
<1>5. \A v \in seen : v <= n + m
  BY <1>1, <1>2, <1>3
<1>6. \E k \in seen \cup {0} : \A v \in seen : v <= k
  <2>1. n + m \in Nat
    OBVIOUS
  <2> HIDE DEF seen
  <2> QED
    BY <1>4, <1>5, <2>1, Maximum
<1>7. MaxVersion(c, i) \in seen \cup {0} /\ \A v \in seen : v <= MaxVersion(c, i)
  <2>1. MaxVersion(c, i) = CHOOSE k \in seen \cup {0} : \A v \in seen : v <= k
    BY DEF MaxVersion
  <2> HIDE DEF seen
  <2> QED
    BY <1>6, <2>1
<1> QED
  BY <1>4, <1>7

(* Control goes to a label or returns; either keeps the types. *)
LEMMA ControlTyped ==
    ASSUME TInv, NEW c \in Client, pc[c] # "idle",
           NEW o \in Outcome, NEW l \in PC,
           Return(c, o) \/ Goto(c, l) \/ NextEntry(c)
    PROVE  /\ pc' \in [Client -> PC]
           /\ outcome' \in [Call -> Outcome]
           /\ \A d \in Client \ {c} : pc'[d] = pc[d]
<1>1. cid[c] \in Call /\ pc \in [Client -> PC] /\ outcome \in [Call -> Outcome]
  BY DEF TInv, TypeOK, Busy, Outcome
<1>2. {"idle", "version", "commit"} \subseteq PC /\ {"ok", "error"} \subseteq Outcome
  BY DEF PC, Outcome
<1>3. (\E q \in Outcome : Return(c, q)) \/ (\E k \in PC : Goto(c, k))
  BY <1>2 DEF NextEntry
<1>4. CASE \E q \in Outcome : Return(c, q)
  BY <1>1, <1>2, <1>4 DEF Return
<1>5. CASE \E k \in PC : Goto(c, k)
  BY <1>1, <1>5 DEF Goto
<1> QED
  BY <1>3, <1>4, <1>5

(* The elements of the loop are typed. *)
LEMMA EntriesTyped ==
    ASSUME TInv, NEW c \in Client, pc[c] # "idle"
    PROVE  Entries(c) \in SUBSET Entry
<1> DEFINE r == Req(c)
<1>1. r \in Request /\ snap[c] \in Content
  BY DEF TInv, TypeOK, Busy, Req
<1>2. r.ids \subseteq Row /\ r.val \in Content /\ Nil \in Content
  BY <1>1 DEF Request, Content
<1> HIDE DEF r
<1>3. \A x \in r.ids :
        [row |-> x,
         before |-> IF r.op = "create" THEN Nil ELSE IF r.op = "delete" THEN r.val ELSE snap[c],
         after |-> IF r.op = "delete" THEN Nil ELSE r.val] \in Entry
  BY <1>1, <1>2 DEF Entry
<1> QED
  BY <1>3 DEF Entries, r

(* The element taken from the batch. *)
LEMMA ChosenTyped ==
    ASSUME TInv, NEW c \in Client, NEW e \in Chosen(c)
    PROVE  /\ e \in todo[c] /\ e.row \in Row /\ PkStr(e.row) \in AuditId
           /\ \A n \in Nat : Numbered(e, n) \in [row : Row \cup {0}, before : Content,
                                                 after : Content, version : Nat]
<1>1. e \in todo[c] /\ e \in Entry
  BY DEF TInv, TypeOK, Chosen
<1> QED
  BY <1>1, Setting DEF TInv, Entry, Numbered

(* What is written is an audit. *)
LEMMA AuditTyped ==
    ASSUME TInv, NEW c \in Client, pc[c] \in {"insert", "save"}
    PROVE  AuditOf(c) \in Audit
<1>1. cid[c] \in Call /\ cur[c].row \in Row /\ Req(c) \in Request
  BY DEF TInv, TypeOK, Busy, Req
<1>2. PkStr(cur[c].row) \in AuditId
  BY <1>1, Setting DEF TInv
<1>3. cur[c].version \in Nat /\ cur[c].before \in Content /\ cur[c].after \in Content
  BY DEF TInv, TypeOK
<1>4. ActionOf(Req(c).op) \in {"create", "update", "delete"}
  BY <1>1 DEF Request, ActionOf
<1> QED
  BY <1>1, <1>2, <1>3, <1>4 DEF AuditOf, Audit

(* Ending a transaction, and committing it. *)
LEMMA EndTyped ==
    ASSUME TInv, NEW c \in Client, EndTx(c)
    PROVE  /\ write' \in [Client -> SUBSET Row]
           /\ bump' \in [Client -> [AuditId -> Nat]]
           /\ staged' \in [Client -> SUBSET Audit]
           /\ \A d \in Client : staged'[d] \subseteq staged[d]
<1>1. NoBump \in [AuditId -> Nat]
  BY DEF NoBump
<1> QED
  BY <1>1 DEF TInv, TypeOK, EndTx

(* A commit keeps the types of all that is permanent. *)
LEMMA PublishTyped ==
    ASSUME TInv, NEW c \in Client, pc[c] # "idle", Publish(c)
    PROVE  /\ rows' \in [Row -> Content]
           /\ history' \in [Row -> Seq(Call)]
           /\ audits' \in SUBSET Audit
           /\ \E n \in Nat : \A a \in audits' : a.version <= n
           /\ seq' \in [AuditId -> Nat]
<1>1. cid[c] \in Call /\ Req(c) \in Request
  BY DEF TInv, TypeOK, Busy, Req
<1>2. rows' \in [Row -> Content]
  <2>1. \A x \in Row : NewContent(Req(c), rows[x]) \in Content
    BY <1>1 DEF TInv, TypeOK, Request, NewContent, Content
  <2> QED
    BY <2>1 DEF TInv, TypeOK, Publish
<1>3. history' \in [Row -> Seq(Call)]
  <2>1. \A x \in Row : Append(history[x], cid[c]) \in Seq(Call)
    BY <1>1 DEF TInv, TypeOK
  <2> QED
    BY <2>1 DEF TInv, TypeOK, Publish
<1>4. audits' \in SUBSET Audit
  BY DEF TInv, TypeOK, Publish
<1>5. seq' \in [AuditId -> Nat]
  BY DEF TInv, TypeOK, Publish
<1>6. \E n \in Nat : \A a \in audits' : a.version <= n
  <2>1. PICK n \in Nat : \A a \in audits : a.version <= n
    BY DEF TInv, Bounded
  <2>2. PICK m \in Nat : \A a \in staged[c] : a.version <= m
    BY DEF TInv, Bounded
  <2>3. \A a \in audits \cup staged[c] : a.version \in Nat
    BY DEF TInv, TypeOK, Audit
  <2>4. n + m \in Nat /\ \A a \in audits' : a.version <= n + m
    BY <2>1, <2>2, <2>3 DEF Publish
  <2> QED
    BY <2>4
<1> QED
  BY <1>2, <1>3, <1>4, <1>5, <1>6

(* The initial states are well typed. *)
LEMMA TypedInit == Init => TInv
<1> SUFFICES ASSUME Init PROVE TInv
  OBVIOUS
<1>1. NoRequest \in Request
  BY DEF NoRequest, Request
<1>2. NoAudit \in [row : Row \cup {0}, before : Content, after : Content, version : Nat]
  BY DEF NoAudit, Content
<1>3. rows \in [Row -> Content]
  BY SetupAssumption DEF Init, Setup, Content
<1>4. setup.faults \in Nat
  BY SetupAssumption DEF Init, Setup
<1>5. TypeOK
  BY <1>1, <1>2, <1>3, <1>4, BoundAssumption
     DEF Init, TypeOK, PC, Content, Call, NoBump
<1>6. Busy /\ Bounded
  BY DEF Init, Busy, Bounded
<1> QED
  BY <1>5, <1>6 DEF TInv

(* Only the call of c changes hands; a new holder of a number has a row.   *)
LEMMA BusyStep ==
    ASSUME TInv, NEW c \in Client, UNCHANGED <<setup, cid>>,
           pc[c] # "idle",
           \A d \in Client \ {c} : pc'[d] = pc[d] /\ cur'[d] = cur[d],
           pc'[c] \in {"insert", "save"} => cur'[c].row \in Row,
           pc'[c] = "insert" => setup.store = "mongo"
    PROVE  Busy'
  BY DEF TInv, Busy

(* Fewer staged audits are still bounded, ... *)
LEMMA BoundedShrinks ==
    ASSUME Bounded, UNCHANGED audits, \A d \in Client : staged'[d] \subseteq staged[d]
    PROVE  Bounded'
<1>1. \A d \in Client : \E n \in Nat : \A a \in staged'[d] : a.version <= n
  BY DEF Bounded
<1> QED
  BY <1>1 DEF Bounded

(* ... and so are they with one more. *)
LEMMA BoundedGrows ==
    ASSUME TInv, NEW c \in Client, NEW b \in Audit,
           audits' \subseteq audits \cup {b},
           \A d \in Client \ {c} : staged'[d] = staged[d],
           staged'[c] \subseteq staged[c] \cup {b}
    PROVE  Bounded'
<1>0. b.version \in Nat /\ (\A a \in audits : a.version \in Nat)
      /\ \A d \in Client : \A a \in staged[d] : a.version \in Nat
  BY DEF TInv, TypeOK, Audit
<1>1. \E n \in Nat : \A a \in audits' : a.version <= n
  <2>1. PICK n \in Nat : \A a \in audits : a.version <= n
    BY DEF TInv, Bounded
  <2>2. n + b.version \in Nat /\ \A a \in audits' : a.version <= n + b.version
    BY <1>0, <2>1
  <2> QED
    BY <2>2
<1>2. ASSUME NEW d \in Client PROVE \E n \in Nat : \A a \in staged'[d] : a.version <= n
  <2>1. PICK n \in Nat : \A a \in staged[d] : a.version <= n
    BY DEF TInv, Bounded
  <2>2. staged'[d] \subseteq staged[d] \cup {b}
    OBVIOUS
  <2>3. n + b.version \in Nat /\ \A a \in staged'[d] : a.version <= n + b.version
    BY <1>0, <2>1, <2>2
  <2> QED
    BY <2>3
<1> QED
  BY <1>1, <1>2 DEF Bounded

(* A failure is counted up to the bound. *)
LEMMA FaultTyped ==
    ASSUME TypeOK, Fault \/ UNCHANGED faults, UNCHANGED setup
    PROVE  faults' \in 0..setup'.faults
  BY Setting DEF TypeOK, Fault

(* HandleError and AuditFails note the call and leave the flag a flag. *)
LEMMA ReportTyped ==
    ASSUME TInv, NEW c \in Client, pc[c] # "idle", NEW a \in BOOLEAN,
           AuditFails(c, a) \/ HandleError(c) \/ AuditsFailure(c)
    PROVE  /\ reported' \in SUBSET Call
           /\ AuditFails(c, a) => broken' \in [Client -> BOOLEAN]
<1>1. cid[c] \in Call /\ reported \in SUBSET Call /\ broken \in [Client -> BOOLEAN]
  BY DEF TInv, TypeOK, Busy
<1>2. setup.failOnAuditError \in BOOLEAN /\ setup.abortOnError \in BOOLEAN /\ Joined \in BOOLEAN
  BY Setting DEF TInv, Setup, Joined
<1>3. reported' \in SUBSET Call
  BY <1>1 DEF AuditFails, HandleError, AuditsFailure
<1>4. ASSUME AuditFails(c, a) PROVE broken' \in [Client -> BOOLEAN]
  BY <1>1, <1>2, <1>4 DEF AuditFails
<1> QED
  BY <1>3, <1>4

(* The fields of the state in the groups the actions change. *)
Database == <<rows, seq, audits, history>>
Caller == <<setup, args, cid, calls>>

(* Begin keeps the types, ... *)
LEMMA BeginTyped ==
    ASSUME TInv, UNCHANGED setup, NEW c \in Client, NEW r \in setup.requests, Begin(c, r)
    PROVE  TInv'
<1> USE DEF TInv
<1>1. r \in Request /\ setup.calls \in 0..MaxCalls
  BY Setting
<1>2. calls + 1 \in Call /\ calls + 1 \in 0..MaxCalls
  BY <1>1, BoundAssumption DEF Begin, TypeOK, Call
<1>3. NoAudit \in [row : Row \cup {0}, before : Content, after : Content, version : Nat]
      /\ Nil \in Content
  BY DEF NoAudit, Content
<1>4. pc' \in [Client -> PC] /\ pc'[c] = "before"
      /\ \A d \in Client \ {c} : pc'[d] = pc[d] /\ cid'[d] = cid[d] /\ cur'[d] = cur[d]
  BY DEF Begin, Goto, TypeOK, PC
<1>5. TypeOK'
  BY <1>1, <1>2, <1>3, <1>4 DEF Begin, Goto, TypeOK
<1>6. cid'[c] \in Call
  BY <1>2 DEF Begin, TypeOK
<1>7. Busy'
  BY <1>4, <1>6 DEF Busy
<1>8. Bounded'
  BY DEF Begin, Bounded
<1> QED
  BY <1>5, <1>7, <1>8

(* First has a lowest row to return. *)
LEMMA FirstOfRows ==
    ASSUME NEW S \in SUBSET Row, S # {}
    PROVE  (CHOOSE y \in S : \A z \in S : y <= z) \in S
<1> DEFINE R == {p \in Nat \X Nat : p[1] < p[2]}
<1>1. S \subseteq Nat
  BY RowAssumption
<1>2. IsWellFoundedOn(R, Nat)
  BY NatLessThanWellFounded DEF OpToRel
<1>3. PICK y \in S : \A z \in S : <<z, y>> \notin R
  BY <1>1, <1>2, WFMin
<1>4. \A z \in S : y <= z
  <2>1. \A z \in S : ~(z < y)
    BY <1>1, <1>3
  <2> QED
    BY <1>1, <2>1
<1> QED
  BY <1>4

(* The before callbacks keep the types, ... *)
LEMMA CallbackTyped ==
    ASSUME TInv, UNCHANGED setup, NEW c \in Client,
           Guard(c) \/ BeforeUpdate(c) \/ SnapshotFails(c)
    PROVE  TInv'
<1> USE DEF TInv
<1>1. pc[c] # "idle" /\ UNCHANGED <<Database, Caller, todo, cur>>
  BY DEF Guard, BeforeUpdate, SnapshotFails, Database, Caller
<1>2. /\ \/ EndTx(c) /\ Return(c, "error")
         \/ UNCHANGED <<write, bump, staged>> /\ Goto(c, "write")
  BY DEF Guard, BeforeUpdate, SnapshotFails, NoSnapshot
<1>3. /\ pc' \in [Client -> PC] /\ outcome' \in [Call -> Outcome]
      /\ \A d \in Client \ {c} : pc'[d] = pc[d]
      /\ pc'[c] \notin {"insert", "save"}
  <2>1. "error" \in Outcome /\ "write" \in PC
    BY DEF Outcome, PC
  <2>2. pc' \in [Client -> PC] /\ outcome' \in [Call -> Outcome]
        /\ \A d \in Client \ {c} : pc'[d] = pc[d]
    BY <1>1, <1>2, <2>1, ControlTyped
  <2> QED
    BY <1>2, <2>2 DEF Return, Goto, TypeOK
<1>4. /\ write' \in [Client -> SUBSET Row]
      /\ bump' \in [Client -> [AuditId -> Nat]]
      /\ staged' \in [Client -> SUBSET Audit]
      /\ \A d \in Client \ {c} : staged'[d] = staged[d]
      /\ staged'[c] \subseteq staged[c]
  BY <1>2, EndTyped DEF EndTx, TypeOK
<1>5. reported' \in SUBSET Call
  <2>1. HandleError(c) \/ UNCHANGED reported
    BY DEF Guard, BeforeUpdate, SnapshotFails, NoSnapshot
  <2> QED
    BY <1>1, <2>1, ReportTyped DEF TypeOK
<1>6. snap' \in [Client -> Content]
  <2>1. \/ UNCHANGED snap
        \/ \E x \in Row : snap' = [snap EXCEPT ![c] = rows[x]]
    <3> DEFINE same == {y \in Row :
                          rows[y] # Nil /\ \E x \in Req(c).ids : PkStr(x) = PkStr(y)}
    <3>1. CASE BeforeUpdate(c) /\ same # {}
      <4> DEFINE first == CHOOSE y \in same : \A z \in same : y <= z
      <4>1. first \in Row
        BY <3>1, FirstOfRows
      <4>2. snap' = [snap EXCEPT ![c] = rows[first]]
        BY <3>1 DEF BeforeUpdate
      <4> QED
        BY <4>1, <4>2
    <3>2. CASE ~(BeforeUpdate(c) /\ same # {})
      BY <3>2 DEF Guard, BeforeUpdate, SnapshotFails, NoSnapshot
    <3> QED
      BY <3>1, <3>2
  <2> QED
    BY <2>1 DEF TypeOK
<1>7. broken' \in [Client -> BOOLEAN] /\ faults' \in 0..setup'.faults
  BY FaultTyped, Setting DEF Guard, BeforeUpdate, SnapshotFails, TypeOK, Setup
<1>8. TypeOK'
  BY <1>1, <1>3, <1>4, <1>5, <1>6, <1>7 DEF TypeOK, Database, Caller, Outcome
<1>9. Busy'
  <2>1. UNCHANGED <<setup, cid, cur>>
    BY <1>1 DEF Caller
  <2>2. \A d \in Client \ {c} : pc'[d] = pc[d] /\ cur'[d] = cur[d]
    BY <1>3, <2>1
  <2>3. pc[c] # "idle" /\ pc'[c] \notin {"insert", "save"}
    BY <1>1, <1>3
  <2> QED
    BY <2>1, <2>2, <2>3, BusyStep
<1>10. Bounded'
  <2>1. UNCHANGED audits
    BY <1>1 DEF Database
  <2>2. \A d \in Client : staged'[d] \subseteq staged[d]
    BY <1>4
  <2> QED
    BY <2>1, <2>2, BoundedShrinks
<1> QED
  BY <1>8, <1>9, <1>10

(* The transaction of a statement that fails is rolled back.               *)
LEMMA RollbackTyped ==
    ASSUME TInv, NEW c \in Client, pc[c] # "idle", NEW o \in Outcome, Rollback(c, o)
    PROVE  /\ pc' \in [Client -> PC] /\ pc'[c] = "idle"
           /\ \A d \in Client \ {c} : pc'[d] = pc[d]
           /\ outcome' \in [Call -> Outcome]
           /\ write' \in [Client -> SUBSET Row]
           /\ bump' \in [Client -> [AuditId -> Nat]]
           /\ staged' \in [Client -> SUBSET Audit]
           /\ \A d \in Client : staged'[d] \subseteq staged[d]
           /\ rows' \in [Row -> Content] /\ seq' \in [AuditId -> Nat]
           /\ audits' \in SUBSET Audit /\ history' \in [Row -> Seq(Call)]
           /\ UNCHANGED audits
<1>1. "idle" \in PC
  BY DEF PC
<1>2. pc' \in [Client -> PC] /\ outcome' \in [Call -> Outcome]
      /\ \A d \in Client \ {c} : pc'[d] = pc[d]
  BY <1>1, ControlTyped DEF Rollback
<1>3. pc'[c] = "idle"
  BY DEF Rollback, Return, TInv, TypeOK
<1>4. EndTx(c) /\ UNCHANGED <<rows, seq, audits, history>>
  BY DEF Rollback
<1> QED
  BY <1>2, <1>3, <1>4, EndTyped DEF TInv, TypeOK

(* The statement keeps the types, ... *)
LEMMA WriteTyped ==
    ASSUME TInv, UNCHANGED setup, NEW c \in Client, Write(c) \/ WriteFails(c)
    PROVE  TInv'
<1>1. pc[c] # "idle" /\ UNCHANGED <<broken, args, cid, snap, cur, calls>>
  BY DEF Write, WriteFails
<1>2. /\ reported' \in SUBSET Call
      /\ faults' \in 0..setup'.faults
  <2>1. AuditsFailure(c) \/ UNCHANGED reported
    BY DEF Write, WriteFails
  <2>2. Fault \/ UNCHANGED faults
    BY DEF Write, WriteFails
  <2> QED
    BY <1>1, <2>1, <2>2, ReportTyped, FaultTyped DEF TInv, TypeOK
<1>3. CASE Rollback(c, "error") /\ UNCHANGED todo
  <2>1. "error" \in Outcome
    BY DEF Outcome
  <2>2. TypeOK'
    BY <1>1, <1>2, <1>3, <2>1, RollbackTyped DEF TInv, TypeOK, Outcome
  <2>3. /\ \A d \in Client \ {c} : pc'[d] = pc[d] /\ cur'[d] = cur[d]
        /\ pc'[c] = "idle"
    BY <1>1, <1>3, <2>1, RollbackTyped
  <2>4. UNCHANGED <<setup, cid>>
    BY <1>1
  <2>5. Busy'
    BY <1>1, <2>3, <2>4, BusyStep
  <2>6. UNCHANGED audits /\ \A d \in Client : staged'[d] \subseteq staged[d]
    BY <1>1, <1>3, <2>1, RollbackTyped
  <2> QED
    BY <2>2, <2>5, <2>6, BoundedShrinks DEF TInv
<1>4. CASE /\ write' = [write EXCEPT ![c] = Targets(Req(c))]
           /\ \E T \in {{}, Entries(c)} : todo' = [todo EXCEPT ![c] = T]
           /\ Goto(c, "version") \/ Goto(c, "commit")
           /\ UNCHANGED <<rows, seq, audits, bump, staged, history>>
  <2>1. "version" \in PC /\ "commit" \in PC
    BY DEF PC
  <2>2. pc' \in [Client -> PC] /\ outcome' \in [Call -> Outcome]
        /\ \A d \in Client \ {c} : pc'[d] = pc[d]
    BY <1>1, <1>4, <2>1, ControlTyped DEF Outcome
  <2>3. pc'[c] \in {"version", "commit"}
    BY <1>4 DEF Goto, TInv, TypeOK
  <2>4. write' \in [Client -> SUBSET Row]
    <3>1. Req(c) \in Request
      BY <1>1 DEF TInv, TypeOK, Busy, Req
    <3>2. Targets(Req(c)) \subseteq Row
      BY <3>1 DEF Targets, Request
    <3> QED
      BY <1>4, <3>2 DEF TInv, TypeOK
  <2>5. todo' \in [Client -> SUBSET Entry]
    <3>1. Entries(c) \in SUBSET Entry
      BY <1>1, EntriesTyped
    <3> QED
      BY <1>4, <3>1 DEF TInv, TypeOK
  <2>6. TypeOK'
    BY <1>1, <1>2, <1>4, <2>2, <2>4, <2>5 DEF TInv, TypeOK, Outcome
  <2>7. UNCHANGED <<setup, cid, cur>>
    BY <1>1
  <2>8. \A d \in Client \ {c} : pc'[d] = pc[d] /\ cur'[d] = cur[d]
    BY <2>2, <2>7
  <2>9. pc[c] # "idle" /\ pc'[c] \notin {"insert", "save"}
    BY <1>1, <2>3
  <2>10. Busy'
    BY <2>7, <2>8, <2>9, BusyStep
  <2>11. UNCHANGED audits /\ \A d \in Client : staged'[d] \subseteq staged[d]
    BY <1>4
  <2> QED
    BY <2>6, <2>10, <2>11, BoundedShrinks DEF TInv
<1> QED
  BY <1>3, <1>4 DEF Write, WriteFails

(* ... its commit does, ... *)
LEMMA CommitTyped ==
    ASSUME TInv, UNCHANGED setup, NEW c \in Client,
           Commit(c) \/ CommitFails(c) \/ Crash(c)
    PROVE  TInv'
<1>1. pc[c] # "idle" /\ UNCHANGED <<broken, args, cid, snap, cur, calls>>
  BY DEF Commit, CommitFails, Crash
<1>2. /\ reported' \in SUBSET Call
      /\ faults' \in 0..setup'.faults
  <2>1. AuditsFailure(c) \/ UNCHANGED reported
    BY DEF Commit, CommitFails, Crash
  <2>2. Fault \/ UNCHANGED faults
    BY DEF Commit, CommitFails, Crash
  <2> QED
    BY <1>1, <2>1, <2>2, ReportTyped, FaultTyped DEF TInv, TypeOK
<1>3. todo' \in [Client -> SUBSET Entry]
  BY DEF Commit, CommitFails, Crash, TInv, TypeOK
<1>4. {"ok", "error", "crash"} \subseteq Outcome /\ "version" \in PC
  BY DEF Outcome, PC
<1>5. /\ \/ \E o \in Outcome : Rollback(c, o)
         \/ /\ Publish(c)
            /\ (\E o \in Outcome : Return(c, o)) \/ Goto(c, "version")
  BY <1>4 DEF Commit, CommitFails, Crash
<1>6. CASE \E o \in Outcome : Rollback(c, o)
  <2>1. PICK o \in Outcome : Rollback(c, o)
    BY <1>6
  <2>2. TypeOK'
    BY <1>1, <1>2, <1>3, <2>1, RollbackTyped DEF TInv, TypeOK, Outcome
  <2>3. /\ \A d \in Client \ {c} : pc'[d] = pc[d] /\ cur'[d] = cur[d]
        /\ pc'[c] = "idle"
    BY <1>1, <2>1, RollbackTyped
  <2>4. UNCHANGED <<setup, cid>>
    BY <1>1
  <2>5. Busy'
    BY <1>1, <2>3, <2>4, BusyStep
  <2>6. UNCHANGED audits /\ \A d \in Client : staged'[d] \subseteq staged[d]
    BY <1>1, <2>1, RollbackTyped
  <2> QED
    BY <2>2, <2>5, <2>6, BoundedShrinks DEF TInv
<1>7. CASE Publish(c) /\ ((\E o \in Outcome : Return(c, o)) \/ Goto(c, "version"))
  <2>1. pc' \in [Client -> PC] /\ outcome' \in [Call -> Outcome]
        /\ \A d \in Client \ {c} : pc'[d] = pc[d]
    BY <1>1, <1>4, <1>7, ControlTyped
  <2>2. pc'[c] \in {"idle", "version"}
    BY <1>7 DEF Goto, Return, TInv, TypeOK
  <2>3. EndTx(c)
    BY <1>7 DEF Publish
  <2>4. /\ rows' \in [Row -> Content] /\ history' \in [Row -> Seq(Call)]
        /\ audits' \in SUBSET Audit /\ seq' \in [AuditId -> Nat]
        /\ \E n \in Nat : \A a \in audits' : a.version <= n
    BY <1>1, <1>7, PublishTyped
  <2>5. TypeOK'
    BY <1>1, <1>2, <1>3, <2>1, <2>3, <2>4, EndTyped DEF TInv, TypeOK, Outcome
  <2>6. UNCHANGED <<setup, cid, cur>>
    BY <1>1
  <2>7. \A d \in Client \ {c} : pc'[d] = pc[d] /\ cur'[d] = cur[d]
    BY <2>1, <2>6
  <2>8. pc[c] # "idle" /\ pc'[c] \notin {"insert", "save"}
    BY <1>1, <2>2
  <2>9. Busy'
    BY <2>6, <2>7, <2>8, BusyStep
  <2>10. \A d \in Client : staged'[d] \subseteq staged[d]
    BY <2>3, EndTyped
  <2>11. \A d \in Client : \E n \in Nat : \A a \in staged'[d] : a.version <= n
    BY <2>10 DEF TInv, Bounded
  <2> QED
    BY <2>4, <2>5, <2>9, <2>11 DEF TInv, Bounded
<1> QED
  BY <1>5, <1>6, <1>7

(* ... taking a number, ... *)
LEMMA TakeTyped ==
    ASSUME TInv, NEW c \in Client, NEW i \in AuditId, Take(c, i)
    PROVE  seq' \in [AuditId -> Nat] /\ bump' \in [Client -> [AuditId -> Nat]]
<1>1. seq \in [AuditId -> Nat] /\ bump \in [Client -> [AuditId -> Nat]]
  BY DEF TInv, TypeOK
<1>2. CASE seq' = [seq EXCEPT ![i] = @ + 1] /\ UNCHANGED bump
  BY <1>1, <1>2
<1>3. CASE bump' = [bump EXCEPT ![c][i] = @ + 1] /\ UNCHANGED seq
  <2>1. [bump[c] EXCEPT ![i] = bump[c][i] + 1] \in [AuditId -> Nat]
    BY <1>1
  <2>2. bump' = [bump EXCEPT ![c] = [bump[c] EXCEPT ![i] = bump[c][i] + 1]]
    BY <1>3
  <2> QED
    BY <1>1, <1>3, <2>1, <2>2
<1> QED
  BY <1>2, <1>3 DEF Take

(* nextVersion takes e from the batch and ends with an error, or with a    *)
(* number for it, or goes on to insert a sequence.                         *)
Draws(c, e) ==
    /\ todo' = [todo EXCEPT ![c] = @ \ {e}]
    /\ \/ /\ AuditFails(c, TRUE)
          /\ UNCHANGED <<cur, bump>>
          /\ UNCHANGED seq \/ seq' = [seq EXCEPT ![PkStr(e.row)] = @ + 1]
       \/ /\ \E n \in Nat : cur' = [cur EXCEPT ![c] = Numbered(e, n)]
          /\ Goto(c, "save") \/ (Goto(c, "insert") /\ setup.store = "mongo")
          /\ Take(c, PkStr(e.row)) \/ UNCHANGED <<seq, bump>>
          /\ \/ UNCHANGED <<broken, reported>>
             \/ /\ HandleError(c)
                /\ broken' = [broken EXCEPT ![c] = @ \/ (Joined /\ setup.abortOnError)]

(* The statements of nextVersion. *)
LEMMA VersionTyped ==
    ASSUME TInv, UNCHANGED setup, NEW c \in Client,
           NextVersion(c) \/ VersionFails(c) \/ ReadMax(c) \/ ReadMaxFails(c)
    PROVE  TInv'
<1>1. pc[c] = "version"
      /\ UNCHANGED <<rows, audits, write, staged, args, cid, snap, calls, history>>
  BY DEF NextVersion, VersionFails, ReadMax, ReadMaxFails, txVars
<1>2. faults' \in 0..setup'.faults
  <2>1. Fault \/ UNCHANGED faults
    BY DEF NextVersion, VersionFails, ReadMax, ReadMaxFails
  <2> QED
    BY <2>1, FaultTyped DEF TInv
<1>3. \E e \in Chosen(c) : Draws(c, e)
  <2>1. CASE NextVersion(c)
    <3>1. PICK e \in Chosen(c) :
            LET i == PkStr(e.row)
                waits == setup.store = "mongo" /\ seq[i] = 0
            IN /\ todo' = [todo EXCEPT ![c] = @ \ {e}]
               /\ IF Refuses(c)
                    THEN AuditFails(c, TRUE) /\ UNCHANGED <<seq, bump, cur>>
                    ELSE /\ setup.store = "gorm" => SequenceFree(c, i)
                         /\ cur' = [cur EXCEPT ![c] =
                                      Numbered(e, IF waits THEN 0 ELSE Current(c, i) + 1)]
                         /\ IF waits THEN Goto(c, "insert") /\ UNCHANGED <<seq, bump>>
                                     ELSE Goto(c, "save") /\ Take(c, i)
                         /\ UNCHANGED <<broken, reported>>
      BY <2>1 DEF NextVersion
    <3>2. Current(c, PkStr(e.row)) + 1 \in Nat
      BY ChosenTyped DEF Current, TInv, TypeOK
    <3>3. CASE Refuses(c)
      BY <3>1, <3>3 DEF Draws
    <3>4. CASE ~Refuses(c) /\ setup.store = "mongo" /\ seq[PkStr(e.row)] = 0
      <4>1. cur' = [cur EXCEPT ![c] = Numbered(e, 0)]
        BY <3>1, <3>4
      <4>2. \E n \in Nat : cur' = [cur EXCEPT ![c] = Numbered(e, n)]
        BY <4>1
      <4> QED
        BY <3>1, <3>4, <4>2 DEF Draws
    <3>5. CASE ~Refuses(c) /\ ~(setup.store = "mongo" /\ seq[PkStr(e.row)] = 0)
      <4>1. cur' = [cur EXCEPT ![c] = Numbered(e, Current(c, PkStr(e.row)) + 1)]
        BY <3>1, <3>5
      <4>2. \E n \in Nat : cur' = [cur EXCEPT ![c] = Numbered(e, n)]
        BY <3>2, <4>1
      <4> QED
        BY <3>1, <3>5, <4>2 DEF Draws
    <3> QED
      BY <3>3, <3>4, <3>5
  <2>2. CASE VersionFails(c)
    BY <2>2 DEF VersionFails, Draws
  <2>3. CASE ReadMax(c)
    <3>1. PICK e \in Chosen(c) :
            /\ todo' = [todo EXCEPT ![c] = @ \ {e}]
            /\ cur' = [cur EXCEPT ![c] = Numbered(e, MaxVersion(c, PkStr(e.row)) + 1)]
      BY <2>3 DEF ReadMax
    <3>2. MaxVersion(c, PkStr(e.row)) + 1 \in Nat
      BY ChosenTyped, MaxVersionBeyond
    <3>3. Goto(c, "save") /\ UNCHANGED <<seq, bump, broken, reported>>
      BY <2>3 DEF ReadMax, txVars
    <3>4. \E n \in Nat : cur' = [cur EXCEPT ![c] = Numbered(e, n)]
      BY <3>1, <3>2
    <3> QED
      BY <3>1, <3>3, <3>4 DEF Draws
  <2>4. CASE ReadMaxFails(c)
    BY <2>4 DEF ReadMaxFails, Draws
  <2> QED
    BY <2>1, <2>2, <2>3, <2>4
<1> PICK e \in Chosen(c) : Draws(c, e)
  BY <1>3
<1>4. e \in todo[c] /\ e.row \in Row /\ PkStr(e.row) \in AuditId
      /\ \A n \in Nat : Numbered(e, n) \in [row : Row \cup {0}, before : Content,
                                            after : Content, version : Nat]
  BY ChosenTyped
<1>5. todo' \in [Client -> SUBSET Entry]
  BY DEF Draws, TInv, TypeOK
<1>6. {"insert", "save"} \subseteq PC /\ "error" \in Outcome
  BY DEF PC, Outcome
<1>7. pc' \in [Client -> PC] /\ outcome' \in [Call -> Outcome]
      /\ \A d \in Client \ {c} : pc'[d] = pc[d]
  <2>1. NextEntry(c) \/ Goto(c, "insert") \/ Goto(c, "save")
    BY DEF Draws, AuditFails
  <2> QED
    BY <1>1, <1>6, <2>1, ControlTyped
<1>8. reported' \in SUBSET Call /\ broken' \in [Client -> BOOLEAN]
  <2>1. CASE AuditFails(c, TRUE)
    BY <1>1, <2>1, ReportTyped
  <2>2. CASE UNCHANGED <<broken, reported>>
    BY <2>2 DEF TInv, TypeOK
  <2>3. CASE /\ HandleError(c)
             /\ broken' = [broken EXCEPT ![c] = @ \/ (Joined /\ setup.abortOnError)]
    <3>1. reported' \in SUBSET Call
      BY <1>1, <2>3, ReportTyped
    <3> QED
      BY <2>3, <3>1 DEF TInv, TypeOK
  <2> QED
    BY <2>1, <2>2, <2>3 DEF Draws
<1>9. seq' \in [AuditId -> Nat] /\ bump' \in [Client -> [AuditId -> Nat]]
  <2>0. PkStr(e.row) \in AuditId
    BY <1>4
  <2>1. CASE Take(c, PkStr(e.row))
    BY <2>0, <2>1, TakeTyped
  <2>2. CASE UNCHANGED bump /\ (UNCHANGED seq \/ seq' = [seq EXCEPT ![PkStr(e.row)] = @ + 1])
    <3>1. seq \in [AuditId -> Nat] /\ bump \in [Client -> [AuditId -> Nat]]
      BY DEF TInv, TypeOK
    <3>2. [seq EXCEPT ![PkStr(e.row)] = seq[PkStr(e.row)] + 1] \in [AuditId -> Nat]
      BY <2>0, <3>1
    <3> QED
      BY <2>2, <3>1, <3>2
  <2> QED
    BY <2>1, <2>2 DEF Draws
<1>10. /\ cur' \in [Client -> [row : Row \cup {0}, before : Content, after : Content,
                              version : Nat]]
       /\ \A d \in Client \ {c} : cur'[d] = cur[d]
       /\ UNCHANGED cur \/ cur'[c].row = e.row
  <2>1. CASE UNCHANGED cur
    BY <2>1 DEF TInv, TypeOK
  <2>2. CASE \E n \in Nat : cur' = [cur EXCEPT ![c] = Numbered(e, n)]
    BY <1>4, <2>2 DEF TInv, TypeOK, Numbered
  <2> QED
    BY <2>1, <2>2 DEF Draws
<1>11. TypeOK'
  BY <1>1, <1>2, <1>5, <1>7, <1>8, <1>9, <1>10 DEF TInv, TypeOK, Outcome
<1>12. /\ pc'[c] \in {"insert", "save"} => cur'[c].row \in Row
       /\ pc'[c] = "insert" => setup.store = "mongo"
  <2>1. CASE AuditFails(c, TRUE)
    <3>1. pc'[c] \notin {"insert", "save"}
      BY <2>1 DEF AuditFails, NextEntry, Goto, Return, TInv, TypeOK
    <3> QED
      BY <3>1
  <2>2. CASE \E n \in Nat : cur' = [cur EXCEPT ![c] = Numbered(e, n)]
    <3>1. cur'[c].row = e.row
      BY <2>2 DEF TInv, TypeOK, Numbered
    <3>2. pc'[c] = "insert" => AuditFails(c, TRUE) \/ setup.store = "mongo"
      BY DEF Draws, Goto, TInv, TypeOK
    <3>3. AuditFails(c, TRUE) => pc'[c] \notin {"insert", "save"}
      BY DEF AuditFails, NextEntry, Goto, Return, TInv, TypeOK
    <3> QED
      BY <1>4, <3>1, <3>2, <3>3
  <2> QED
    BY <2>1, <2>2 DEF Draws
<1>13. Busy'
  <2>1. UNCHANGED <<setup, cid>> /\ pc[c] # "idle"
    BY <1>1
  <2>2. \A d \in Client \ {c} : pc'[d] = pc[d] /\ cur'[d] = cur[d]
    BY <1>7, <1>10
  <2> QED
    BY <1>12, <2>1, <2>2, BusyStep
<1>14. Bounded'
  <2>1. UNCHANGED audits /\ \A d \in Client : staged'[d] \subseteq staged[d]
    BY <1>1
  <2> QED
    BY <2>1, BoundedShrinks DEF TInv
<1> QED
  BY <1>11, <1>13, <1>14 DEF TInv

(* The insert of MongoStore, and Store.Save. *)
LEMMA InsertVersionTyped ==
    ASSUME TInv, UNCHANGED setup, NEW c \in Client, InsertVersion(c)
    PROVE  TInv'
<1> DEFINE i == PkStr(cur[c].row)
<1>1. pc[c] = "insert" /\ cur[c].row \in Row /\ i \in AuditId
      /\ UNCHANGED <<rows, audits, write, bump, staged, args, cid, snap, calls, faults,
                     history, todo>>
  <2>1. pc[c] = "insert" /\ cur[c].row \in Row
    BY DEF InsertVersion, TInv, Busy
  <2> QED
    BY <2>1, Setting DEF InsertVersion, TInv
<1> HIDE DEF i
<1>2. CASE /\ seq' = [seq EXCEPT ![i] = 1] /\ cur' = [cur EXCEPT ![c].version = 1]
           /\ Goto(c, "save") /\ UNCHANGED <<broken, reported>>
  <2>1. "save" \in PC /\ "error" \in Outcome
    BY DEF PC, Outcome
  <2>2. pc' \in [Client -> PC] /\ outcome' \in [Call -> Outcome]
        /\ \A d \in Client \ {c} : pc'[d] = pc[d]
    BY <1>1, <1>2, <2>1, ControlTyped
  <2>3. cur' \in [Client -> [row : Row \cup {0}, before : Content, after : Content,
                             version : Nat]]
        /\ cur'[c].row = cur[c].row /\ \A d \in Client \ {c} : cur'[d] = cur[d]
    BY <1>2 DEF TInv, TypeOK
  <2>4. TypeOK'
    BY <1>1, <1>2, <2>2, <2>3 DEF TInv, TypeOK, Outcome
  <2>5. /\ UNCHANGED <<setup, cid>> /\ pc[c] # "idle"
        /\ \A d \in Client \ {c} : pc'[d] = pc[d] /\ cur'[d] = cur[d]
        /\ cur'[c].row \in Row /\ pc'[c] # "insert"
    BY <1>1, <1>2, <2>2, <2>3 DEF Goto, TInv, TypeOK
  <2>6. Busy'
    BY <2>5, BusyStep
  <2>7. UNCHANGED audits /\ \A d \in Client : staged'[d] \subseteq staged[d]
    BY <1>1
  <2> QED
    BY <2>4, <2>6, <2>7, BoundedShrinks DEF TInv
<1>3. CASE UNCHANGED <<seq, cur>> /\ AuditFails(c, FALSE)
  <2>1. "error" \in Outcome /\ "idle" \in PC
    BY DEF PC, Outcome
  <2>2. pc' \in [Client -> PC] /\ outcome' \in [Call -> Outcome]
        /\ \A d \in Client \ {c} : pc'[d] = pc[d]
    BY <1>1, <1>3, <2>1, ControlTyped DEF AuditFails
  <2>3. reported' \in SUBSET Call /\ broken' \in [Client -> BOOLEAN]
    BY <1>1, <1>3, ReportTyped
  <2>4. TypeOK'
    BY <1>1, <1>3, <2>2, <2>3 DEF TInv, TypeOK, Outcome
  <2>5. /\ UNCHANGED <<setup, cid>> /\ pc[c] # "idle"
        /\ \A d \in Client \ {c} : pc'[d] = pc[d] /\ cur'[d] = cur[d]
        /\ pc'[c] \notin {"insert", "save"}
    BY <1>1, <1>3, <2>2 DEF AuditFails, NextEntry, Goto, Return, TInv, TypeOK
  <2>6. Busy'
    BY <2>5, BusyStep
  <2>7. UNCHANGED audits /\ \A d \in Client : staged'[d] \subseteq staged[d]
    BY <1>1
  <2> QED
    BY <2>4, <2>6, <2>7, BoundedShrinks DEF TInv
<1> QED
  BY <1>2, <1>3 DEF InsertVersion, i

(* ... and Save does. *)
LEMMA SaveTyped ==
    ASSUME TInv, UNCHANGED setup, NEW c \in Client, Save(c) \/ SaveFails(c)
    PROVE  TInv'
<1>1. pc[c] = "save" /\ AuditOf(c) \in Audit
      /\ UNCHANGED <<rows, seq, write, bump, args, cid, snap, cur, calls, history, todo>>
  BY AuditTyped DEF Save, SaveFails
<1>2. faults' \in 0..setup'.faults
  <2>1. Fault \/ UNCHANGED faults
    BY DEF Save, SaveFails
  <2> QED
    BY <2>1, FaultTyped DEF TInv
<1>3. /\ \/ UNCHANGED broken /\ UNCHANGED reported /\ NextEntry(c)
         \/ \E a \in BOOLEAN : AuditFails(c, a)
      /\ Insert(c) \/ UNCHANGED <<audits, staged>>
  BY DEF Save, SaveFails
<1>4. "error" \in Outcome /\ "idle" \in PC
  BY DEF PC, Outcome
<1>5. pc' \in [Client -> PC] /\ outcome' \in [Call -> Outcome]
      /\ \A d \in Client \ {c} : pc'[d] = pc[d]
  <2>1. NextEntry(c)
    BY <1>3 DEF AuditFails
  <2> QED
    BY <1>1, <1>4, <2>1, ControlTyped
<1>6. reported' \in SUBSET Call /\ broken' \in [Client -> BOOLEAN]
  <2>1. CASE UNCHANGED broken /\ UNCHANGED reported
    BY <2>1 DEF TInv, TypeOK
  <2>2. CASE \E a \in BOOLEAN : AuditFails(c, a)
    BY <1>1, <2>2, ReportTyped
  <2> QED
    BY <1>3, <2>1, <2>2
<1>7. /\ audits' \in SUBSET Audit /\ audits' \subseteq audits \cup {AuditOf(c)}
      /\ staged' \in [Client -> SUBSET Audit]
      /\ \A d \in Client \ {c} : staged'[d] = staged[d]
      /\ staged'[c] \subseteq staged[c] \cup {AuditOf(c)}
  <2>1. \/ UNCHANGED <<audits, staged>>
        \/ staged' = [staged EXCEPT ![c] = @ \cup {AuditOf(c)}] /\ UNCHANGED audits
        \/ audits' = audits \cup {AuditOf(c)} /\ UNCHANGED staged
    BY <1>3 DEF Insert
  <2>2. audits \in SUBSET Audit /\ staged \in [Client -> SUBSET Audit]
    BY DEF TInv, TypeOK
  <2> QED
    BY <1>1, <2>1, <2>2
<1>8. TypeOK'
  BY <1>1, <1>2, <1>5, <1>6, <1>7 DEF TInv, TypeOK, Outcome
<1>9. /\ UNCHANGED <<setup, cid>> /\ pc[c] # "idle"
      /\ \A d \in Client \ {c} : pc'[d] = pc[d] /\ cur'[d] = cur[d]
      /\ pc'[c] \notin {"insert", "save"}
  BY <1>1, <1>3, <1>5 DEF AuditFails, NextEntry, Goto, Return, TInv, TypeOK
<1>10. Busy'
  BY <1>9, BusyStep
<1>11. Bounded'
  BY <1>1, <1>7, BoundedGrows
<1> QED
  BY <1>8, <1>10, <1>11 DEF TInv

(* A step that changes nothing. *)
LEMMA StutterTyped == TInv /\ UNCHANGED vars => TInv'
<1> SUFFICES ASSUME TInv, UNCHANGED vars PROVE TInv'
  OBVIOUS
<1>1. TypeOK'
  BY DEF vars, txVars, TInv, TypeOK
<1>2. Busy' /\ Bounded'
  BY DEF vars, txVars, TInv, Busy, Bounded
<1> QED
  BY <1>1, <1>2 DEF TInv

(* Every step keeps the types, whoever takes it. *)
LEMMA TypedStep == TInv /\ [Next]_vars => TInv'
<1> SUFFICES ASSUME TInv, [Next]_vars PROVE TInv'
  OBVIOUS
<1>1. CASE UNCHANGED vars
  BY <1>1, StutterTyped
<1>2. ASSUME NEW c \in Client, NEW r \in setup.requests, Begin(c, r) PROVE TInv'
  BY <1>2, BeginTyped DEF Begin
<1>3. ASSUME NEW c \in Client, Step(c) \/ Failure(c) PROVE TInv'
  <2>1. UNCHANGED setup
    BY <1>3 DEF Step, Failure
  <2>2. CASE Guard(c) \/ BeforeUpdate(c) \/ SnapshotFails(c)
    BY <2>1, <2>2, CallbackTyped
  <2>3. CASE Write(c) \/ WriteFails(c)
    BY <2>1, <2>3, WriteTyped
  <2>4. CASE Commit(c) \/ CommitFails(c) \/ Crash(c)
    BY <2>1, <2>4, CommitTyped
  <2>5. CASE NextVersion(c) \/ VersionFails(c) \/ ReadMax(c) \/ ReadMaxFails(c)
    BY <2>1, <2>5, VersionTyped
  <2>6. CASE InsertVersion(c)
    BY <2>1, <2>6, InsertVersionTyped
  <2>7. CASE Save(c) \/ SaveFails(c)
    BY <2>1, <2>7, SaveTyped
  <2> QED
    BY <1>3, <2>2, <2>3, <2>4, <2>5, <2>6, <2>7 DEF Step, Failure
<1> QED
  BY <1>1, <1>2, <1>3 DEF Next

(* Every reachable state is well typed; in particular the highest version  *)
(* the plugin of the module root asks for always exists.                   *)
THEOREM TypeCorrect == Spec => []TypeOK
<1>1. Spec => []TInv
  BY TypedInit, TypedStep, PTL DEF Spec
<1>2. TInv => TypeOK
  BY DEF TInv
<1> QED
  BY <1>1, <1>2, PTL

-----------------------------------------------------------------------------
(* What a step does to numbers and audits *)

HoldsNumber(c) == pc[c] = "save"
CurId(c) == PkStr(cur[c].row)
HeldSlot(c) == <<CurId(c), cur[c].version>>

(* Nothing is numbered or saved in a transaction before its statement ran. *)
Fresh(c) == pc[c] \in {"idle", "before", "write"}

(* GormStore in the transaction of the statement. *)
Joint == Joined /\ setup.store = "gorm"

(* An error while auditing undoes the statement, too. *)
Strict == Joint /\ (setup.failOnAuditError \/ setup.abortOnError)

TxInv ==
    /\ \A c \in Client : Fresh(c) \/ ~Joined => bump[c] = NoBump /\ staged[c] = {}
    /\ setup.oneCaller =>
         \A c, d \in Client : pc[c] # "idle" /\ pc[d] # "idle" => c = d

(* What every step of c leaves alone. *)
Keeps(c) ==
    /\ UNCHANGED setup
    /\ reported \subseteq reported'
    /\ \A d \in Client \ {c} :
         /\ pc'[d] = pc[d] /\ cur'[d] = cur[d] /\ broken'[d] = broken[d]
         /\ bump'[d] = bump[d] /\ staged'[d] = staged[d]
    /\ Fresh(c)' => Fresh(c) \/ ~Joined \/ EndTx(c)
    /\ pc'[c] # "idle" /\ setup.oneCaller =>
         pc[c] # "idle" \/ \A d \in Client : pc[d] = "idle"

(* c has no number after the step: it had none, or gives it up. *)
Quiet(c) ==
    /\ pc'[c] # "save"
    /\ UNCHANGED <<seq, audits, bump, staged>>
    /\ Strict /\ ~broken'[c] => bump[c] = NoBump \/ (~broken[c] /\ pc[c] # "save")

(* The transaction of c is rolled back ... *)
Undoes(c) == pc'[c] # "save" /\ UNCHANGED <<seq, audits>> /\ EndTx(c)

(* ... or committed. *)
Publishes(c) == pc[c] = "commit" /\ pc'[c] # "save" /\ ~broken[c] /\ Publish(c)

(* c is given the next number of the current row. *)
Takes(c) ==
    /\ setup.store # "root"
    /\ pc[c] # "save" /\ pc'[c] = "save"
    /\ Take(c, CurId(c)')
    /\ cur'[c].version = Current(c, CurId(c)') + 1
    /\ setup.store = "gorm" => SequenceFree(c, CurId(c)')
    /\ UNCHANGED <<audits, staged, broken>>

(* The next number of a sequence is counted and not learnt. *)
Burns(c) ==
    /\ Sequenced
    /\ pc[c] # "save" /\ pc'[c] # "save"
    /\ \E i \in AuditId : seq' = [seq EXCEPT ![i] = @ + 1]
    /\ UNCHANGED <<audits, bump, staged>>

(* c computes MAX(version) + 1, or reports that it cannot. *)
Reads(c) ==
    /\ setup.store = "root"
    /\ pc[c] = "version" /\ pc'[c] = "save"
    /\ cid[c] \in reported' \/ cur'[c].version = MaxVersion(c, CurId(c)') + 1
    /\ UNCHANGED <<seq, audits, bump, staged>>

(* c writes the audit that carries its number. *)
Records(c) ==
    /\ pc[c] = "save" /\ pc'[c] # "save"
    /\ Insert(c)
    /\ ~broken'[c] => ~broken[c]
    /\ UNCHANGED <<seq, bump>>

Kind(c) ==
    Quiet(c) \/ Undoes(c) \/ Publishes(c) \/ Takes(c) \/ Burns(c) \/ Reads(c) \/ Records(c)

(* Where control goes. *)
LEMMA Control ==
    ASSUME TInv, NEW c \in Client, NEW l, NEW o
    PROVE  /\ Goto(c, l) => pc'[c] = l /\ \A d \in Client \ {c} : pc'[d] = pc[d]
           /\ Return(c, o) => pc'[c] = "idle" /\ \A d \in Client \ {c} : pc'[d] = pc[d]
           /\ NextEntry(c) =>
                /\ pc'[c] \in {"version", "commit", "idle"}
                /\ pc'[c] = "idle" => ~Joined
                /\ \A d \in Client \ {c} : pc'[d] = pc[d]
  BY DEF TInv, TypeOK, Goto, Return, NextEntry, Joined

(* What AuditFails does to the flags. *)
LEMMA FlagsOnFailure ==
    ASSUME TInv, NEW c \in Client, NEW a \in BOOLEAN, AuditFails(c, a)
    PROVE  /\ reported \subseteq reported'
           /\ \A d \in Client \ {c} : broken'[d] = broken[d]
           /\ broken[c] \/ setup.failOnAuditError \/ (a /\ Joined /\ setup.abortOnError)
                => broken'[c]
<1>1. broken \in [Client -> BOOLEAN]
  BY DEF TInv, TypeOK
<1> QED
  BY <1>1 DEF AuditFails, HandleError

(* The end of a transaction clears it and no other. *)
LEMMA EndKeeps ==
    ASSUME TInv, NEW c \in Client, EndTx(c)
    PROVE  /\ bump'[c] = NoBump /\ staged'[c] = {} /\ write'[c] = {}
           /\ \A d \in Client \ {c} : bump'[d] = bump[d] /\ staged'[d] = staged[d]
  BY DEF TInv, TypeOK, EndTx

(* Taking a number touches no other transaction. *)
LEMMA TakeKeeps ==
    ASSUME TInv, NEW c \in Client, NEW i \in AuditId, Take(c, i)
    PROVE  \A d \in Client \ {c} : bump'[d] = bump[d]
  BY DEF TInv, TypeOK, Take

(* Of which kind each action is: Begin, ... *)
LEMMA BeginKind ==
    ASSUME TInv, TxInv, UNCHANGED setup, NEW c \in Client, NEW r, Begin(c, r)
    PROVE  Keeps(c) /\ Quiet(c)
<1>1. pc'[c] = "before" /\ \A d \in Client \ {c} : pc'[d] = pc[d]
  BY Control DEF Begin
<1>2. Fresh(c) /\ bump[c] = NoBump
  BY DEF Begin, Fresh, TxInv
<1>3. \A d \in Client \ {c} : cur'[d] = cur[d] /\ broken'[d] = broken[d]
  BY DEF Begin, TInv, TypeOK
<1>4. UNCHANGED <<seq, audits, bump, staged, reported>>
      /\ (setup.oneCaller => \A d \in Client : pc[d] = "idle")
  BY DEF Begin
<1>5. Keeps(c)
  BY <1>1, <1>2, <1>3, <1>4 DEF Keeps
<1> QED
  BY <1>1, <1>2, <1>4, <1>5 DEF Quiet

(* ... the before callbacks, ... *)
LEMMA CallbackKind ==
    ASSUME TInv, TxInv, UNCHANGED setup, NEW c \in Client,
           Guard(c) \/ BeforeUpdate(c) \/ SnapshotFails(c)
    PROVE  Keeps(c) /\ Kind(c)
<1>1. pc[c] = "before" /\ UNCHANGED <<seq, audits, cur>>
  BY DEF Guard, BeforeUpdate, SnapshotFails
<1>2. /\ \/ EndTx(c) /\ Return(c, "error")
         \/ UNCHANGED <<write, bump, staged>> /\ Goto(c, "write")
      /\ HandleError(c) \/ UNCHANGED reported
  BY DEF Guard, BeforeUpdate, SnapshotFails, NoSnapshot
<1>3. \A d \in Client \ {c} : broken'[d] = broken[d]
  BY DEF Guard, BeforeUpdate, SnapshotFails, TInv, TypeOK
<1>4. Fresh(c) /\ bump[c] = NoBump
  BY <1>1 DEF Fresh, TxInv
<1>5. reported \subseteq reported'
  BY <1>2 DEF HandleError
<1>6. CASE EndTx(c) /\ Return(c, "error")
  BY <1>1, <1>3, <1>4, <1>5, <1>6, Control, EndKeeps DEF Keeps, Kind, Undoes
<1>7. CASE UNCHANGED <<write, bump, staged>> /\ Goto(c, "write")
  BY <1>1, <1>3, <1>4, <1>5, <1>7, Control DEF Keeps, Kind, Quiet
<1> QED
  BY <1>2, <1>6, <1>7

(* ... the statement, ... *)
LEMMA WriteKind ==
    ASSUME TInv, TxInv, UNCHANGED setup, NEW c \in Client, Write(c) \/ WriteFails(c)
    PROVE  Keeps(c) /\ Kind(c)
<1>1. pc[c] = "write" /\ UNCHANGED <<cur, broken>>
  BY DEF Write, WriteFails
<1>2. \/ Rollback(c, "error")
      \/ /\ Goto(c, "version") \/ Goto(c, "commit")
         /\ UNCHANGED <<seq, audits, bump, staged>>
  BY DEF Write, WriteFails
<1>3. Fresh(c) /\ bump[c] = NoBump
  BY <1>1 DEF Fresh, TxInv
<1>4. reported \subseteq reported'
  BY DEF Write, WriteFails, AuditsFailure, HandleError
<1>5. CASE Rollback(c, "error")
  <2>1. EndTx(c) /\ Return(c, "error") /\ UNCHANGED <<seq, audits>>
    BY <1>5 DEF Rollback
  <2> QED
    BY <1>1, <1>3, <1>4, <2>1, Control, EndKeeps DEF Keeps, Kind, Undoes
<1>6. CASE /\ Goto(c, "version") \/ Goto(c, "commit")
           /\ UNCHANGED <<seq, audits, bump, staged>>
  <2>1. pc'[c] \in {"version", "commit"} /\ \A d \in Client \ {c} : pc'[d] = pc[d]
    BY <1>6, Control
  <2> QED
    BY <1>1, <1>3, <1>4, <1>6, <2>1 DEF Keeps, Kind, Quiet
<1> QED
  BY <1>2, <1>5, <1>6

(* ... its commit, rollback or end with the process, ... *)
LEMMA CommitKind ==
    ASSUME TInv, TxInv, UNCHANGED setup, NEW c \in Client,
           Commit(c) \/ CommitFails(c) \/ Crash(c)
    PROVE  Keeps(c) /\ Kind(c)
<1>1. pc[c] # "idle" /\ UNCHANGED <<cur, broken>>
  BY DEF Commit, CommitFails, Crash
<1>2. \/ Rollback(c, "error") \/ Rollback(c, "crash")
      \/ /\ pc[c] = "commit" /\ ~broken[c] /\ Publish(c)
         /\ Goto(c, "version") \/ Return(c, "ok") \/ Return(c, "error")
  BY DEF Commit, CommitFails, Crash
<1>3. reported \subseteq reported'
  BY DEF Commit, CommitFails, Crash, AuditsFailure, HandleError
<1>4. CASE Rollback(c, "error") \/ Rollback(c, "crash")
  <2>1. EndTx(c) /\ (Return(c, "error") \/ Return(c, "crash")) /\ UNCHANGED <<seq, audits>>
    BY <1>4 DEF Rollback
  <2>2. pc'[c] = "idle" /\ \A d \in Client \ {c} : pc'[d] = pc[d]
    BY <2>1, Control
  <2> QED
    BY <1>1, <1>3, <2>1, <2>2, EndKeeps DEF Keeps, Kind, Undoes
<1>5. CASE /\ pc[c] = "commit" /\ ~broken[c] /\ Publish(c)
           /\ Goto(c, "version") \/ Return(c, "ok") \/ Return(c, "error")
  <2>1. EndTx(c)
    BY <1>5 DEF Publish
  <2>2. pc'[c] \in {"idle", "version"} /\ \A d \in Client \ {c} : pc'[d] = pc[d]
    BY <1>5, Control
  <2> QED
    BY <1>1, <1>3, <1>5, <2>1, <2>2, EndKeeps DEF Keeps, Kind, Publishes
<1> QED
  BY <1>2, <1>4, <1>5

(* An audit error changes no number, and breaks the transaction where it must; ... *)
LEMMA FailureIsQuiet ==
    ASSUME TInv, NEW c \in Client, NEW a \in BOOLEAN, AuditFails(c, a),
           UNCHANGED <<seq, audits, bump, staged>>,
           a \/ ~Joint \/ ~Strict
    PROVE  Quiet(c)
<1>1. pc'[c] # "save"
  BY Control DEF AuditFails
<1>2. Strict => broken'[c]
  BY FlagsOnFailure DEF Strict, Joint
<1> QED
  BY <1>1, <1>2 DEF Quiet

(* ... it leaves the others alone. *)
LEMMA FailureKeeps ==
    ASSUME TInv, UNCHANGED setup, NEW c \in Client, NEW a \in BOOLEAN, AuditFails(c, a),
           pc[c] # "idle",
           \A d \in Client \ {c} : cur'[d] = cur[d] /\ bump'[d] = bump[d]
                                   /\ staged'[d] = staged[d]
    PROVE  Keeps(c)
<1>1. \A d \in Client \ {c} : pc'[d] = pc[d]
  BY Control DEF AuditFails
<1>2. Fresh(c)' => ~Joined
  BY Control DEF AuditFails, Fresh
<1> QED
  BY <1>1, <1>2, FlagsOnFailure DEF Keeps

(* The current audit of c is the numbered element; no other changes. *)
LEMMA NumberedKeeps ==
    ASSUME TInv, UNCHANGED setup, NEW c \in Client, NEW e \in Chosen(c), NEW n,
           cur' = [cur EXCEPT ![c] = Numbered(e, n)]
    PROVE  /\ cur'[c].version = n /\ cur'[c].row = e.row
           /\ \A d \in Client \ {c} : cur'[d] = cur[d]
<1>1. cur'[c] = Numbered(e, n) /\ \A d \in Client \ {c} : cur'[d] = cur[d]
  BY DEF TInv, TypeOK
<1>2. cur'[c].version = n /\ cur'[c].row = e.row
  BY <1>1 DEF Numbered
<1> QED
  BY <1>1, <1>2

(* NextVersion takes a number, refuses, or goes on to insert. *)
LEMMA NextVersionKind ==
    ASSUME TInv, TxInv, UNCHANGED setup, NEW c \in Client, NextVersion(c)
    PROVE  Keeps(c) /\ Kind(c)
<1>1. PICK e \in Chosen(c) :
        LET i == PkStr(e.row)
            waits == setup.store = "mongo" /\ seq[i] = 0
        IN /\ todo' = [todo EXCEPT ![c] = @ \ {e}]
           /\ IF Refuses(c)
                THEN AuditFails(c, TRUE) /\ UNCHANGED <<seq, bump, cur>>
                ELSE /\ setup.store = "gorm" => SequenceFree(c, i)
                     /\ cur' = [cur EXCEPT ![c] =
                                  Numbered(e, IF waits THEN 0 ELSE Current(c, i) + 1)]
                     /\ IF waits THEN Goto(c, "insert") /\ UNCHANGED <<seq, bump>>
                                 ELSE Goto(c, "save") /\ Take(c, i)
                     /\ UNCHANGED <<broken, reported>>
  BY DEF NextVersion
<1>2. pc[c] = "version" /\ setup.store # "root" /\ UNCHANGED <<audits, staged>>
      /\ PkStr(e.row) \in AuditId
  BY ChosenTyped DEF NextVersion
<1>3. CASE Refuses(c)
  <2>1. AuditFails(c, TRUE) /\ UNCHANGED <<seq, bump, cur>>
    BY <1>1, <1>3
  <2>2. Quiet(c)
    BY <1>2, <2>1, FailureIsQuiet
  <2>3. Keeps(c)
    BY <1>2, <2>1, FailureKeeps
  <2> QED
    BY <2>2, <2>3 DEF Kind
<1>4. CASE ~Refuses(c) /\ setup.store = "mongo" /\ seq[PkStr(e.row)] = 0
  <2>1. /\ cur' = [cur EXCEPT ![c] = Numbered(e, 0)]
        /\ Goto(c, "insert") /\ UNCHANGED <<seq, bump, broken, reported>>
    BY <1>1, <1>4
  <2>2. pc'[c] = "insert" /\ \A d \in Client \ {c} : pc'[d] = pc[d]
    BY <2>1, Control
  <2>3. Quiet(c)
    BY <1>2, <1>4, <2>1, <2>2 DEF Quiet, Strict, Joint
  <2>4. Keeps(c)
    BY <1>2, <2>1, <2>2, NumberedKeeps DEF Keeps, Fresh
  <2> QED
    BY <2>3, <2>4 DEF Kind
<1>5. CASE ~Refuses(c) /\ ~(setup.store = "mongo" /\ seq[PkStr(e.row)] = 0)
  <2>1. /\ setup.store = "gorm" => SequenceFree(c, PkStr(e.row))
        /\ cur' = [cur EXCEPT ![c] = Numbered(e, Current(c, PkStr(e.row)) + 1)]
        /\ Goto(c, "save") /\ Take(c, PkStr(e.row)) /\ UNCHANGED <<broken, reported>>
    BY <1>1, <1>5
  <2>2. pc'[c] = "save" /\ \A d \in Client \ {c} : pc'[d] = pc[d]
    BY <2>1, Control
  <2>3. /\ cur'[c].version = Current(c, PkStr(e.row)) + 1
        /\ CurId(c)' = PkStr(e.row)
        /\ \A d \in Client \ {c} : cur'[d] = cur[d]
    <3> DEFINE n == Current(c, PkStr(e.row)) + 1
    <3> HIDE DEF n
    <3>1. cur' = [cur EXCEPT ![c] = Numbered(e, n)]
      BY <2>1 DEF n
    <3>2. cur'[c].version = n /\ cur'[c].row = e.row
          /\ \A d \in Client \ {c} : cur'[d] = cur[d]
      BY <3>1, NumberedKeeps
    <3> QED
      BY <3>2 DEF n, CurId, PkStr
  <2>4. Takes(c)
    BY <1>2, <2>1, <2>2, <2>3 DEF Takes
  <2>5. \A d \in Client \ {c} : bump'[d] = bump[d]
    BY <1>2, <2>1, TakeKeeps
  <2>6. Keeps(c)
    BY <1>2, <2>1, <2>2, <2>3, <2>5 DEF Keeps, Fresh
  <2> QED
    BY <2>4, <2>6 DEF Kind
<1> QED
  BY <1>3, <1>4, <1>5

(* A number not learnt is burnt or was not taken. *)
LEMMA VersionFailsKind ==
    ASSUME TInv, TxInv, UNCHANGED setup, NEW c \in Client, VersionFails(c)
    PROVE  Keeps(c) /\ Kind(c)
<1>1. PICK e \in Chosen(c) :
        \/ UNCHANGED seq
        \/ ~Joined /\ ~Refuses(c) /\ seq' = [seq EXCEPT ![PkStr(e.row)] = @ + 1]
  BY DEF VersionFails
<1>2. pc[c] = "version" /\ setup.store # "root" /\ AuditFails(c, TRUE)
      /\ UNCHANGED <<audits, bump, staged, cur>> /\ PkStr(e.row) \in AuditId
  BY ChosenTyped DEF VersionFails
<1>3. Keeps(c)
  BY <1>2, FailureKeeps
<1>4. CASE UNCHANGED seq
  BY <1>2, <1>3, <1>4, FailureIsQuiet DEF Kind
<1>5. CASE ~Joined /\ seq' = [seq EXCEPT ![PkStr(e.row)] = @ + 1]
  <2>1. pc'[c] # "save"
    BY <1>2, Control DEF AuditFails
  <2> QED
    BY <1>2, <1>3, <1>5, <2>1 DEF Kind, Burns, Sequenced
<1> QED
  BY <1>1, <1>4, <1>5

(* The plugin of the module root reads its number. *)
LEMMA ReadMaxKind ==
    ASSUME TInv, TxInv, UNCHANGED setup, NEW c \in Client, ReadMax(c) \/ ReadMaxFails(c)
    PROVE  Keeps(c) /\ Kind(c)
<1>1. pc[c] = "version" /\ setup.store = "root" /\ Goto(c, "save")
      /\ UNCHANGED <<seq, audits, bump, staged>>
  BY DEF ReadMax, ReadMaxFails, txVars
<1>2. pc'[c] = "save" /\ \A d \in Client \ {c} : pc'[d] = pc[d]
  BY <1>1, Control
<1>3. /\ reported \subseteq reported'
      /\ \A d \in Client \ {c} : broken'[d] = broken[d]
  BY DEF ReadMax, ReadMaxFails, txVars, HandleError, TInv, TypeOK
<1>4. /\ \A d \in Client \ {c} : cur'[d] = cur[d]
      /\ cid[c] \in reported' \/ cur'[c].version = MaxVersion(c, CurId(c)') + 1
  <2>1. CASE ReadMax(c)
    <3>1. PICK e \in Chosen(c) :
            cur' = [cur EXCEPT ![c] = Numbered(e, MaxVersion(c, PkStr(e.row)) + 1)]
      BY <2>1 DEF ReadMax
    <3> DEFINE n == MaxVersion(c, PkStr(e.row)) + 1
    <3> HIDE DEF n
    <3>2. cur' = [cur EXCEPT ![c] = Numbered(e, n)]
      BY <3>1 DEF n
    <3>3. cur'[c].version = n /\ cur'[c].row = e.row
          /\ \A d \in Client \ {c} : cur'[d] = cur[d]
      BY <3>2, NumberedKeeps
    <3>4. cur'[c].version = MaxVersion(c, CurId(c)') + 1
      BY <3>3 DEF n, CurId, PkStr
    <3> QED
      BY <3>3, <3>4
  <2>2. CASE ReadMaxFails(c)
    <3>1. PICK e \in Chosen(c) : cur' = [cur EXCEPT ![c] = Numbered(e, 1)]
      BY <2>2 DEF ReadMaxFails
    <3>2. cid[c] \in reported'
      BY <2>2 DEF ReadMaxFails, HandleError
    <3> QED
      BY <3>1, <3>2, NumberedKeeps
  <2> QED
    BY <2>1, <2>2
<1>5. Reads(c)
  BY <1>1, <1>2, <1>4 DEF Reads
<1>6. Keeps(c)
  BY <1>1, <1>2, <1>3, <1>4 DEF Keeps, Fresh
<1> QED
  BY <1>5, <1>6 DEF Kind

(* The insert takes number 1, or fails. *)
LEMMA InsertKind ==
    ASSUME TInv, TxInv, UNCHANGED setup, NEW c \in Client, InsertVersion(c)
    PROVE  Keeps(c) /\ Kind(c)
<1>1. pc[c] = "insert" /\ setup.store = "mongo" /\ UNCHANGED <<audits, bump, staged>>
  BY DEF InsertVersion, TInv, Busy
<1>2. ~Joined /\ ~Joint /\ ~Strict
  BY <1>1 DEF Joined, Joint, Strict
<1>3. CASE /\ seq[CurId(c)] = 0
           /\ seq' = [seq EXCEPT ![CurId(c)] = 1]
           /\ cur' = [cur EXCEPT ![c].version = 1]
           /\ Goto(c, "save") /\ UNCHANGED <<broken, reported, todo>>
  <2>1. pc'[c] = "save" /\ \A d \in Client \ {c} : pc'[d] = pc[d]
    BY <1>3, Control
  <2>2. cur'[c].version = 1 /\ cur'[c].row = cur[c].row
        /\ \A d \in Client \ {c} : cur'[d] = cur[d]
    BY <1>3 DEF TInv, TypeOK
  <2>3. CurId(c)' = CurId(c) /\ CurId(c) \in AuditId
    <3>1. cur[c].row \in Row
      BY <1>1 DEF TInv, Busy
    <3> QED
      BY <2>2, <3>1, Setting DEF CurId, PkStr, TInv
  <2>4. Current(c, CurId(c)) = 0
    <3>1. bump[c] = NoBump
      BY <1>2 DEF TxInv
    <3> QED
      BY <1>3, <2>3, <3>1 DEF Current, NoBump
  <2>5. Take(c, CurId(c))
    BY <1>1, <1>2, <1>3 DEF Take
  <2>6. Takes(c)
    BY <1>1, <1>3, <2>1, <2>2, <2>3, <2>4, <2>5 DEF Takes
  <2>7. Keeps(c)
    BY <1>1, <1>3, <2>1, <2>2 DEF Keeps, Fresh
  <2> QED
    BY <2>6, <2>7 DEF Kind
<1>4. CASE UNCHANGED <<seq, cur, todo>> /\ AuditFails(c, FALSE)
  <2>1. Quiet(c)
    BY <1>1, <1>2, <1>4, FailureIsQuiet
  <2>2. Keeps(c)
    BY <1>1, <1>4, FailureKeeps
  <2> QED
    BY <2>1, <2>2 DEF Kind
<1> QED
  BY <1>3, <1>4 DEF InsertVersion, CurId

(* Save writes the audit that carries the number, or gives it up. *)
LEMMA SaveKind ==
    ASSUME TInv, TxInv, UNCHANGED setup, NEW c \in Client, Save(c) \/ SaveFails(c)
    PROVE  Keeps(c) /\ Kind(c)
<1>1. pc[c] = "save" /\ UNCHANGED <<seq, bump, cur>>
  BY DEF Save, SaveFails
<1>2. Insert(c) => \A d \in Client \ {c} : staged'[d] = staged[d]
  BY DEF Insert, TInv, TypeOK
<1>3. CASE UNCHANGED <<audits, staged>> /\ AuditFails(c, TRUE)
  <2>1. Quiet(c)
    BY <1>1, <1>3, FailureIsQuiet
  <2>2. Keeps(c)
    BY <1>1, <1>3, FailureKeeps
  <2> QED
    BY <2>1, <2>2 DEF Kind
<1>4. CASE Insert(c) /\ AuditFails(c, FALSE)
  <2>1. pc'[c] # "save" /\ (broken[c] => broken'[c])
    BY <1>4, Control, FlagsOnFailure DEF AuditFails
  <2>2. Records(c)
    BY <1>1, <1>4, <2>1 DEF Records
  <2>3. Keeps(c)
    BY <1>1, <1>2, <1>4, FailureKeeps
  <2> QED
    BY <2>2, <2>3 DEF Kind
<1>5. CASE Insert(c) /\ UNCHANGED <<broken, reported>> /\ NextEntry(c)
  <2>1. pc'[c] # "save" /\ (Fresh(c)' => ~Joined) /\ \A d \in Client \ {c} : pc'[d] = pc[d]
    BY <1>5, Control DEF Fresh
  <2>2. Records(c)
    BY <1>1, <1>5, <2>1 DEF Records
  <2>3. Keeps(c)
    BY <1>1, <1>2, <1>5, <2>1 DEF Keeps
  <2> QED
    BY <2>2, <2>3 DEF Kind
<1> QED
  BY <1>3, <1>4, <1>5 DEF Save, SaveFails

(* Every step of the specification is of one of these kinds. *)
LEMMA StepKinds ==
    ASSUME TInv, TxInv, NEW c \in Client,
           (\E r \in setup.requests : Begin(c, r)) \/ Step(c) \/ Failure(c)
    PROVE  Keeps(c) /\ Kind(c)
<1>1. UNCHANGED setup
  BY DEF Begin, Step, Failure
<1>2. CASE \E r \in setup.requests : Begin(c, r)
  BY <1>1, <1>2, BeginKind DEF Kind
<1>3. CASE Guard(c) \/ BeforeUpdate(c) \/ SnapshotFails(c)
  BY <1>1, <1>3, CallbackKind
<1>4. CASE Write(c) \/ WriteFails(c)
  BY <1>1, <1>4, WriteKind
<1>5. CASE Commit(c) \/ CommitFails(c) \/ Crash(c)
  BY <1>1, <1>5, CommitKind
<1>6. CASE NextVersion(c)
  BY <1>1, <1>6, NextVersionKind
<1>7. CASE VersionFails(c)
  BY <1>1, <1>7, VersionFailsKind
<1>8. CASE ReadMax(c) \/ ReadMaxFails(c)
  BY <1>1, <1>8, ReadMaxKind
<1>9. CASE InsertVersion(c)
  BY <1>1, <1>9, InsertKind
<1>10. CASE Save(c) \/ SaveFails(c)
  BY <1>1, <1>10, SaveKind
<1> QED
  BY <1>2, <1>3, <1>4, <1>5, <1>6, <1>7, <1>8, <1>9, <1>10 DEF Step, Failure

(* Steps keep the transactions and callers apart. *)
LEMMA TxStep ==
    ASSUME TInv, TxInv, NEW c \in Client, Keeps(c), Kind(c)
    PROVE  TxInv'
<1>1. UNCHANGED setup /\ Joined' = Joined
  BY DEF Keeps, Joined
<1>2. ASSUME NEW d \in Client, Fresh(d)' \/ ~Joined
      PROVE  bump'[d] = NoBump /\ staged'[d] = {}
  <2>1. CASE d # c
    BY <1>2, <2>1 DEF Keeps, Fresh, TxInv
  <2>2. CASE d = c /\ EndTx(c)
    BY <2>2, EndKeeps
  <2>3. CASE d = c /\ ~EndTx(c)
    <3>1. bump[c] = NoBump /\ staged[c] = {}
      BY <1>2, <2>3 DEF Keeps, TxInv
    <3>2. CASE UNCHANGED <<bump, staged>>
      BY <2>3, <3>1, <3>2
    <3>3. CASE Takes(c) \/ Records(c)
      <4>1. ~Joined
        BY <1>2, <2>3, <3>3 DEF Takes, Records, Keeps, Fresh
      <4> QED
        BY <2>3, <3>1, <3>3, <4>1 DEF Takes, Take, Records, Insert
    <3> QED
      BY <2>3, <3>2, <3>3 DEF Kind, Quiet, Undoes, Publishes, Publish, Burns, Reads
  <2> QED
    BY <2>1, <2>2, <2>3
<1>3. setup.oneCaller =>
        \A d, x \in Client : pc'[d] # "idle" /\ pc'[x] # "idle" => d = x
  BY DEF Keeps, TxInv
<1> QED
  BY <1>1, <1>2, <1>3 DEF TxInv

-----------------------------------------------------------------------------
(* Uniqueness of versions *)

OneEach(A) == \A a, b \in A : Slot(a) = Slot(b) => a = b

(* Numbers taken outside the transaction: those on the trail or held were  *)
(* issued, no held number is on the trail, and no two clients hold one.    *)
SequencedInv ==
    Sequenced =>
      /\ \A a \in audits : a.version <= seq[a.id]
      /\ \A c \in Client : HoldsNumber(c) =>
           /\ cur[c].version <= seq[CurId(c)]
           /\ \A a \in audits : Slot(a) # HeldSlot(c)
           /\ \A d \in Client \ {c} : HoldsNumber(d) => HeldSlot(d) # HeldSlot(c)
      /\ OneEach(audits)

(* The numbers that the transaction of c may use for i. *)
InRange(v, c, i) == seq[i] < v /\ v <= seq[i] + bump[c][i]

(* Numbers taken within the transaction lie beyond the committed ones; the *)
(* row of the sequence is locked for whoever has taken one.                *)
JointInv ==
    Joint =>
      /\ \A a \in audits : a.version <= seq[a.id]
      /\ \A c \in Client : \A a \in staged[c] : InRange(a.version, c, a.id)
      /\ \A c \in Client : HoldsNumber(c) =>
           /\ InRange(cur[c].version, c, CurId(c))
           /\ \A a \in staged[c] : Slot(a) # HeldSlot(c)
      /\ \A c, d \in Client : \A i \in AuditId :
           c # d => bump[c][i] = 0 \/ bump[d][i] = 0
      /\ OneEach(audits)
      /\ \A c \in Client : OneEach(staged[c])

(* The plugin of the module root, called by one and never in trouble: the  *)
(* number held is beyond all that its holder sees.                         *)
Calm == setup.store = "root" /\ setup.oneCaller /\ reported = {}
RootInv ==
    Calm =>
      /\ OneEach(audits)
      /\ \A c \in Client :
           /\ OneEach(audits \cup staged[c])
           /\ HoldsNumber(c) =>
                \A a \in audits \cup staged[c] : a.id = CurId(c) => a.version < cur[c].version

NumberInv == SequencedInv /\ JointInv /\ RootInv

IInv == TInv /\ TxInv /\ NumberInv

(* A setup has one way of numbering, and keeps it. *)
LEMMA Modes ==
    ASSUME TInv, NEW c \in Client, Keeps(c)
    PROVE  /\ Joined' = Joined /\ Joint' = Joint /\ Strict' = Strict
           /\ Sequenced' = Sequenced
           /\ Calm' => Calm
           /\ setup.store # "root" => Sequenced \/ Joint
           /\ ~(Sequenced /\ Joint) /\ ~(Sequenced /\ Joined)
<1>1. setup.store \in {"gorm", "mongo", "root"}
  BY Setting DEF TInv, Setup
<1>2. UNCHANGED setup /\ (reported' = {} => reported = {})
  BY DEF Keeps
<1> QED
  BY <1>1, <1>2 DEF Joined, Joint, Strict, Sequenced, Calm

(* A held number belongs to the audit about to be written. *)
LEMMA HeldTyped ==
    ASSUME TInv, NEW c \in Client, HoldsNumber(c)
    PROVE  /\ CurId(c) \in AuditId /\ cur[c].version \in Nat
           /\ AuditOf(c).id = CurId(c) /\ AuditOf(c).version = cur[c].version
           /\ Slot(AuditOf(c)) = HeldSlot(c)
<1>1. cur[c].row \in Row
  BY DEF TInv, Busy, HoldsNumber
<1>2. CurId(c) \in AuditId
  BY <1>1, Setting DEF CurId, TInv
<1>3. cur[c].version \in Nat
  BY DEF TInv, TypeOK
<1> QED
  BY <1>2, <1>3 DEF AuditOf, CurId, Slot, HeldSlot

(* The other clients hold what they held. *)
LEMMA OthersHold ==
    ASSUME NEW c \in Client, Keeps(c)
    PROVE  \A d \in Client \ {c} :
             /\ HoldsNumber(d)' = HoldsNumber(d)
             /\ CurId(d)' = CurId(d) /\ cur'[d].version = cur[d].version
             /\ HeldSlot(d)' = HeldSlot(d)
  BY DEF Keeps, HoldsNumber, CurId, HeldSlot, PkStr

(* Without a transaction of the store there is nothing to commit.          *)
LEMMA PublishesNothing ==
    ASSUME TInv, TxInv, NEW c \in Client, ~Joined, Publish(c)
    PROVE  UNCHANGED <<seq, audits>>
<1>1. bump[c] = NoBump /\ staged[c] = {}
  BY DEF TxInv
<1>2. seq' = [i \in AuditId |-> seq[i] + bump[c][i]] /\ audits' = audits \cup staged[c]
  BY DEF Publish
<1>3. \A i \in AuditId : seq[i] + bump[c][i] = seq[i]
  BY <1>1 DEF NoBump, TInv, TypeOK
<1>4. seq' = seq
  BY <1>2, <1>3 DEF TInv, TypeOK
<1> QED
  BY <1>1, <1>2, <1>4

(* Outside transactions: each kind of step keeps the invariant. *)
LEMMA SequencedStep ==
    ASSUME TInv, TInv', TxInv, SequencedInv, NEW c \in Client, Keeps(c), Kind(c)
    PROVE  SequencedInv'
<1> SUFFICES ASSUME Sequenced PROVE SequencedInv'
  BY Modes DEF SequencedInv
<1> USE DEF OneEach
<1>a. /\ seq \in [AuditId -> Nat]
      /\ \A a \in audits : a.id \in AuditId /\ a.version \in Nat
      /\ ~Joined /\ ~Joint
  BY Modes DEF TInv, TypeOK, Audit
<1>b. \A d \in Client \ {c} :
        /\ HoldsNumber(d)' = HoldsNumber(d)
        /\ CurId(d)' = CurId(d) /\ cur'[d].version = cur[d].version
        /\ HeldSlot(d)' = HeldSlot(d)
  BY OthersHold
<1>c. \A d \in Client : HoldsNumber(d) => CurId(d) \in AuditId /\ cur[d].version \in Nat
  BY HeldTyped
<1>1. CASE UNCHANGED <<seq, audits>> /\ ~HoldsNumber(c)'
  BY <1>1, <1>b DEF SequencedInv, Slot
<1>2. CASE /\ \E i \in AuditId :
                /\ seq' = [seq EXCEPT ![i] = seq[i] + 1]
                /\ HoldsNumber(c)' => CurId(c)' = i /\ cur'[c].version = seq[i] + 1
           /\ UNCHANGED audits
  <2>1. PICK i \in AuditId :
          /\ seq' = [seq EXCEPT ![i] = seq[i] + 1]
          /\ HoldsNumber(c)' => CurId(c)' = i /\ cur'[c].version = seq[i] + 1
    BY <1>2
  <2>2. \A j \in AuditId : seq[j] \in Nat /\ seq'[j] \in Nat /\ seq[j] <= seq'[j]
    BY <1>a, <2>1
  <2>3. \A a \in audits : a.version <= seq'[a.id]
    BY <1>a, <2>2 DEF SequencedInv
  <2>4. ASSUME NEW d \in Client \ {c}, HoldsNumber(d)
        PROVE  /\ cur[d].version <= seq'[CurId(d)]
               /\ \A a \in audits : Slot(a) # HeldSlot(d)
    BY <1>c, <2>2, <2>4 DEF SequencedInv
  <2>5. ASSUME HoldsNumber(c)'
        PROVE  /\ HeldSlot(c)' = <<i, seq[i] + 1>>
               /\ cur'[c].version <= seq'[CurId(c)']
    BY <1>a, <2>1, <2>5 DEF HeldSlot
  <2>6. ASSUME HoldsNumber(c)' PROVE \A a \in audits : Slot(a) # HeldSlot(c)'
    BY <1>a, <2>5, <2>6 DEF SequencedInv, Slot
  <2>7. ASSUME HoldsNumber(c)', NEW d \in Client \ {c}, HoldsNumber(d)
        PROVE  HeldSlot(d) # HeldSlot(c)'
    BY <1>a, <1>c, <2>5, <2>7 DEF SequencedInv, HeldSlot
  <2>8. ASSUME NEW d \in Client, HoldsNumber(d)'
        PROVE  /\ cur'[d].version <= seq'[CurId(d)']
               /\ \A a \in audits' : Slot(a) # HeldSlot(d)'
               /\ \A x \in Client \ {d} : HoldsNumber(x)' => HeldSlot(x)' # HeldSlot(d)'
    <3>1. CASE d = c
      BY <1>2, <1>b, <2>5, <2>6, <2>7, <2>8, <3>1
    <3>2. CASE d # c
      BY <1>2, <1>b, <2>4, <2>7, <2>8, <3>2 DEF SequencedInv
    <3> QED
      BY <3>1, <3>2
  <2> QED
    BY <1>2, <2>3, <2>8 DEF SequencedInv, Slot
<1>3. CASE Records(c)
  <2>1. HoldsNumber(c) /\ ~HoldsNumber(c)' /\ UNCHANGED seq
        /\ audits' = audits \cup {AuditOf(c)}
    BY <1>a, <1>3 DEF Records, HoldsNumber, Insert
  <2>2. Slot(AuditOf(c)) = HeldSlot(c) /\ AuditOf(c).id = CurId(c)
        /\ AuditOf(c).version = cur[c].version
    BY <2>1, HeldTyped
  <2>3. \A a \in audits' : a.version <= seq'[a.id]
    BY <2>1, <2>2 DEF SequencedInv
  <2>4. OneEach(audits)'
    BY <2>1, <2>2 DEF SequencedInv, Slot
  <2>5. ASSUME NEW d \in Client \ {c}, HoldsNumber(d)
        PROVE  \A a \in audits' : Slot(a) # HeldSlot(d)
    BY <2>1, <2>2, <2>5 DEF SequencedInv
  <2> QED
    BY <1>b, <2>1, <2>3, <2>4, <2>5 DEF SequencedInv
<1>4. CASE Quiet(c) \/ Undoes(c)
  BY <1>1, <1>4 DEF Quiet, Undoes, HoldsNumber
<1>5. CASE Publishes(c)
  <2>1. UNCHANGED <<seq, audits>>
    BY <1>a, <1>5, PublishesNothing DEF Publishes
  <2> QED
    BY <1>1, <1>5, <2>1 DEF Publishes, HoldsNumber
<1>6. CASE Takes(c)
  <2>1. CurId(c)' \in AuditId /\ HoldsNumber(c)'
    <3>1. HoldsNumber(c)'
      BY <1>6 DEF Takes, HoldsNumber
    <3>2. cur'[c].row \in Row /\ \A x \in Row : setup'.idString[x] \in AuditId
      BY <3>1, Setting DEF TInv, Busy, HoldsNumber, PkStr, Keeps
    <3> QED
      BY <3>1, <3>2 DEF CurId, PkStr
  <2>2. Current(c, CurId(c)') = seq[CurId(c)']
    <3>1. bump[c] = NoBump
      BY <1>a DEF TxInv
    <3> QED
      BY <1>a, <2>1, <3>1 DEF Current, NoBump
  <2>3. seq' = [seq EXCEPT ![CurId(c)'] = seq[CurId(c)'] + 1] /\ UNCHANGED audits
    BY <1>a, <1>6 DEF Takes, Take
  <2> QED
    BY <1>2, <1>6, <2>1, <2>2, <2>3 DEF Takes
<1>7. CASE Burns(c)
  BY <1>2, <1>7 DEF Burns, HoldsNumber
<1>8. ~Reads(c)
  BY DEF Reads, Sequenced
<1> QED
  BY <1>3, <1>4, <1>5, <1>6, <1>7, <1>8 DEF Kind

(* A number taken is held, and counted for the transaction that took it. *)
LEMMA TakesInTransaction ==
    ASSUME TInv, TInv', NEW c \in Client, Keeps(c), Takes(c)
    PROVE  /\ CurId(c)' \in AuditId /\ HoldsNumber(c)' /\ ~HoldsNumber(c)
           /\ HeldSlot(c)' = <<CurId(c)', cur'[c].version>>
           /\ Joint => /\ UNCHANGED <<seq, audits, staged>>
                       /\ bump'[c] = [bump[c] EXCEPT ![CurId(c)'] = bump[c][CurId(c)'] + 1]
                       /\ cur'[c].version = seq[CurId(c)'] + bump[c][CurId(c)'] + 1
                       /\ \A d \in Client \ {c} : bump[d][CurId(c)'] = 0
<1>1. HoldsNumber(c)' /\ ~HoldsNumber(c)
  BY DEF Takes, HoldsNumber
<1>2. CurId(c)' \in AuditId
  <2>1. cur'[c].row \in Row /\ \A x \in Row : setup'.idString[x] \in AuditId
    BY <1>1, Setting DEF TInv, Busy, HoldsNumber, PkStr, Keeps
  <2> QED
    BY <2>1 DEF CurId, PkStr
<1>3. ASSUME Joint PROVE UNCHANGED seq /\ bump' = [bump EXCEPT ![c][CurId(c)'] = @ + 1]
  BY <1>3 DEF Joint, Takes, Take
<1>4. ASSUME Joint
      PROVE  bump'[c] = [bump[c] EXCEPT ![CurId(c)'] = bump[c][CurId(c)'] + 1]
  BY <1>2, <1>3, <1>4 DEF TInv, TypeOK
<1>5. ASSUME Joint
      PROVE  /\ cur'[c].version = seq[CurId(c)'] + bump[c][CurId(c)'] + 1
             /\ \A d \in Client \ {c} : bump[d][CurId(c)'] = 0
             /\ UNCHANGED <<audits, staged>>
  BY <1>5 DEF Takes, Joint, Current, SequenceFree
<1> QED
  BY <1>1, <1>2, <1>3, <1>4, <1>5 DEF HeldSlot

(* Inside them, too. *)
LEMMA JointStep ==
    ASSUME TInv, TInv', JointInv, NEW c \in Client, Keeps(c), Kind(c)
    PROVE  JointInv'
<1> SUFFICES ASSUME Joint PROVE JointInv'
  BY Modes DEF JointInv
<1> USE DEF OneEach, InRange
<1>a. /\ seq \in [AuditId -> Nat] /\ bump \in [Client -> [AuditId -> Nat]]
      /\ seq' \in [AuditId -> Nat] /\ bump' \in [Client -> [AuditId -> Nat]]
      /\ \A a \in audits : a.id \in AuditId /\ a.version \in Nat
      /\ \A d \in Client : \A a \in staged[d] : a.id \in AuditId /\ a.version \in Nat
  <2>1. /\ seq \in [AuditId -> Nat] /\ bump \in [Client -> [AuditId -> Nat]]
        /\ audits \in SUBSET Audit /\ staged \in [Client -> SUBSET Audit]
    BY DEF TInv, TypeOK
  <2>2. seq' \in [AuditId -> Nat] /\ bump' \in [Client -> [AuditId -> Nat]]
    BY DEF TInv, TypeOK
  <2> QED
    BY <2>1, <2>2 DEF Audit
<1>b. \A d \in Client \ {c} :
        /\ HoldsNumber(d)' = HoldsNumber(d)
        /\ CurId(d)' = CurId(d) /\ cur'[d].version = cur[d].version
        /\ HeldSlot(d)' = HeldSlot(d)
        /\ bump'[d] = bump[d] /\ staged'[d] = staged[d]
  BY OthersHold DEF Keeps
<1>c. \A d \in Client : HoldsNumber(d) => CurId(d) \in AuditId /\ cur[d].version \in Nat
  BY HeldTyped
<1>d. /\ \A a \in audits : a.version <= seq[a.id]
      /\ \A d \in Client : \A a \in staged[d] : InRange(a.version, d, a.id)
      /\ \A d \in Client : HoldsNumber(d) =>
           /\ InRange(cur[d].version, d, CurId(d))
           /\ \A a \in staged[d] : Slot(a) # HeldSlot(d)
      /\ \A d, x \in Client : \A i \in AuditId :
           d # x => bump[d][i] = 0 \/ bump[x][i] = 0
      /\ OneEach(audits)
      /\ \A d \in Client : OneEach(staged[d])
  BY DEF JointInv
<1>1. CASE UNCHANGED <<seq, audits, bump, staged>> /\ ~HoldsNumber(c)'
  BY <1>1, <1>b, <1>d DEF JointInv, Slot
<1>2. CASE Undoes(c)
  <2>1. /\ UNCHANGED <<seq, audits>> /\ ~HoldsNumber(c)'
        /\ staged'[c] = {} /\ \A i \in AuditId : bump'[c][i] = 0
    BY <1>2, EndKeeps DEF Undoes, HoldsNumber, NoBump
  <2> QED
    BY <2>1, <1>b, <1>d DEF JointInv, Slot
<1>3. CASE Publishes(c)
  <2>1. /\ ~HoldsNumber(c)'
        /\ staged'[c] = {} /\ \A i \in AuditId : bump'[c][i] = 0
        /\ audits' = audits \cup staged[c]
        /\ \A i \in AuditId : seq'[i] = seq[i] + bump[c][i]
    BY <1>3, EndKeeps DEF Publishes, Publish, HoldsNumber, NoBump
  <2>2. \A d \in Client \ {c} : \A i \in AuditId : bump[d][i] # 0 => seq'[i] = seq[i]
    BY <1>a, <1>d, <2>1
  <2>3. \A a \in audits' : a.version <= seq'[a.id]
    BY <1>a, <1>d, <2>1
  <2>4. ASSUME NEW d \in Client, NEW a \in staged'[d]
        PROVE  seq'[a.id] < a.version /\ a.version <= seq'[a.id] + bump'[d][a.id]
    <3>1. d # c /\ a \in staged[d] /\ a.id \in AuditId /\ a.version \in Nat
          /\ bump'[d] = bump[d]
      BY <1>a, <1>b, <2>1, <2>4
    <3>2. InRange(a.version, d, a.id)
      BY <1>d, <3>1
    <3>3. bump[d][a.id] # 0
      BY <1>a, <3>1, <3>2
    <3> QED
      BY <2>2, <3>1, <3>2, <3>3
  <2>5. ASSUME NEW d \in Client, HoldsNumber(d)'
        PROVE  /\ seq'[CurId(d)'] < cur'[d].version
               /\ cur'[d].version <= seq'[CurId(d)'] + bump'[d][CurId(d)']
               /\ \A a \in staged'[d] : Slot(a) # HeldSlot(d)'
    <3>1. d # c /\ HoldsNumber(d) /\ CurId(d) \in AuditId /\ cur[d].version \in Nat
      BY <1>b, <1>c, <2>1, <2>5
    <3>2. InRange(cur[d].version, d, CurId(d))
      BY <1>d, <3>1
    <3>3. bump[d][CurId(d)] # 0
      BY <1>a, <3>1, <3>2
    <3>4. seq'[CurId(d)] = seq[CurId(d)]
      BY <2>2, <3>1, <3>3
    <3> QED
      BY <1>b, <1>d, <3>1, <3>2, <3>4
  <2>6. OneEach(audits')
    <3>1. ASSUME NEW a \in audits, NEW b \in staged[c] PROVE Slot(a) # Slot(b)
      <4>1. seq[b.id] < b.version /\ a.version <= seq[a.id]
            /\ a.id \in AuditId /\ b.id \in AuditId /\ a.version \in Nat /\ b.version \in Nat
        BY <1>a, <1>d
      <4>2. a.id = b.id => a.version # b.version
        BY <1>a, <4>1
      <4> QED
        BY <4>2 DEF Slot
    <3> QED
      BY <1>d, <2>1, <3>1
  <2>7. \A d, x \in Client : \A i \in AuditId :
          d # x => bump'[d][i] = 0 \/ bump'[x][i] = 0
    BY <1>b, <1>d, <2>1
  <2>8. \A d \in Client : OneEach(staged'[d])
    BY <1>b, <1>d, <2>1
  <2> QED
    BY <2>3, <2>4, <2>5, <2>6, <2>7, <2>8 DEF JointInv, Slot
<1>4. CASE Takes(c)
  <2> DEFINE i == CurId(c)'
             n == seq[i] + bump[c][i] + 1
  <2>1. /\ i \in AuditId /\ HoldsNumber(c)' /\ HeldSlot(c)' = <<i, cur'[c].version>>
        /\ UNCHANGED <<seq, audits, staged>>
        /\ bump'[c] = [bump[c] EXCEPT ![i] = bump[c][i] + 1]
        /\ cur'[c].version = n
        /\ \A d \in Client \ {c} : bump[d][i] = 0
    BY <1>4, TakesInTransaction
  <2> HIDE DEF i
  <2>2. \A j \in AuditId : bump[c][j] <= bump'[c][j] /\ (j # i => bump'[c][j] = bump[c][j])
        /\ bump'[c][i] = bump[c][i] + 1
    BY <1>a, <2>1
  <2>3. ASSUME NEW d \in Client, NEW a \in staged'[d]
        PROVE  seq'[a.id] < a.version /\ a.version <= seq'[a.id] + bump'[d][a.id]
    <3>1. a \in staged[d] /\ a.id \in AuditId /\ a.version \in Nat
          /\ seq[a.id] < a.version /\ a.version <= seq[a.id] + bump[d][a.id]
      BY <1>a, <1>d, <2>1, <2>3
    <3>2. bump[d][a.id] <= bump'[d][a.id]
      BY <1>a, <1>b, <2>2, <3>1
    <3>3. bump[d][a.id] \in Nat /\ bump'[d][a.id] \in Nat /\ seq[a.id] \in Nat
      BY <1>a, <3>1
    <3> QED
      BY <2>1, <3>1, <3>2, <3>3
  <2>4. /\ seq'[CurId(c)'] < cur'[c].version
        /\ cur'[c].version <= seq'[CurId(c)'] + bump'[c][CurId(c)']
    BY <1>a, <2>1, <2>2 DEF i
  <2>5. ASSUME NEW a \in staged'[c] PROVE Slot(a) # HeldSlot(c)'
    <3>1. a \in staged[c] /\ a.id \in AuditId /\ a.version \in Nat
          /\ a.version <= seq[a.id] + bump[c][a.id]
      BY <1>a, <1>d, <2>1
    <3>2. a.id = i => a.version < n
      BY <1>a, <2>1, <3>1
    <3> QED
      BY <1>a, <2>1, <3>1, <3>2 DEF Slot
  <2>6. ASSUME NEW d \in Client, HoldsNumber(d)', d # c
        PROVE  /\ seq'[CurId(d)'] < cur'[d].version
               /\ cur'[d].version <= seq'[CurId(d)'] + bump'[d][CurId(d)']
               /\ \A a \in staged'[d] : Slot(a) # HeldSlot(d)'
    BY <1>b, <1>d, <2>1, <2>6
  <2>7. \A d, x \in Client : \A j \in AuditId :
          d # x => bump'[d][j] = 0 \/ bump'[x][j] = 0
    <3>1. \A d \in Client \ {c} : bump'[d] = bump[d]
      BY <1>b
    <3>2. \A d \in Client \ {c} : \A j \in AuditId : bump'[c][j] = 0 \/ bump'[d][j] = 0
      BY <1>d, <2>1, <2>2, <3>1
    <3> QED
      BY <1>d, <3>1, <3>2
  <2> QED
    BY <1>d, <2>1, <2>3, <2>4, <2>5, <2>6, <2>7 DEF JointInv, Slot
<1>5. CASE Records(c)
  <2>1. HoldsNumber(c) /\ ~HoldsNumber(c)' /\ UNCHANGED <<seq, bump, audits>>
        /\ staged'[c] = staged[c] \cup {AuditOf(c)}
    BY <1>5 DEF Records, HoldsNumber, Insert, Joint, TInv, TypeOK
  <2>2. Slot(AuditOf(c)) = HeldSlot(c) /\ AuditOf(c).id = CurId(c)
        /\ AuditOf(c).version = cur[c].version
    BY <2>1, HeldTyped
  <2>3. \A a \in staged'[c] : InRange(a.version, c, a.id)
    BY <1>d, <2>1, <2>2
  <2>4. OneEach(staged'[c])
    BY <1>d, <2>1, <2>2
  <2>5. \A d \in Client : \A a \in staged'[d] : InRange(a.version, d, a.id)
    BY <1>b, <1>d, <2>3
  <2>6. \A d \in Client : OneEach(staged'[d])
    BY <1>b, <1>d, <2>4
  <2>7. \A d \in Client : HoldsNumber(d)' =>
          /\ InRange(cur'[d].version, d, CurId(d)')
          /\ \A a \in staged'[d] : Slot(a) # HeldSlot(d)'
    BY <1>b, <1>d, <2>1
  <2> QED
    BY <1>d, <2>1, <2>5, <2>6, <2>7 DEF JointInv, Slot
<1>6. CASE Quiet(c)
  BY <1>1, <1>6 DEF Quiet, HoldsNumber
<1>7. ~Burns(c) /\ ~Reads(c)
  BY Modes DEF Burns, Reads, Joint
<1> QED
  BY <1>2, <1>3, <1>4, <1>5, <1>6, <1>7 DEF Kind

(* And for MAX(version) + 1 with one untroubled caller. *)
LEMMA RootStep ==
    ASSUME TInv, TInv', TxInv, RootInv, NEW c \in Client, Keeps(c), Kind(c)
    PROVE  RootInv'
<1> SUFFICES ASSUME Calm' PROVE RootInv'
  BY DEF RootInv
<1> USE DEF OneEach
<1>a. Calm /\ setup.store = "root" /\ setup.oneCaller /\ reported' = {}
  BY Modes DEF Calm
<1>b. \A d \in Client \ {c} :
        /\ HoldsNumber(d)' = HoldsNumber(d)
        /\ CurId(d)' = CurId(d) /\ cur'[d].version = cur[d].version
        /\ staged'[d] = staged[d]
  BY OthersHold DEF Keeps
<1>c. \A d \in Client :
        /\ OneEach(audits \cup staged[d])
        /\ HoldsNumber(d) =>
             \A a \in audits \cup staged[d] : a.id = CurId(d) => a.version < cur[d].version
  BY <1>a DEF RootInv
<1>d. pc[c] # "idle" =>
        \A d \in Client \ {c} : pc[d] = "idle" /\ ~HoldsNumber(d)' /\ staged'[d] = {}
  BY <1>a, <1>b DEF TxInv, HoldsNumber, Fresh
<1> SUFFICES \A d \in Client :
        /\ OneEach(audits' \cup staged'[d])
        /\ HoldsNumber(d)' =>
             \A a \in audits' \cup staged'[d] : a.id = CurId(d)' => a.version < cur'[d].version
  BY DEF RootInv, Slot
<1>1. CASE UNCHANGED <<audits, staged>> /\ ~HoldsNumber(c)'
  BY <1>1, <1>b, <1>c DEF RootInv, Slot
<1>2. CASE Undoes(c)
  <2>1. UNCHANGED audits /\ staged'[c] = {} /\ ~HoldsNumber(c)'
    BY <1>2, EndKeeps DEF Undoes, HoldsNumber
  <2> QED
    BY <2>1, <1>b, <1>c DEF RootInv, Slot
<1>3. CASE Publishes(c)
  <2>1. audits' = audits \cup staged[c] /\ staged'[c] = {} /\ ~HoldsNumber(c)'
        /\ pc[c] # "idle"
    BY <1>3, EndKeeps DEF Publishes, Publish, HoldsNumber
  <2>2. \A d \in Client : ~HoldsNumber(d)' /\ staged'[d] = {}
    BY <1>d, <2>1
  <2>3. \A d \in Client : OneEach(audits' \cup staged'[d])
    BY <1>c, <2>1, <2>2
  <2> QED
    BY <2>2, <2>3 DEF RootInv, Slot
<1>4. CASE Reads(c)
  <2>1. UNCHANGED <<audits, staged>> /\ pc[c] # "idle" /\ HoldsNumber(c)'
        /\ cur'[c].version = MaxVersion(c, CurId(c)') + 1
    BY <1>4, <1>a DEF Reads, HoldsNumber
  <2>2. CurId(c)' \in AuditId
    <3>1. cur'[c].row \in Row /\ \A x \in Row : setup'.idString[x] \in AuditId
      BY <2>1, Setting DEF TInv, Busy, HoldsNumber, PkStr, Keeps
    <3> QED
      BY <3>1 DEF CurId, PkStr
  <2>3. MaxVersion(c, CurId(c)') \in Nat
        /\ \A a \in audits \cup staged[c] :
             a.id = CurId(c)' => a.version <= MaxVersion(c, CurId(c)')
    BY <2>2, MaxVersionBeyond
  <2>4. \A a \in audits \cup staged[c] : a.version \in Nat
    BY DEF TInv, TypeOK, Audit
  <2>5. \A a \in audits' \cup staged'[c] : a.id = CurId(c)' => a.version < cur'[c].version
    BY <2>1, <2>3, <2>4
  <2>6. \A d \in Client \ {c} : ~HoldsNumber(d)'
    BY <1>d, <2>1
  <2>7. \A d \in Client : OneEach(audits' \cup staged'[d])
    BY <1>c, <2>1
  <2> QED
    BY <2>5, <2>6, <2>7 DEF RootInv, Slot
<1>5. CASE Records(c)
  <2>1. HoldsNumber(c) /\ ~HoldsNumber(c)' /\ pc[c] # "idle"
        /\ audits' \cup staged'[c] = audits \cup staged[c] \cup {AuditOf(c)}
    BY <1>5 DEF Records, HoldsNumber, Insert, TInv, TypeOK
  <2>2. AuditOf(c).id = CurId(c) /\ AuditOf(c).version = cur[c].version
    BY <2>1, HeldTyped
  <2>3. \A a \in audits \cup staged[c] : Slot(a) # Slot(AuditOf(c))
    <3>1. \A a \in audits \cup staged[c] : a.id = CurId(c) => a.version < cur[c].version
      BY <1>c, <2>1
    <3>2. \A a \in audits \cup staged[c] : a.version \in Nat
      BY DEF TInv, TypeOK, Audit
    <3>3. cur[c].version \in Nat
      BY <2>1, HeldTyped
    <3> QED
      BY <2>2, <3>1, <3>2, <3>3 DEF Slot
  <2>4. OneEach(audits' \cup staged'[c])
    BY <1>c, <2>1, <2>3
  <2>5. \A d \in Client \ {c} : ~HoldsNumber(d)' /\ staged'[d] = {}
    BY <1>d, <2>1
  <2>6. \A d \in Client : OneEach(audits' \cup staged'[d])
    BY <2>4, <2>5
  <2> QED
    BY <2>1, <2>5, <2>6 DEF RootInv, Slot
<1>6. CASE Quiet(c)
  BY <1>1, <1>6 DEF Quiet, HoldsNumber
<1>7. ~Burns(c) /\ ~Takes(c)
  BY <1>a DEF Burns, Takes, Sequenced
<1> QED
  BY <1>2, <1>3, <1>4, <1>5, <1>6, <1>7 DEF Kind

(* The inductive invariant holds at first ... *)
LEMMA InvariantInit == Init => IInv
<1> SUFFICES ASSUME Init PROVE IInv
  OBVIOUS
<1>1. TxInv
  BY DEF Init, TxInv
<1>2. NumberInv
  BY DEF Init, NumberInv, SequencedInv, JointInv, RootInv, OneEach, HoldsNumber, NoBump
<1> QED
  BY <1>1, <1>2, TypedInit DEF IInv

(* A step that changes nothing. *)
LEMMA StutterInv == IInv /\ UNCHANGED vars => TxInv' /\ NumberInv'
<1> SUFFICES ASSUME IInv, UNCHANGED vars PROVE TxInv' /\ NumberInv'
  OBVIOUS
<1> USE DEF IInv, vars, txVars, HoldsNumber, CurId, HeldSlot, PkStr, Joined, Joint, Sequenced
<1>1. TxInv'
  BY DEF TxInv, Fresh
<1>2. SequencedInv'
  BY DEF NumberInv, SequencedInv, OneEach, Slot
<1>3. JointInv'
  BY DEF NumberInv, JointInv, OneEach, Slot, InRange
<1>4. RootInv'
  BY DEF NumberInv, RootInv, Calm, OneEach, Slot
<1> QED
  BY <1>1, <1>2, <1>3, <1>4 DEF NumberInv

(* ... and every step keeps it. *)
LEMMA InvariantStep == IInv /\ [Next]_vars => IInv'
<1> SUFFICES ASSUME IInv, [Next]_vars PROVE IInv'
  OBVIOUS
<1>1. TInv'
  BY TypedStep DEF IInv
<1>2. CASE UNCHANGED vars
  BY <1>1, <1>2, StutterInv DEF IInv
<1>3. CASE Next
  <2>1. PICK c \in Client :
          (\E r \in setup.requests : Begin(c, r)) \/ Step(c) \/ Failure(c)
    BY <1>3 DEF Next
  <2>2. Keeps(c) /\ Kind(c)
    BY <2>1, StepKinds DEF IInv
  <2>3. TxInv' /\ SequencedInv' /\ JointInv' /\ RootInv'
    BY <1>1, <2>2, TxStep, SequencedStep, JointStep, RootStep DEF IInv, NumberInv
  <2> QED
    BY <1>1, <2>3 DEF IInv, NumberInv
<1> QED
  BY <1>2, <1>3

(* The inductive invariant holds in every reachable state. *)
LEMMA Invariant == Spec => []IInv
  BY InvariantInit, InvariantStep, PTL DEF Spec

(* No two audits of one id carry the same version, whatever overlaps,      *)
(* fails or is rolled back; for the plugin of the module root, as long as  *)
(* it has one caller and reports nothing.                                  *)
THEOREM VersionsAreUnique == Spec => []UniqueVersions
<1>1. IInv => UniqueVersions
  <2> SUFFICES ASSUME IInv, setup.store # "root" \/ (setup.oneCaller /\ reported = {}),
                      NEW a \in audits, NEW b \in audits, Slot(a) = Slot(b)
               PROVE  a = b
    BY DEF UniqueVersions
  <2>1. setup.store \in {"gorm", "mongo", "root"}
    BY Setting DEF IInv, TInv, Setup
  <2>2. CASE Calm
    BY <2>2 DEF IInv, NumberInv, RootInv, OneEach
  <2>3. CASE Sequenced
    BY <2>3 DEF IInv, NumberInv, SequencedInv, OneEach
  <2>4. CASE Joint
    BY <2>4 DEF IInv, NumberInv, JointInv, OneEach
  <2> QED
    BY <2>1, <2>2, <2>3, <2>4 DEF Calm, Sequenced, Joint, Joined
<1> QED
  BY <1>1, Invariant, PTL

-----------------------------------------------------------------------------
(* The trail of a strict transaction has no gap *)

Present(c, s) ==
    (\E a \in staged[c] : Slot(a) = s) \/ (HoldsNumber(c) /\ HeldSlot(c) = s)

(* Every number counted by a transaction that can still commit is on an    *)
(* audit of it, or about to be.                                            *)
DenseInv ==
    Strict =>
      /\ \A a \in audits : 1 <= a.version
      /\ \A i \in AuditId : \A n \in Nat :
           1 <= n /\ n <= seq[i] => \E a \in audits : Slot(a) = <<i, n>>
      /\ \A c \in Client : ~broken[c] =>
           \A i \in AuditId : \A n \in Nat : InRange(n, c, i) => Present(c, <<i, n>>)

(* Each kind of step leaves the numbers dense. *)
LEMMA DenseStep ==
    ASSUME TInv, TInv', TxInv, JointInv, DenseInv, NEW c \in Client, Keeps(c), Kind(c)
    PROVE  DenseInv'
<1> SUFFICES ASSUME Strict PROVE DenseInv'
  BY Modes DEF DenseInv
<1> USE DEF InRange
<1>a. /\ seq \in [AuditId -> Nat] /\ bump \in [Client -> [AuditId -> Nat]]
      /\ seq' \in [AuditId -> Nat] /\ bump' \in [Client -> [AuditId -> Nat]]
      /\ Joint /\ Joined
      /\ \A d \in Client : \A a \in staged[d] : a.id \in AuditId /\ a.version \in Nat
  <2>1. staged \in [Client -> SUBSET Audit]
    BY DEF TInv, TypeOK
  <2>2. /\ seq \in [AuditId -> Nat] /\ bump \in [Client -> [AuditId -> Nat]]
        /\ seq' \in [AuditId -> Nat] /\ bump' \in [Client -> [AuditId -> Nat]]
    BY DEF TInv, TypeOK
  <2>3. Joint /\ Joined
    BY DEF Strict, Joint
  <2> QED
    BY <2>1, <2>2, <2>3 DEF Audit
<1>b. \A d \in Client \ {c} :
        /\ HoldsNumber(d)' = HoldsNumber(d) /\ HeldSlot(d)' = HeldSlot(d)
        /\ bump'[d] = bump[d] /\ staged'[d] = staged[d] /\ broken'[d] = broken[d]
  BY OthersHold DEF Keeps
<1>c. /\ \A d \in Client : \A a \in staged[d] : InRange(a.version, d, a.id)
      /\ \A d, x \in Client : \A i \in AuditId :
           d # x => bump[d][i] = 0 \/ bump[x][i] = 0
  BY <1>a DEF JointInv
<1>d. /\ \A a \in audits : 1 <= a.version
      /\ \A i \in AuditId : \A n \in Nat :
           1 <= n /\ n <= seq[i] => \E a \in audits : Slot(a) = <<i, n>>
      /\ \A d \in Client : ~broken[d] =>
           \A i \in AuditId : \A n \in Nat : InRange(n, d, i) => Present(d, <<i, n>>)
  BY DEF DenseInv
<1>e. \A d \in Client \ {c} : \A s : Present(d, s)' = Present(d, s)
  BY <1>b DEF Present
<1>1. ASSUME UNCHANGED <<seq, audits>>,
             ~broken'[c] => \A i \in AuditId : \A n \in Nat :
                              InRange(n, c, i)' => Present(c, <<i, n>>)'
      PROVE  DenseInv'
  <2>1. ASSUME NEW d \in Client, ~broken'[d], NEW i \in AuditId, NEW n \in Nat,
               InRange(n, d, i)'
        PROVE  Present(d, <<i, n>>)'
    BY <1>1, <1>b, <1>d, <1>e, <2>1
  <2> QED
    BY <1>1, <1>d, <2>1 DEF DenseInv, Slot
<1>2. ASSUME \A i \in AuditId : bump'[c][i] = 0, NEW i \in AuditId, NEW n \in Nat
      PROVE  ~InRange(n, c, i)'
  BY <1>a, <1>2
<1>3. CASE Quiet(c)
  <2>1. UNCHANGED <<seq, audits, bump, staged>> /\ ~HoldsNumber(c)'
    BY <1>3 DEF Quiet, HoldsNumber
  <2>2. CASE bump[c] = NoBump
    BY <1>1, <1>2, <2>1, <2>2 DEF NoBump
  <2>3. CASE ~broken[c] /\ ~HoldsNumber(c)
    <3>1. \A i \in AuditId : \A n \in Nat : InRange(n, c, i)' => Present(c, <<i, n>>)'
      BY <1>d, <2>1, <2>3 DEF Present, Slot
    <3> QED
      BY <1>1, <2>1, <3>1
  <2>4. CASE broken'[c]
    BY <1>1, <2>1, <2>4
  <2> QED
    BY <1>3, <2>2, <2>3, <2>4 DEF Quiet, HoldsNumber
<1>4. CASE Undoes(c)
  <2>1. UNCHANGED <<seq, audits>> /\ \A i \in AuditId : bump'[c][i] = 0
    BY <1>4, EndKeeps DEF Undoes, NoBump
  <2> QED
    BY <1>1, <1>2, <2>1
<1>5. CASE Publishes(c)
  <2>1. /\ ~broken[c] /\ ~HoldsNumber(c)
        /\ \A i \in AuditId : bump'[c][i] = 0
        /\ audits' = audits \cup staged[c]
        /\ \A i \in AuditId : seq'[i] = seq[i] + bump[c][i]
    BY <1>5, EndKeeps DEF Publishes, Publish, HoldsNumber, NoBump
  <2>2. \A a \in audits' : 1 <= a.version
    <3>1. ASSUME NEW a \in staged[c] PROVE 1 <= a.version
      <4>1. a.id \in AuditId /\ a.version \in Nat /\ seq[a.id] < a.version
        BY <1>a, <1>c
      <4> QED
        BY <1>a, <4>1
    <3> QED
      BY <1>d, <2>1, <3>1
  <2>3. ASSUME NEW i \in AuditId, NEW n \in Nat, 1 <= n, n <= seq'[i]
        PROVE  \E a \in audits' : Slot(a) = <<i, n>>
    <3>1. CASE n <= seq[i]
      BY <1>d, <2>1, <2>3, <3>1
    <3>2. CASE ~(n <= seq[i])
      <4>1. InRange(n, c, i)
        BY <1>a, <2>1, <2>3, <3>2
      <4>2. Present(c, <<i, n>>)
        BY <1>d, <2>1, <4>1
      <4> QED
        BY <2>1, <4>2 DEF Present
    <3> QED
      BY <3>1, <3>2
  <2>4. ASSUME NEW d \in Client, ~broken'[d], NEW i \in AuditId, NEW n \in Nat,
               InRange(n, d, i)'
        PROVE  Present(d, <<i, n>>)'
    <3>1. d # c
      BY <1>2, <2>1, <2>4
    <3>2. bump[d][i] # 0
      BY <1>a, <1>b, <2>4, <3>1
    <3>3. seq'[i] = seq[i]
      BY <1>a, <1>c, <2>1, <3>1, <3>2
    <3> QED
      BY <1>b, <1>d, <1>e, <2>4, <3>1, <3>3
  <2> QED
    BY <2>2, <2>3, <2>4 DEF DenseInv, Slot
<1>6. CASE Takes(c)
  <2> DEFINE j == CurId(c)'
  <2>1. /\ j \in AuditId /\ HoldsNumber(c)' /\ HeldSlot(c)' = <<j, cur'[c].version>>
        /\ ~HoldsNumber(c)
        /\ UNCHANGED <<seq, audits, staged>>
        /\ bump'[c] = [bump[c] EXCEPT ![j] = bump[c][j] + 1]
        /\ cur'[c].version = seq[j] + bump[c][j] + 1
    BY <1>6, <1>a, TakesInTransaction
  <2>2. UNCHANGED broken
    BY <1>6 DEF Takes
  <2> HIDE DEF j
  <2>3. ASSUME ~broken'[c], NEW i \in AuditId, NEW n \in Nat, InRange(n, c, i)'
        PROVE  Present(c, <<i, n>>)'
    <3>1. CASE InRange(n, c, i)
      <4>1. \E a \in staged[c] : Slot(a) = <<i, n>>
        BY <1>d, <2>1, <2>2, <2>3, <3>1 DEF Present
      <4> QED
        BY <2>1, <4>1 DEF Present, Slot
    <3>2. CASE ~InRange(n, c, i)
      <4>1. i = j /\ n = seq[j] + bump[c][j] + 1
        <5>1. \A k \in AuditId : k # j => bump'[c][k] = bump[c][k]
          BY <1>a, <2>1
        <5>2. bump'[c][j] = bump[c][j] + 1
          BY <1>a, <2>1
        <5>3. seq'[i] = seq[i] /\ seq[i] \in Nat /\ bump[c][i] \in Nat
          BY <1>a, <2>1
        <5>4. seq[i] < n /\ n <= seq[i] + bump'[c][i]
          BY <2>3, <5>3
        <5> QED
          BY <3>2, <5>1, <5>2, <5>3, <5>4
      <4> QED
        BY <2>1, <4>1 DEF Present
    <3> QED
      BY <3>1, <3>2
  <2> QED
    BY <1>1, <2>1, <2>3
<1>7. CASE Records(c)
  <2>1. /\ HoldsNumber(c) /\ UNCHANGED <<seq, bump, audits>>
        /\ staged'[c] = staged[c] \cup {AuditOf(c)}
        /\ ~broken'[c] => ~broken[c]
    BY <1>7, <1>a DEF Records, HoldsNumber, Insert, Joint, TInv, TypeOK
  <2>2. Slot(AuditOf(c)) = HeldSlot(c)
    BY <2>1, HeldTyped
  <2>3. ASSUME ~broken'[c], NEW i \in AuditId, NEW n \in Nat, InRange(n, c, i)'
        PROVE  Present(c, <<i, n>>)'
    <3>1. Present(c, <<i, n>>)
      BY <1>d, <2>1, <2>3
    <3>2. \E a \in staged'[c] : Slot(a) = <<i, n>>
      BY <2>1, <2>2, <3>1 DEF Present
    <3> QED
      BY <3>2 DEF Present, Slot
  <2> QED
    BY <1>1, <2>1, <2>3
<1>8. ~Burns(c) /\ ~Reads(c)
  BY <1>a, Modes DEF Burns, Reads, Joint
<1> QED
  BY <1>3, <1>4, <1>5, <1>6, <1>7, <1>8 DEF Kind

(* When an audit error undoes the statement the versions of an id are      *)
(* 1, 2, 3, ... without a gap: numbers and audits commit together.         *)
THEOREM NoGapInTrail == Spec => []DenseTrail
<1>1. Init => DenseInv
  <2> SUFFICES ASSUME Init PROVE DenseInv
    OBVIOUS
  <2>1. \A i \in AuditId : seq[i] = 0
    BY DEF Init, NoBump
  <2>2. \A c \in Client : \A i \in AuditId : bump[c][i] = 0
    BY DEF Init, NoBump
  <2> QED
    BY <2>1, <2>2 DEF Init, DenseInv, InRange
<1>2. IInv /\ DenseInv /\ [Next]_vars => DenseInv'
  <2> SUFFICES ASSUME IInv, DenseInv, [Next]_vars PROVE DenseInv'
    OBVIOUS
  <2>1. CASE UNCHANGED vars
    BY <2>1 DEF DenseInv, Strict, Joint, Joined, InRange, Present, HoldsNumber, HeldSlot,
       CurId, PkStr, Slot, vars, txVars
  <2>2. CASE Next
    <3>1. PICK c \in Client :
            (\E r \in setup.requests : Begin(c, r)) \/ Step(c) \/ Failure(c)
      BY <2>2 DEF Next
    <3>2. Keeps(c) /\ Kind(c)
      BY <3>1, StepKinds DEF IInv
    <3>3. TInv'
      BY TypedStep DEF IInv
    <3> QED
      BY <3>2, <3>3, DenseStep DEF IInv, NumberInv
  <2> QED
    BY <2>1, <2>2
<1>3. IInv /\ DenseInv => DenseTrail
  <2> SUFFICES ASSUME IInv, DenseInv, Strict, NEW i \in AuditId
               PROVE  {a.version : a \in {b \in audits : b.id = i}} = 1..seq[i]
    BY DEF DenseTrail, Strict, Joint
  <2>1. \A a \in audits : a.version \in Nat /\ a.id \in AuditId
    BY DEF IInv, TInv, TypeOK, Audit
  <2>2. seq[i] \in Nat
    BY DEF IInv, TInv, TypeOK
  <2>3. \A a \in audits : a.id = i => a.version \in 1..seq[i]
    BY <2>1, <2>2 DEF IInv, NumberInv, JointInv, DenseInv, Strict
  <2>4. \A n \in 1..seq[i] : \E a \in audits : a.id = i /\ a.version = n
    BY <2>2 DEF DenseInv, Slot
  <2> QED
    BY <2>3, <2>4
<1> QED
  BY <1>1, <1>2, <1>3, Invariant, PTL DEF Spec

-----------------------------------------------------------------------------
(* The trail kept outside transactions implements AuditTrail *)

Recorded == {Split(a) : a \in audits}

(* How the set of held slots follows the number of the client that moves. *)
LEMMA HeldStep ==
    ASSUME IInv, Sequenced, NEW c \in Client, Keeps(c)
    PROVE  Held' = (IF HoldsNumber(c) THEN Held \ {HeldSlot(c)} ELSE Held)
                   \cup (IF HoldsNumber(c)' THEN {HeldSlot(c)'} ELSE {})
<1>1. \A d \in Client \ {c} :
        /\ HoldsNumber(d)' = HoldsNumber(d)
        /\ HeldSlot(d)' = HeldSlot(d)
  BY OthersHold
<1>2. Held = {HeldSlot(d) : d \in {x \in Client : HoldsNumber(x)}}
  BY DEF Held, HeldSlot, HoldsNumber, CurId
<1>3. Held' = {HeldSlot(d)' : d \in {x \in Client : HoldsNumber(x)'}}
  BY DEF Held, HeldSlot, HoldsNumber, CurId
<1>4. \A d \in Client \ {c} :
        HoldsNumber(d) /\ HoldsNumber(c) => HeldSlot(d) # HeldSlot(c)
  BY DEF IInv, NumberInv, SequencedInv
<1> QED
  BY <1>1, <1>2, <1>3, <1>4

(* An audit of the detailed model is one of the abstract trail. *)
LEMMA SplitAudit ==
    ASSUME TInv, NEW c \in Client, HoldsNumber(c)
    PROVE  \E b \in Body :
             Split(AuditOf(c)) = [id |-> HeldSlot(c)[1], version |-> HeldSlot(c)[2],
                                  body |-> b]
<1> DEFINE a == AuditOf(c)
           b == [action |-> a.action, before |-> a.before, after |-> a.after,
                 call |-> a.call]
<1>1. b \in Body
  BY AuditTyped DEF Audit, Body, HoldsNumber
<1>2. a.id = HeldSlot(c)[1] /\ a.version = HeldSlot(c)[2]
  BY HeldTyped DEF HeldSlot
<1> QED
  BY <1>1, <1>2 DEF Split

(* What a step does to the numbers taken outside transactions. *)
LEMMA SequencedKinds ==
    ASSUME IInv, TInv', Sequenced, NEW c \in Client, Keeps(c), Kind(c)
    PROVE  \/ UNCHANGED <<seq, audits>> /\ ~HoldsNumber(c)'
           \/ \E i \in AuditId :
                /\ seq' = [seq EXCEPT ![i] = seq[i] + 1] /\ UNCHANGED audits
                /\ ~HoldsNumber(c)
                /\ HoldsNumber(c)' => HeldSlot(c)' = <<i, seq[i] + 1>>
           \/ /\ HoldsNumber(c) /\ ~HoldsNumber(c)'
              /\ audits' = audits \cup {AuditOf(c)} /\ UNCHANGED seq
<1>a. ~Joined
  BY DEF Sequenced
<1>1. CASE Quiet(c) \/ Undoes(c)
  BY <1>1 DEF Quiet, Undoes, HoldsNumber
<1>2. CASE Publishes(c)
  BY <1>a, <1>2, PublishesNothing DEF Publishes, HoldsNumber, IInv
<1>3. CASE Takes(c)
  <2>1. CurId(c)' \in AuditId /\ ~HoldsNumber(c)
        /\ HeldSlot(c)' = <<CurId(c)', cur'[c].version>>
    BY <1>3, TakesInTransaction DEF IInv
  <2>2. Current(c, CurId(c)') = seq[CurId(c)']
    <3>1. bump[c] = NoBump
      BY <1>a DEF IInv, TxInv
    <3> QED
      BY <2>1, <3>1 DEF Current, NoBump, IInv, TInv, TypeOK
  <2>3. seq' = [seq EXCEPT ![CurId(c)'] = seq[CurId(c)'] + 1] /\ UNCHANGED audits
        /\ cur'[c].version = seq[CurId(c)'] + 1
    BY <1>a, <1>3, <2>2 DEF Takes, Take
  <2> QED
    BY <2>1, <2>3
<1>4. CASE Burns(c)
  BY <1>4 DEF Burns, HoldsNumber
<1>5. CASE Records(c)
  BY <1>a, <1>5 DEF Records, Insert, HoldsNumber
<1>6. ~Reads(c)
  BY DEF Reads, Sequenced
<1> QED
  BY <1>1, <1>2, <1>3, <1>4, <1>5, <1>6 DEF Kind

(* Every step is a step of the abstract trail, or changes nothing of it. *)
LEMMA TrailStep == IInv /\ [Next]_vars => [Trail!Next]_(Trail!vars)
<1> SUFFICES ASSUME IInv, [Next]_vars PROVE [Trail!Next]_(Trail!vars)
  OBVIOUS
<1>1. CASE UNCHANGED vars
  BY <1>1 DEF vars, txVars, Trail!vars, Held, PkStr, Sequenced, Joined
<1>2. CASE Next
  <2>1. PICK c \in Client :
          (\E r \in setup.requests : Begin(c, r)) \/ Step(c) \/ Failure(c)
    BY <1>2 DEF Next
  <2>2. Keeps(c) /\ Kind(c) /\ TInv'
    BY <2>1, StepKinds, TypedStep DEF IInv
  <2>3. Sequenced' = Sequenced
    BY <2>2, Modes DEF IInv
  <2>4. CASE ~Sequenced
    BY <2>3, <2>4 DEF Trail!vars
  <2>5. CASE Sequenced /\ UNCHANGED <<seq, audits>> /\ ~HoldsNumber(c)'
    <3>1. Held' = IF HoldsNumber(c) THEN Held \ {HeldSlot(c)} ELSE Held
      BY <2>2, <2>5, HeldStep
    <3>2. UNCHANGED Recorded
      BY <2>5 DEF Recorded
    <3>3. CASE HoldsNumber(c)
      <4>1. HeldSlot(c) \in Held
        BY <3>3 DEF Held, HoldsNumber, HeldSlot, CurId
      <4>2. Trail!Lose(HeldSlot(c))
        BY <2>3, <2>5, <3>1, <3>2, <3>3, <4>1 DEF Trail!Lose, Recorded
      <4> QED
        BY <2>5, <4>1, <4>2 DEF Trail!Next
    <3>4. CASE ~HoldsNumber(c)
      BY <2>3, <2>5, <3>1, <3>2, <3>4 DEF Trail!vars, Recorded
    <3> QED
      BY <3>3, <3>4
  <2>6. CASE Sequenced /\ \E i \in AuditId :
               /\ seq' = [seq EXCEPT ![i] = seq[i] + 1] /\ UNCHANGED audits
               /\ ~HoldsNumber(c)
               /\ HoldsNumber(c)' => HeldSlot(c)' = <<i, seq[i] + 1>>
    <3>1. PICK i \in AuditId :
            /\ seq' = [seq EXCEPT ![i] = seq[i] + 1] /\ UNCHANGED audits
            /\ ~HoldsNumber(c)
            /\ HoldsNumber(c)' => HeldSlot(c)' = <<i, seq[i] + 1>>
      BY <2>6
    <3>2. UNCHANGED Recorded
      BY <3>1 DEF Recorded
    <3>3. CASE HoldsNumber(c)'
      <4>1. Held' = Held \cup {<<i, seq[i] + 1>>}
        BY <2>2, <2>6, <3>1, <3>3, HeldStep
      <4>2. Trail!Issue(i)
        BY <2>3, <2>6, <3>1, <3>2, <4>1 DEF Trail!Issue, Recorded
      <4> QED
        BY <4>2 DEF Trail!Next
    <3>4. CASE ~HoldsNumber(c)'
      <4>1. Held' = Held
        BY <2>2, <2>6, <3>1, <3>4, HeldStep
      <4>2. Trail!Burn(i)
        BY <2>3, <2>6, <3>1, <3>2, <4>1 DEF Trail!Burn, Recorded
      <4> QED
        BY <4>2 DEF Trail!Next
    <3> QED
      BY <3>3, <3>4
  <2>7. CASE /\ Sequenced /\ HoldsNumber(c) /\ ~HoldsNumber(c)'
             /\ audits' = audits \cup {AuditOf(c)} /\ UNCHANGED seq
    <3>1. HeldSlot(c) \in Held
      BY <2>7 DEF Held, HoldsNumber, HeldSlot, CurId
    <3>2. Held' = Held \ {HeldSlot(c)}
      BY <2>2, <2>7, HeldStep
    <3>3. Recorded' = Recorded \cup {Split(AuditOf(c))}
      BY <2>7 DEF Recorded
    <3>4. PICK b \in Body :
            Split(AuditOf(c)) = [id |-> HeldSlot(c)[1], version |-> HeldSlot(c)[2],
                                 body |-> b]
      BY <2>7, SplitAudit DEF IInv
    <3>5. Trail!Record(HeldSlot(c), b)
      BY <2>3, <2>7, <3>1, <3>2, <3>3, <3>4 DEF Trail!Record, Recorded
    <3> QED
      BY <2>7, <3>1, <3>5 DEF Trail!Next
  <2> QED
    BY <2>2, <2>4, <2>5, <2>6, <2>7, SequencedKinds
<1> QED
  BY <1>1, <1>2

(* Outside transactions the plugin keeps the contract of AuditStore with   *)
(* either store: every number is issued once and recorded at most once.    *)
THEOREM ImplementsAuditTrail == Spec => TrailSpec
<1>1. Init => Trail!Init
  BY DEF Init, Trail!Init, Held, NoBump
<1> QED
  BY <1>1, Invariant, TrailStep, PTL DEF Spec, TrailSpec, Trail!Spec
====
