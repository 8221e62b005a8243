--------------------------- MODULE GormCommitProofs ---------------------------
(***************************************************************************)
(* postgres-gorm, for every value of the constants: which changes have     *)
(* their audit once a statement has returned, that the versions of a row   *)
(* follow the order in which its changes were committed, that batches      *)
(* listing their sequences in one order never deadlock, and that the       *)
(* audits of updates replay the row when nothing disturbs them.            *)
(***************************************************************************)
EXTENDS GormPluginProofs

(* The rows that the call of c names, wherever it has got to.              *)
Nameable(c) ==
    LET r == Req(c)
        silent == \/ r.op \in {"update", "save"} /\ r.slice
                  \/ r.op = "update" /\ r.val = Nil
                  \/ r.op = "save" /\ (setup.store = "root" \/ snap[c] = r.val)
    IN IF silent THEN {} ELSE r.ids

(* An audit was written for x or is going to be, ...                       *)
Covered(c, x) ==
    \/ \E a \in audits \cup staged[c] : a.call = cid[c] /\ a.id = PkStr(x)
    \/ \E e \in todo[c] : e.row = x
    \/ pc[c] \in {"insert", "save"} /\ cur[c].row = x

(* ... or one was given up and the application knows; with                 *)
(* FailOnAuditError the transaction will not commit.                       *)
Lost(c) == cid[c] \in reported /\ (Joined /\ setup.failOnAuditError => broken[c])

(* A Save without a snapshot has nothing to compare its struct with, which *)
(* was reported; with FailOnAuditError it is not executed.                 *)
Blind(c) == Req(c).op = "save" /\ snap[c] = Nil /\ Nameable(c) # {}
Excused(c) == cid[c] \in reported /\ ~setup.failOnAuditError

Writing == {"version", "insert", "save"}

(* Nothing of the call has been committed.                                 *)
Pending(c) ==
    \/ pc[c] \in {"before", "write", "commit"}
    \/ pc[c] # "idle" /\ setup.inTx

-----------------------------------------------------------------------------
(* The invariants *)

(* Calls are told apart by their numbers, which only grow; what a call in  *)
(* a transaction has done is seen of no other.                             *)
CallInv ==
    /\ \A c \in Client : cid[c] <= calls
    /\ \A c, d \in Client : c # d /\ cid[c] = cid[d] => cid[c] = 0
    /\ \A x \in Row : \A k \in Call : Changed(x, k) => k <= calls
    /\ \A c \in Client : Pending(c) => \A x \in Row : ~Changed(x, cid[c])
    /\ \A a \in audits : a.call <= calls
    /\ \A c \in Client : \A a \in staged[c] : a.call = cid[c]
    /\ Joined => \A c \in Client : pc[c] # "idle" => \A a \in audits : a.call # cid[c]
    /\ \A c, d \in Client : c # d => write[c] \cap write[d] = {}

(* A row the call wrote and names has its audit, or an entry of the loop   *)
(* that will write it, or its audit was given up.                          *)
Minds(c) ==
    \A x \in Nameable(c) : x \in write[c] \/ Changed(x, cid[c]) => Covered(c, x) \/ Lost(c)

(* What is left of that when the statement has returned.                   *)
Settled(c) ==
    \A x \in Nameable(c) : Changed(x, cid[c]) =>
      /\ outcome[cid[c]] = "ok" => AuditedBy(x, cid[c]) \/ cid[c] \in reported
      /\ Joined /\ setup.failOnAuditError => AuditedBy(x, cid[c])

Cover(c) ==
    /\ pc[c] \notin {"idle", "before"} /\ Blind(c) => Excused(c)
    /\ pc[c] \in Writing \cup {"commit"} => Minds(c)
    /\ pc[c] = "commit" /\ setup.inTx => todo[c] = {}
    /\ pc[c] = "idle" /\ cid[c] # 0 => Settled(c)
CoverInv == \A c \in Client : Cover(c)

(* GormStore writes audits only in transactions that changed rows.         *)
CommitInv ==
    Joint =>
      /\ \A a \in audits : \E x \in Row : Changed(x, a.call)
      /\ \A c \in Client : pc[c] \in Writing \/ staged[c] # {} => write[c] # {}

(* What c has numbered for a row it has locked comes after every audit of  *)
(* a call that changed the row before.                                     *)
OrderInv ==
    Joined =>
      \A c \in Client : \A x \in write[c] : \A a \in audits :
        a.id = PkStr(x) /\ Changed(x, a.call) /\ (setup.store = "root" => cid[c] \notin reported)
        => /\ \A b \in staged[c] : b.id = a.id => a.version < b.version
           /\ HoldsNumber(c) /\ CurId(c) = a.id => a.version < cur[c].version

-----------------------------------------------------------------------------
(* What a step does to the call, its transaction and its audits *)

(* The other clients go on where they were.                                *)
Leaves(c) ==
    \A d \in Client \ {c} : cid'[d] = cid[d] /\ snap'[d] = snap[d] /\ todo'[d] = todo[d]
                            /\ write'[d] = write[d]

Calling == UNCHANGED <<args, cid, calls>>

(* The outcome of no other call changes.                                   *)
Answers(c) == \A k \in Call \ {cid[c]} : outcome'[k] = outcome[k]

Starts(c) ==
    /\ pc[c] = "idle" /\ pc'[c] = "before"
    /\ calls < MaxCalls /\ calls' = calls + 1 /\ cid'[c] = calls + 1
    /\ \A k \in 1..calls : args'[k] = args[k]
    /\ UNCHANGED <<outcome, write, history, audits, staged>>

Prepares(c) ==
    /\ pc[c] = "before" /\ pc'[c] = "write"
    /\ Blind(c)' => Excused(c)'
    /\ Calling /\ UNCHANGED <<outcome, write, history, audits, staged>>

Aborts(c) ==
    /\ pc[c] # "idle" /\ pc'[c] = "idle"
    /\ outcome'[cid[c]] # "ok" /\ Answers(c)
    /\ Calling /\ UNCHANGED <<history, audits>>
    /\ EndTx(c)

Executes(c) ==
    /\ pc[c] = "write"
    /\ \A x \in write'[c] : ~Locked(c, x)
    /\ todo'[c] = IF write'[c] = {} /\ setup.store # "root" THEN {} ELSE Entries(c)
    /\ \/ pc'[c] = "version" /\ todo'[c] # {}
       \/ pc'[c] = "commit" /\ (setup.inTx => todo'[c] = {})
    /\ Calling /\ UNCHANGED <<outcome, history, audits, staged, snap>>

Completes(c) ==
    /\ pc[c] = "commit" /\ ~broken[c]
    /\ Publish(c)
    /\ \/ pc'[c] = "version" /\ ~setup.inTx /\ UNCHANGED <<todo, broken, outcome>>
       \/ pc'[c] = "idle" /\ Answers(c) /\ (outcome'[cid[c]] = "ok" => todo[c] = {})
    /\ Calling /\ UNCHANGED snap

(* The next element is taken up, or keeps its turn.                        *)
Numbering(c) ==
    /\ pc'[c] \in {"insert", "save"}
    /\ \/ pc[c] = "version" /\ \E e \in Chosen(c) : todo'[c] = todo[c] \ {e} /\ cur'[c].row = e.row
       \/ pc[c] = "insert" /\ todo'[c] = todo[c] /\ cur'[c].row = cur[c].row
    /\ broken[c] => broken'[c]
    /\ Calling /\ UNCHANGED <<outcome, write, history, audits, staged, snap>>

(* An element is done with.                                                *)
Proceeds(c) ==
    /\ pc[c] \in Writing
    /\ \/ pc'[c] = "version" /\ UNCHANGED outcome
       \/ pc'[c] = "commit" /\ setup.inTx /\ todo'[c] = {} /\ UNCHANGED outcome
       \/ pc'[c] = "idle" /\ ~setup.inTx /\ todo'[c] = {} /\ Answers(c)
    /\ \/ pc[c] = "save" /\ Insert(c)
       \/ Lost(c)' /\ UNCHANGED <<audits, staged>>
    /\ todo'[c] = todo[c] \/ (Lost(c)' /\ todo'[c] \subseteq todo[c])
    /\ broken[c] => broken'[c]
    /\ Calling /\ UNCHANGED <<write, history, snap>>

Deed(c) ==
    \/ Starts(c) \/ Prepares(c) \/ Aborts(c) \/ Executes(c) \/ Completes(c)
    \/ Numbering(c) \/ Proceeds(c)

(* Control: the outcomes a step of c leaves. *)
LEMMA Outcomes ==
    ASSUME TInv, NEW c \in Client, pc[c] # "idle", NEW o \in Outcome
    PROVE  /\ Return(c, o) => Answers(c) /\ outcome'[cid[c]] = o
           /\ \A l : Goto(c, l) => UNCHANGED outcome
           /\ NextEntry(c) =>
                \/ pc'[c] = "version" /\ UNCHANGED outcome
                \/ pc'[c] = "commit" /\ setup.inTx /\ todo'[c] = {} /\ UNCHANGED outcome
                \/ pc'[c] = "idle" /\ ~setup.inTx /\ todo'[c] = {} /\ Answers(c)
<1>1. cid[c] \in Call /\ pc \in [Client -> PC] /\ outcome \in [Call -> Outcome]
  BY DEF TInv, TypeOK, Busy, Outcome
<1>2. \A q : Return(c, q) => pc'[c] = "idle" /\ Answers(c) /\ outcome'[cid[c]] = q
  BY <1>1 DEF Return, Answers
<1>3. \A l : Goto(c, l) => pc'[c] = l /\ UNCHANGED outcome
  BY <1>1 DEF Goto
<1> QED
  BY <1>2, <1>3 DEF NextEntry

(* A transaction that is rolled back. *)
LEMMA RollbackAborts ==
    ASSUME TInv, NEW c \in Client, pc[c] # "idle", NEW o \in {"error", "crash"},
           Rollback(c, o), Calling
    PROVE  Aborts(c) /\ \A d \in Client \ {c} : write'[d] = write[d]
<1>1. EndTx(c) /\ Return(c, o) /\ UNCHANGED <<audits, history>>
  BY DEF Rollback
<1>2. Answers(c) /\ outcome'[cid[c]] = o
  BY <1>1, Outcomes DEF Outcome
<1>3. pc'[c] = "idle"
  BY <1>1, Control
<1>4. \A d \in Client \ {c} : write'[d] = write[d]
  BY <1>1 DEF EndTx, TInv, TypeOK
<1> QED
  BY <1>1, <1>2, <1>3, <1>4 DEF Aborts

(* Each action does one of these deeds: Begin, ... *)
LEMMA BeginDeed ==
    ASSUME TInv, UNCHANGED setup, NEW c \in Client, NEW r, Begin(c, r)
    PROVE  Leaves(c) /\ Deed(c)
<1>1. pc[c] = "idle" /\ pc'[c] = "before" /\ UNCHANGED <<outcome, write, history, audits, staged>>
  BY Control DEF Begin, Goto
<1>2. calls \in Nat /\ calls < MaxCalls /\ calls' = calls + 1
  BY Setting, BoundAssumption DEF Begin, TInv, TypeOK
<1>3. cid'[c] = calls + 1 /\ Leaves(c)
  BY DEF Begin, TInv, TypeOK, Leaves
<1>4. \A k \in 1..calls : args'[k] = args[k]
  BY <1>2, BoundAssumption DEF Begin, TInv, TypeOK, Call
<1> QED
  BY <1>1, <1>2, <1>3, <1>4 DEF Deed, Starts

(* ... the before callbacks, ... *)
LEMMA CallbackDeed ==
    ASSUME TInv, UNCHANGED setup, NEW c \in Client,
           Guard(c) \/ BeforeUpdate(c) \/ SnapshotFails(c)
    PROVE  Leaves(c) /\ Deed(c)
<1>1. pc[c] = "before" /\ Calling /\ UNCHANGED <<audits, history, todo>>
  BY DEF Guard, BeforeUpdate, SnapshotFails, Calling
<1>2. \A d \in Client \ {c} : snap'[d] = snap[d]
  BY DEF Guard, BeforeUpdate, SnapshotFails, NoSnapshot, TInv, TypeOK
<1>3. \/ EndTx(c) /\ Return(c, "error")
      \/ UNCHANGED <<write, bump, staged>> /\ Goto(c, "write")
  BY DEF Guard, BeforeUpdate, SnapshotFails, NoSnapshot
<1>4. CASE EndTx(c) /\ Return(c, "error")
  <2>1. Answers(c) /\ outcome'[cid[c]] = "error" /\ pc'[c] = "idle"
    BY <1>1, <1>4, Outcomes, Control DEF Outcome
  <2>2. \A d \in Client \ {c} : write'[d] = write[d]
    BY <1>4 DEF EndTx, TInv, TypeOK
  <2> QED
    BY <1>1, <1>2, <1>4, <2>1, <2>2 DEF Deed, Aborts, Leaves, Calling
<1>5. CASE UNCHANGED <<write, bump, staged>> /\ Goto(c, "write")
  <2>1. pc'[c] = "write" /\ UNCHANGED outcome
    BY <1>5, Control DEF Goto
  <2>2. Nameable(c)' # {} /\ Req(c)'.op = "save" /\ snap'[c] = Nil => Excused(c)'
    <3>1. Req(c)' = Req(c)
      BY <1>1 DEF Calling, Req
    <3>2. CASE Unguarded(Req(c))
      BY <3>1, <3>2 DEF Unguarded, Nameable
    <3>3. CASE ~Unguarded(Req(c)) /\ snap'[c] = Nil
      <4>1. CASE NoSnapshot(c)
        <5>1. ~setup.failOnAuditError
          BY <1>1, <2>1, <4>1, Control DEF NoSnapshot
        <5> QED
          BY <1>1, <4>1, <5>1 DEF NoSnapshot, HandleError, Excused, Calling
      <4>2. CASE ~NoSnapshot(c)
        <5> DEFINE same == {y \in Row :
                   rows[y] # Nil /\ \E x \in Req(c).ids : PkStr(x) = PkStr(y)}
        <5>1. BeforeUpdate(c)
          <6>1. ~Guard(c)
            BY <2>1, <3>3, Control DEF Guard
          <6> QED
            BY <4>2, <6>1 DEF SnapshotFails
        <5>2. same \in SUBSET Row /\ same # {}
              /\ snap' = [snap EXCEPT ![c] = rows[CHOOSE y \in same : \A z \in same : y <= z]]
          BY <4>2, <5>1 DEF BeforeUpdate
        <5>3. snap'[c] # Nil
          <6> DEFINE y0 == CHOOSE y \in same : \A z \in same : y <= z
          <6>1. y0 \in same
            <7> HIDE DEF same
            <7> QED
              BY <5>2, FirstOfRows
          <6>2. rows[y0] # Nil /\ snap' = [snap EXCEPT ![c] = rows[y0]]
            BY <5>2, <6>1
          <6> HIDE DEF y0
          <6> QED
            BY <6>2 DEF TInv, TypeOK
        <5> QED
          BY <3>3, <5>3
      <4> QED
        BY <4>1, <4>2
    <3> QED
      BY <3>2, <3>3, <1>1 DEF Guard
  <2> QED
    BY <1>1, <1>2, <1>5, <2>1, <2>2 DEF Deed, Prepares, Leaves, Calling, Blind
<1> QED
  BY <1>3, <1>4, <1>5

(* ... the statement, ... *)
LEMMA WriteDeed ==
    ASSUME TInv, UNCHANGED setup, NEW c \in Client, Write(c) \/ WriteFails(c)
    PROVE  Leaves(c) /\ Deed(c)
<1>1. pc[c] = "write" /\ Calling /\ UNCHANGED snap
  BY DEF Write, WriteFails, Calling
<1>2. \A d \in Client \ {c} : todo'[d] = todo[d]
  BY DEF Write, WriteFails, TInv, TypeOK
<1>3. CASE Rollback(c, "error")
  BY <1>1, <1>2, <1>3, RollbackAborts DEF Deed, Leaves, Calling
<1>4. CASE ~Rollback(c, "error")
  <2> DEFINE D == Targets(Req(c))
  <2>1. /\ Write(c)
        /\ \A x \in D : ~Locked(c, x)
        /\ write' = [write EXCEPT ![c] = D]
        /\ todo' = [todo EXCEPT ![c] = IF D = {} /\ setup.store # "root"
                                         THEN {} ELSE Entries(c)]
        /\ IF setup.inTx /\ todo'[c] # {} THEN Goto(c, "version") ELSE Goto(c, "commit")
        /\ UNCHANGED <<history, audits, staged>>
    BY <1>4 DEF Write, WriteFails
  <2> HIDE DEF D
  <2>2. /\ write'[c] = D
        /\ \A d \in Client \ {c} : write'[d] = write[d]
        /\ todo'[c] = IF D = {} /\ setup.store # "root" THEN {} ELSE Entries(c)
    BY <2>1 DEF TInv, TypeOK
  <2>3. /\ UNCHANGED outcome
        /\ \/ pc'[c] = "version" /\ todo'[c] # {}
           \/ pc'[c] = "commit" /\ (setup.inTx => todo'[c] = {})
    <3>1. CASE setup.inTx /\ todo'[c] # {}
      BY <2>1, <3>1, Control DEF Goto
    <3>2. CASE ~(setup.inTx /\ todo'[c] # {})
      BY <2>1, <3>2, Control DEF Goto
    <3> QED
      BY <3>1, <3>2
  <2>4. Executes(c)
    BY <1>1, <2>1, <2>2, <2>3 DEF Executes
  <2> QED
    BY <1>1, <1>2, <2>2, <2>4 DEF Deed, Leaves, Calling
<1> QED
  BY <1>3, <1>4

(* ... its commit, rollback or end with the process, ... *)
LEMMA CommitDeed ==
    ASSUME TInv, CoverInv, UNCHANGED setup, NEW c \in Client,
           Commit(c) \/ CommitFails(c) \/ Crash(c)
    PROVE  Leaves(c) /\ Deed(c)
<1>1. pc[c] # "idle" /\ Calling /\ UNCHANGED <<snap, broken>>
  BY DEF Commit, CommitFails, Crash, Calling
<1>2. \A d \in Client \ {c} : todo'[d] = todo[d]
  BY DEF Commit, CommitFails, Crash, TInv, TypeOK
<1>3. \/ Rollback(c, "error") \/ Rollback(c, "crash")
      \/ /\ pc[c] = "commit" /\ ~broken[c] /\ Publish(c)
         /\ \/ ~setup.inTx /\ UNCHANGED todo /\ Goto(c, "version")
            \/ todo[c] = {} /\ Return(c, "ok")
            \/ Return(c, "error")
  <2>1. pc[c] = "commit" /\ setup.inTx => todo[c] = {}
    BY DEF CoverInv, Cover
  <2> QED
    BY <2>1 DEF Commit, CommitFails, Crash
<1>4. CASE Rollback(c, "error") \/ Rollback(c, "crash")
  BY <1>1, <1>2, <1>4, RollbackAborts DEF Deed, Leaves, Calling
<1>5. CASE ~Rollback(c, "error") /\ ~Rollback(c, "crash")
  <2>1. \A d \in Client \ {c} : write'[d] = write[d]
    BY <1>3, <1>5 DEF Publish, EndTx, TInv, TypeOK
  <2>2. Leaves(c)
    BY <1>1, <1>2, <2>1 DEF Leaves, Calling
  <2>3. Completes(c)
    <3>1. CASE ~setup.inTx /\ UNCHANGED todo /\ Goto(c, "version")
      <4>1. pc'[c] = "version" /\ UNCHANGED outcome
        BY <3>1, Control DEF Goto
      <4> QED
        BY <1>1, <1>3, <1>5, <3>1, <4>1 DEF Completes
    <3>2. CASE Return(c, "ok") /\ todo[c] = {}
      <4>1. pc'[c] = "idle" /\ Answers(c)
        BY <1>1, <3>2, Control, Outcomes DEF Outcome
      <4> QED
        BY <1>1, <1>3, <1>5, <3>2, <4>1 DEF Completes
    <3>3. CASE Return(c, "error")
      <4>1. pc'[c] = "idle" /\ Answers(c) /\ outcome'[cid[c]] = "error"
        BY <1>1, <3>3, Control, Outcomes DEF Outcome
      <4> QED
        BY <1>1, <1>3, <1>5, <3>3, <4>1 DEF Completes
    <3> QED
      BY <1>3, <1>5, <3>1, <3>2, <3>3
  <2> QED
    BY <2>2, <2>3 DEF Deed
<1> QED
  BY <1>4, <1>5

(* An audit that is given up: the loop goes on, or ends. *)
LEMMA FailureDeed ==
    ASSUME TInv, UNCHANGED <<setup, write, history, snap>>, Calling,
           NEW c \in Client, NEW a \in BOOLEAN, AuditFails(c, a), pc[c] \in Writing,
           UNCHANGED <<audits, staged>> \/ (pc[c] = "save" /\ Insert(c)),
           todo'[c] \subseteq todo[c], \A d \in Client \ {c} : todo'[d] = todo[d]
    PROVE  Leaves(c) /\ Deed(c)
<1>1. pc[c] # "idle"
  BY DEF Writing
<1>2. cid'[c] \in reported'
  BY DEF AuditFails, HandleError, Calling
<1>3. broken[c] \/ setup.failOnAuditError => broken'[c]
  BY FlagsOnFailure
<1>4. Lost(c)'
  BY <1>2, <1>3 DEF Lost, Joined
<1>5. \/ pc'[c] = "version" /\ UNCHANGED outcome
      \/ pc'[c] = "commit" /\ setup.inTx /\ todo'[c] = {} /\ UNCHANGED outcome
      \/ pc'[c] = "idle" /\ ~setup.inTx /\ todo'[c] = {} /\ Answers(c)
  BY <1>1, Outcomes DEF AuditFails, Outcome
<1>6. Proceeds(c)
  BY <1>3, <1>4, <1>5 DEF Proceeds
<1> QED
  BY <1>6 DEF Deed, Leaves, Calling

(* The next number is learnt for an element of the batch. *)
LEMMA TurnDeed ==
    ASSUME TInv, UNCHANGED <<setup, outcome, write, history, audits, staged, snap>>, Calling,
           NEW c \in Client, pc[c] = "version", pc'[c] \in {"insert", "save"},
           NEW e \in Chosen(c), NEW n, cur' = [cur EXCEPT ![c] = Numbered(e, n)],
           todo' = [todo EXCEPT ![c] = @ \ {e}],
           broken[c] => broken'[c]
    PROVE  Leaves(c) /\ Deed(c)
<1>1. e \in todo[c] /\ cur'[c].row = e.row
  BY NumberedKeeps, ChosenTyped
<1>2. todo'[c] = todo[c] \ {e} /\ \A d \in Client \ {c} : todo'[d] = todo[d]
  BY DEF TInv, TypeOK
<1>3. Numbering(c)
  BY <1>1, <1>2 DEF Numbering
<1> QED
  BY <1>2, <1>3 DEF Deed, Leaves, Calling

(* ... the next number, learnt or not, ... *)
LEMMA VersionDeed ==
    ASSUME TInv, UNCHANGED setup, NEW c \in Client,
           NextVersion(c) \/ VersionFails(c) \/ ReadMax(c) \/ ReadMaxFails(c)
    PROVE  Leaves(c) /\ Deed(c)
<1>1. pc[c] = "version" /\ Calling /\ UNCHANGED <<write, history, audits, staged, snap>>
  BY DEF NextVersion, VersionFails, ReadMax, ReadMaxFails, Calling, txVars
<1>2. PICK e \in Chosen(c) :
        /\ todo' = [todo EXCEPT ![c] = @ \ {e}]
        /\ \/ AuditFails(c, TRUE)
           \/ /\ Goto(c, "insert") \/ Goto(c, "save")
              /\ \E n : cur' = [cur EXCEPT ![c] = Numbered(e, n)]
              /\ UNCHANGED broken
                 \/ broken' = [broken EXCEPT ![c] = @ \/ (Joined /\ setup.abortOnError)]
  <2>1. CASE NextVersion(c)
    BY <2>1 DEF NextVersion
  <2>2. CASE VersionFails(c)
    BY <2>2 DEF VersionFails
  <2>3. CASE ReadMax(c)
    BY <2>3 DEF ReadMax, txVars
  <2>4. CASE ReadMaxFails(c)
    BY <2>4 DEF ReadMaxFails
  <2> QED
    BY <2>1, <2>2, <2>3, <2>4
<1>3. CASE AuditFails(c, TRUE)
  <2>1. todo'[c] \subseteq todo[c] /\ \A d \in Client \ {c} : todo'[d] = todo[d]
    BY <1>2 DEF TInv, TypeOK
  <2> QED
    BY <1>1, <1>3, <2>1, FailureDeed DEF Writing
<1>4. CASE ~AuditFails(c, TRUE)
  <2>1. pc'[c] \in {"insert", "save"} /\ UNCHANGED outcome
    BY <1>2, <1>4, Control DEF Goto
  <2>2. PICK n : cur' = [cur EXCEPT ![c] = Numbered(e, n)]
    BY <1>2, <1>4
  <2>3. broken[c] => broken'[c]
    BY <1>2, <1>4 DEF TInv, TypeOK
  <2> QED
    BY <1>1, <1>2, <2>1, <2>2, <2>3, TurnDeed
<1> QED
  BY <1>3, <1>4

(* ... the insert of a sequence, ... *)
LEMMA InsertDeed ==
    ASSUME TInv, UNCHANGED setup, NEW c \in Client, InsertVersion(c)
    PROVE  Leaves(c) /\ Deed(c)
<1>1. pc[c] = "insert" /\ Calling
      /\ UNCHANGED <<write, history, audits, staged, snap, todo>>
  BY DEF InsertVersion, Calling
<1>2. CASE AuditFails(c, FALSE)
  BY <1>1, <1>2, FailureDeed DEF Writing
<1>3. CASE ~AuditFails(c, FALSE)
  <2>1. cur' = [cur EXCEPT ![c].version = 1] /\ Goto(c, "save") /\ UNCHANGED broken
    BY <1>3 DEF InsertVersion
  <2>2. pc'[c] = "save" /\ UNCHANGED outcome
    BY <2>1, Control DEF Goto
  <2>3. cur'[c].row = cur[c].row
    BY <2>1 DEF TInv, TypeOK
  <2>4. Numbering(c)
    BY <1>1, <2>1, <2>2, <2>3 DEF Numbering
  <2> QED
    BY <1>1, <2>4 DEF Deed, Leaves, Calling
<1> QED
  BY <1>2, <1>3

(* ... and Save. *)
LEMMA SaveDeed ==
    ASSUME TInv, UNCHANGED setup, NEW c \in Client, Save(c) \/ SaveFails(c)
    PROVE  Leaves(c) /\ Deed(c)
<1>1. pc[c] = "save" /\ Calling /\ UNCHANGED <<write, history, snap, todo>>
  BY DEF Save, SaveFails, Calling
<1>2. CASE SaveFails(c)
  <2>1. PICK a \in BOOLEAN : AuditFails(c, a) /\ (UNCHANGED <<audits, staged>> \/ Insert(c))
    BY <1>2 DEF SaveFails
  <2> QED
    BY <1>1, <2>1, FailureDeed DEF Writing
<1>3. CASE Save(c)
  <2>1. Insert(c) /\ UNCHANGED broken /\ NextEntry(c)
    BY <1>3 DEF Save
  <2>2. \/ pc'[c] = "version" /\ UNCHANGED outcome
        \/ pc'[c] = "commit" /\ setup.inTx /\ todo'[c] = {} /\ UNCHANGED outcome
        \/ pc'[c] = "idle" /\ ~setup.inTx /\ todo'[c] = {} /\ Answers(c)
    BY <1>1, <2>1, Outcomes DEF Outcome
  <2>3. Proceeds(c)
    BY <1>1, <2>1, <2>2 DEF Proceeds, Writing
  <2> QED
    BY <1>1, <2>3 DEF Deed, Leaves, Calling
<1> QED
  BY <1>2, <1>3

(* Only a call in progress takes steps. *)
LEMMA StepsUnderway ==
    ASSUME NEW c \in Client, Step(c) \/ Failure(c)
    PROVE  pc[c] # "idle"
BY DEF Step, Failure, Guard, BeforeUpdate, Write, WriteFails, Commit, NextVersion,
       InsertVersion, Save, ReadMax, ReadMaxFails, SaveFails, SnapshotFails, CommitFails,
       VersionFails, Crash

(* Every step of the specification is one of these deeds of one client. *)
LEMMA StepDeeds ==
    ASSUME TInv, CoverInv, NEW c \in Client,
           (\E r \in setup.requests : Begin(c, r)) \/ Step(c) \/ Failure(c)
    PROVE  Leaves(c) /\ Deed(c)
<1>1. UNCHANGED setup
  BY DEF Begin, Step, Failure
<1>2. CASE \E r \in setup.requests : Begin(c, r)
  BY <1>1, <1>2, BeginDeed
<1>3. CASE Guard(c) \/ BeforeUpdate(c) \/ SnapshotFails(c)
  BY <1>1, <1>3, CallbackDeed
<1>4. CASE Write(c) \/ WriteFails(c)
  BY <1>1, <1>4, WriteDeed
<1>5. CASE Commit(c) \/ CommitFails(c) \/ Crash(c)
  BY <1>1, <1>5, CommitDeed
<1>6. CASE NextVersion(c) \/ VersionFails(c) \/ ReadMax(c) \/ ReadMaxFails(c)
  BY <1>1, <1>6, VersionDeed
<1>7. CASE InsertVersion(c)
  BY <1>1, <1>7, InsertDeed
<1>8. CASE Save(c) \/ SaveFails(c)
  BY <1>1, <1>8, SaveDeed
<1> QED
  BY <1>2, <1>3, <1>4, <1>5, <1>6, <1>7, <1>8 DEF Step, Failure

-----------------------------------------------------------------------------
(* Calls keep apart *)

(* A commit adds the call to the histories of the rows it wrote. *)
LEMMA PublishedChanges ==
    ASSUME TInv, NEW c \in Client, pc[c] # "idle", Publish(c),
           NEW x \in Row, NEW k \in Call
    PROVE  Changed(x, k)' <=> Changed(x, k) \/ (x \in write[c] /\ k = cid[c])
<1>1. history[x] \in Seq(Call) /\ cid[c] \in Call
  BY DEF TInv, TypeOK, Busy
<1>2. history'[x] = IF x \in write[c] THEN Append(history[x], cid[c]) ELSE history[x]
  BY DEF Publish
<1>3. CASE x \in write[c]
  <2> DEFINE h == history[x]
             n == Len(h)
  <2>1. history'[x] = Append(h, cid[c]) /\ h \in Seq(Call)
    BY <1>1, <1>2, <1>3
  <2> HIDE DEF h
  <2>2. /\ n \in Nat /\ DOMAIN h = 1..n /\ DOMAIN history'[x] = 1..(n + 1)
        /\ \A i \in 1..n : history'[x][i] = h[i]
        /\ history'[x][n + 1] = cid[c]
    BY <1>1, <2>1
  <2>3. (\E i \in 1..(n + 1) : history'[x][i] = k) <=> (\E i \in 1..n : h[i] = k) \/ k = cid[c]
    <3> HIDE DEF n
    <3>1. \A i \in 1..(n + 1) : i \in 1..n \/ i = n + 1
      BY <2>2
    <3>2. 1..n \subseteq 1..(n + 1) /\ n + 1 \in 1..(n + 1)
      BY <2>2
    <3> QED
      BY <2>2, <3>1, <3>2
  <2>4. Changed(x, k)' <=> \E i \in 1..(n + 1) : history'[x][i] = k
    BY <2>2 DEF Changed
  <2>5. Changed(x, k) <=> \E i \in 1..n : h[i] = k
    BY <2>2 DEF Changed, h
  <2> QED
    BY <1>3, <2>3, <2>4, <2>5
<1>4. CASE x \notin write[c]
  BY <1>2, <1>4 DEF Changed
<1> QED
  BY <1>3, <1>4

(* What a step leaves of calls, audits and histories. *)
LEMMA DeedFacts ==
    ASSUME TInv, CallInv, NEW c \in Client, Leaves(c), Keeps(c), Deed(c)
    PROVE  /\ audits \subseteq audits'
           /\ \A x \in Row : \A k \in Call :
                /\ Changed(x, k) => Changed(x, k)'
                /\ Changed(x, k)' => \/ Changed(x, k)
                                     \/ Completes(c) /\ x \in write[c] /\ k = cid[c]
           /\ \A d \in Client \ {c} :
                cid[d] # 0 => outcome'[cid[d]] = outcome[cid[d]] /\ Req(d)' = Req(d)
           /\ calls \in Nat /\ calls' \in Nat /\ calls <= calls'
<1>1. audits \subseteq audits'
  BY DEF Deed, Starts, Prepares, Aborts, Executes, Completes, Publish, Numbering, Proceeds,
         Insert
<1>2. ASSUME NEW x \in Row, NEW k \in Call
      PROVE  /\ Changed(x, k) => Changed(x, k)'
             /\ Changed(x, k)' => \/ Changed(x, k)
                                  \/ Completes(c) /\ x \in write[c] /\ k = cid[c]
  <2>1. CASE Completes(c)
    <3>1. pc[c] # "idle" /\ Publish(c)
      BY <2>1 DEF Completes
    <3>2. Changed(x, k)' <=> Changed(x, k) \/ (x \in write[c] /\ k = cid[c])
      BY <3>1, PublishedChanges
    <3> QED
      BY <2>1, <3>2
  <2>2. CASE ~Completes(c)
    <3>1. UNCHANGED history
      BY <2>2 DEF Deed, Starts, Prepares, Aborts, Executes, Numbering, Proceeds
    <3> QED
      BY <3>1 DEF Changed
  <2> QED
    BY <2>1, <2>2
<1>3. calls \in Nat /\ calls' \in Nat /\ calls <= calls'
  <2>1. calls \in Nat
    BY BoundAssumption DEF TInv, TypeOK
  <2> QED
    BY <2>1 DEF Deed, Starts, Prepares, Aborts, Executes, Completes, Numbering, Proceeds, Calling
<1>4. ASSUME NEW d \in Client \ {c}, cid[d] # 0
      PROVE  outcome'[cid[d]] = outcome[cid[d]] /\ Req(d)' = Req(d)
  <2>1. cid'[d] = cid[d] /\ cid[d] # cid[c] /\ cid[d] \in Call /\ cid[d] \in 1..calls
    BY <1>3, <1>4, BoundAssumption DEF Leaves, CallInv, TInv, TypeOK, Call
  <2>2. args'[cid[d]] = args[cid[d]]
    BY <2>1 DEF Deed, Starts, Prepares, Aborts, Executes, Completes, Numbering, Proceeds, Calling
  <2>3. outcome'[cid[d]] = outcome[cid[d]]
    BY <2>1 DEF Deed, Starts, Prepares, Aborts, Executes, Completes, Numbering, Proceeds, Answers
  <2> QED
    BY <2>1, <2>2, <2>3 DEF Req
<1> QED
  BY <1>1, <1>2, <1>3, <1>4

(* Where the audits go: with a transaction of the store they wait for its  *)
(* commit.                                                                 *)
LEMMA AuditsOfStep ==
    ASSUME TInv, TxInv, CallInv, NEW c \in Client, Leaves(c), Keeps(c), Deed(c)
    PROVE  /\ \A a \in audits' : a \in audits \/ a.call = cid[c]
           /\ \A a \in staged'[c] : a.call = cid'[c]
           /\ Joined /\ ~Completes(c) => UNCHANGED audits
<1>1. \A a \in staged[c] : a.call = cid[c]
  BY DEF CallInv
<1>2. AuditOf(c).call = cid[c]
  BY DEF AuditOf
<1>3. CASE Starts(c)
  <2>1. staged[c] = {} /\ UNCHANGED <<audits, staged>>
    BY <1>3 DEF Starts, TxInv, Fresh
  <2> QED
    BY <2>1
<1>4. CASE Completes(c)
  BY <1>1, <1>4, EndKeeps DEF Completes, Publish
<1>5. CASE Aborts(c)
  BY <1>5, EndKeeps DEF Aborts
<1>6. CASE Insert(c) /\ UNCHANGED cid
  BY <1>1, <1>2, <1>6 DEF Insert, TInv, TypeOK
<1>7. CASE UNCHANGED <<audits, staged, cid>>
  BY <1>1, <1>7
<1> QED
  BY <1>3, <1>4, <1>5, <1>6, <1>7
     DEF Deed, Prepares, Executes, Numbering, Proceeds, Calling

(* No call has been made at first. *)
LEMMA CallInit == Init => CallInv
<1> SUFFICES ASSUME Init PROVE CallInv
  OBVIOUS
<1>1. \A x \in Row : history[x] = <<>>
  BY DEF Init
<1>2. \A x \in Row : \A k : ~Changed(x, k)
  BY <1>1 DEF Changed
<1> QED
  BY <1>2 DEF Init, CallInv

(* No step mixes up the calls. *)
LEMMA CallStep ==
    ASSUME TInv, TxInv, CallInv, NEW c \in Client, Leaves(c), Keeps(c), Deed(c)
    PROVE  CallInv'
<1>0. calls \in Nat /\ calls' \in Nat /\ calls <= calls' /\ Joined' = Joined /\ UNCHANGED setup
  BY DeedFacts, Modes DEF Keeps
<1>1. \/ cid'[c] = cid[c] /\ ~Starts(c)
      \/ cid'[c] = calls' /\ calls' = calls + 1 /\ Starts(c)
  BY DEF Deed, Starts, Prepares, Aborts, Executes, Completes, Numbering, Proceeds, Calling
<1>2. \A d \in Client : cid'[d] <= calls' /\ cid[d] \in Nat /\ cid[d] <= calls
  <2>1. \A d \in Client : cid[d] \in Nat /\ cid[d] <= calls
    BY DEF CallInv, TInv, TypeOK
  <2> QED
    BY <1>0, <1>1, <2>1 DEF Leaves
<1>3. \A d, e \in Client : d # e /\ cid'[d] = cid'[e] => cid'[d] = 0
  BY <1>0, <1>1, <1>2 DEF Leaves, CallInv
<1>4. \A x \in Row : \A k \in Call : Changed(x, k)' => k <= calls'
  <2>1. ASSUME NEW x \in Row, NEW k \in Call, Changed(x, k)'
        PROVE  k <= calls'
    <3>1. Changed(x, k) \/ k = cid[c]
      BY <2>1, DeedFacts
    <3>2. k <= calls
      BY <3>1, <1>2 DEF CallInv
    <3> QED
      BY <1>0, <3>2 DEF Call
  <2> QED
    BY <2>1
<1>5. ASSUME NEW d \in Client, Pending(d)', NEW x \in Row
      PROVE  ~Changed(x, cid[d])'
  <2>1. CASE d # c
    <3>1. pc'[d] = pc[d] /\ Pending(d) /\ pc[d] # "idle"
      BY <1>0, <1>5, <2>1 DEF Keeps, Pending
    <3>2. cid[d] \in Call /\ cid[d] # cid[c] /\ cid'[d] = cid[d]
      BY <2>1, <3>1 DEF CallInv, TInv, Busy, Leaves, Call
    <3>3. ~Changed(x, cid[d])
      BY <3>1 DEF CallInv
    <3>4. \A k \in Call : Changed(x, k)' => Changed(x, k) \/ k = cid[c]
      BY DeedFacts
    <3>5. ~\E i \in DOMAIN history'[x] : history'[x][i] = cid[d]
      BY <3>2, <3>3, <3>4 DEF Changed
    <3> QED
      BY <3>2, <3>5 DEF Changed
  <2>2. CASE d = c /\ Starts(c)
    <3>1. cid'[c] = calls + 1 /\ UNCHANGED history /\ calls + 1 \in Call
      BY <1>0, <2>2, BoundAssumption DEF Starts, Call
    <3>2. ~Changed(x, calls + 1)
      BY <1>0, <3>1 DEF CallInv
    <3> QED
      BY <2>2, <3>1, <3>2 DEF Changed
  <2>3. CASE d = c /\ ~Starts(c)
    <3>1. ~Completes(c) /\ Pending(c) /\ cid'[c] = cid[c] /\ UNCHANGED history
      BY <1>0, <1>1, <1>5, <2>3
         DEF Deed, Prepares, Aborts, Executes, Completes, Numbering, Proceeds, Calling,
             Pending, Writing
    <3>2. ~Changed(x, cid[c])
      BY <3>1 DEF CallInv
    <3> QED
      BY <2>3, <3>1, <3>2 DEF Changed
  <2> QED
    BY <2>1, <2>2, <2>3
<1>6. /\ \A a \in audits' : a.call <= calls'
      /\ \A d \in Client : \A a \in staged'[d] : a.call = cid'[d]
  <2>1. \A a \in audits' : a \in audits \/ a.call = cid[c]
    BY AuditsOfStep
  <2>2. \A a \in audits : a.call \in Nat /\ a.call <= calls
    BY DEF CallInv, TInv, TypeOK, Audit, Call
  <2>3. \A a \in audits' : a.call <= calls'
    BY <1>0, <1>2, <2>1, <2>2
  <2>4. \A d \in Client : \A a \in staged'[d] : a.call = cid'[d]
    BY AuditsOfStep DEF CallInv, Keeps, Leaves
  <2> QED
    BY <2>3, <2>4
<1>7. ASSUME Joined, NEW d \in Client, pc'[d] # "idle", NEW a \in audits'
      PROVE  a.call # cid'[d]
  <2>1. a \in audits \/ a.call = cid[c]
    BY AuditsOfStep
  <2>2. CASE d # c
    <3>1. pc[d] # "idle" /\ cid'[d] = cid[d]
      BY <1>7, <2>2 DEF Keeps, Leaves
    <3>2. cid[d] # cid[c]
      BY <2>2, <3>1 DEF CallInv, TInv, Busy, Call
    <3> QED
      BY <1>7, <2>1, <3>1, <3>2 DEF CallInv
  <2>3. CASE d = c
    <3>1. ~Completes(c)
      BY <1>7, <2>3 DEF Completes, Joined
    <3>2. a \in audits
      BY <1>7, <3>1, AuditsOfStep
    <3>3. CASE Starts(c)
      BY <1>0, <1>1, <2>3, <3>2, <3>3 DEF CallInv, TInv, TypeOK, Audit, Call
    <3>4. CASE ~Starts(c)
      <4>1. pc[c] # "idle" /\ cid'[c] = cid[c]
        BY <1>1, <3>4 DEF Deed, Prepares, Aborts, Executes, Completes, Numbering, Proceeds,
                         Writing
      <4> QED
        BY <1>7, <2>3, <3>2, <4>1 DEF CallInv
    <3> QED
      BY <3>3, <3>4
  <2> QED
    BY <2>2, <2>3
<1>8. \A d, e \in Client : d # e => write'[d] \cap write'[e] = {}
  <2>1. \A d \in Client \ {c} : write'[d] = write[d]
    BY DEF Leaves
  <2>2. \A d \in Client \ {c} : write'[c] \cap write[d] = {}
    <3>1. CASE Executes(c)
      BY <3>1 DEF Executes, Locked
    <3>2. CASE ~Executes(c)
      <4>1. write'[c] = write[c] \/ write'[c] = {}
        BY <3>2, EndKeeps DEF Deed, Starts, Prepares, Aborts, Completes, Publish, Numbering, Proceeds
      <4> QED
        BY <4>1 DEF CallInv
    <3> QED
      BY <3>1, <3>2
  <2> QED
    BY <2>1, <2>2 DEF CallInv
<1> QED
  BY <1>0, <1>2, <1>3, <1>4, <1>5, <1>6, <1>7, <1>8 DEF CallInv

-----------------------------------------------------------------------------
(* Changes and their audits *)

(* The others have seen to the rows they saw to before. *)
LEMMA OthersCover ==
    ASSUME TInv, CallInv, NEW c \in Client, Leaves(c), Keeps(c), Deed(c),
           NEW d \in Client \ {c}, Cover(d)
    PROVE  Cover(d)'
<1>1. /\ pc'[d] = pc[d] /\ cid'[d] = cid[d] /\ snap'[d] = snap[d] /\ todo'[d] = todo[d]
      /\ cur'[d] = cur[d] /\ broken'[d] = broken[d] /\ write'[d] = write[d]
      /\ staged'[d] = staged[d]
      /\ UNCHANGED setup /\ Joined' = Joined /\ reported \subseteq reported'
      /\ audits \subseteq audits'
  BY DeedFacts, Modes DEF Keeps, Leaves
<1>2. SUFFICES ASSUME cid[d] # 0 PROVE Cover(d)'
  <2>1. CASE cid[d] = 0
    <3>1. pc[d] = "idle"
      BY <2>1 DEF TInv, Busy, Call
    <3> QED
      BY <1>1, <2>1, <3>1 DEF Cover, Writing
  <2> QED
    BY <2>1
<1>3. /\ cid[d] \in Call /\ cid[d] # cid[c]
      /\ outcome'[cid[d]] = outcome[cid[d]] /\ Req(d)' = Req(d)
  BY <1>2, DeedFacts DEF CallInv, TInv, TypeOK, Call
<1>4. \A x \in Row : Changed(x, cid[d])' => Changed(x, cid[d])
  <2>1. \A x \in Row : \A k \in Call : k # cid[c] => (Changed(x, k)' => Changed(x, k))
    BY DeedFacts
  <2> QED
    BY <1>1, <1>3, <2>1 DEF Changed
<1>5. Nameable(d)' = Nameable(d)
  BY <1>1, <1>3 DEF Nameable
<1>6. Nameable(d) \subseteq Row
  <2>1. Req(d) \in Request
    BY <1>3 DEF TInv, TypeOK, Req
  <2> QED
    BY <2>1 DEF Nameable, Request
<1>7. \A x : (Covered(d, x) => Covered(d, x)') /\ (AuditedBy(x, cid[d]) => AuditedBy(x, cid[d])')
  BY <1>1 DEF Covered, AuditedBy, PkStr
<1>8. (Lost(d) => Lost(d)') /\ (Excused(d) => Excused(d)') /\ (cid[d] \in reported => cid'[d] \in reported')
      /\ (Blind(d)' => Blind(d))
  BY <1>1, <1>3, <1>5 DEF Lost, Excused, Blind
<1>9. Minds(d) => Minds(d)'
  BY <1>1, <1>4, <1>5, <1>6, <1>7, <1>8 DEF Minds
<1>10. Settled(d) => Settled(d)'
  BY <1>1, <1>3, <1>4, <1>5, <1>6, <1>7, <1>8 DEF Settled
<1> QED
  BY <1>1, <1>2, <1>8, <1>9, <1>10 DEF Cover

(* What does not change while the audits are written. *)
LEMMA SameCall ==
    ASSUME TInv, NEW c \in Client, UNCHANGED setup, UNCHANGED snap, Calling, Keeps(c),
           pc[c] # "idle"
    PROVE  /\ Nameable(c)' = Nameable(c) /\ Nameable(c) \subseteq Row
           /\ cid'[c] = cid[c] /\ cid[c] \in Call /\ cid[c] # 0
           /\ Blind(c)' = Blind(c)
           /\ Excused(c) => Excused(c)'
           /\ Lost(c) /\ (broken[c] => broken'[c]) => Lost(c)'
           /\ cid[c] \in reported => cid'[c] \in reported'
           /\ \A x : PkStr(x)' = PkStr(x)
           /\ Joined' = Joined
<1>1. UNCHANGED <<args, cid>> /\ reported \subseteq reported' /\ Req(c)' = Req(c) /\ Joined' = Joined
  BY DEF Calling, Keeps, Req, Joined
<1>2. Nameable(c)' = Nameable(c)
  BY <1>1 DEF Nameable
<1>3. cid[c] \in Call /\ Req(c) \in Request /\ cid[c] # 0
  BY DEF TInv, TypeOK, Busy, Req, Call
<1>4. Nameable(c) \subseteq Row
  BY <1>3 DEF Nameable, Request
<1> QED
  BY <1>1, <1>2, <1>3, <1>4 DEF Blind, Excused, Lost, PkStr

(* What was rolled back needs no audit. *)
LEMMA AbortCover ==
    ASSUME TInv, CallInv, NEW c \in Client, Keeps(c), Aborts(c)
    PROVE  Cover(c)'
<1>1. pc'[c] = "idle" /\ cid'[c] = cid[c] /\ cid[c] \in Call /\ outcome'[cid[c]] # "ok"
      /\ UNCHANGED <<setup, history>> /\ Joined' = Joined
  BY DEF Aborts, Calling, TInv, Busy, Keeps, Joined
<1>2. Joined => \A x \in Row : ~Changed(x, cid[c])'
  <2>1. Joined => \A x \in Row : ~Changed(x, cid[c])
    BY DEF CallInv, Pending, Joined, Aborts
  <2> QED
    BY <1>1, <2>1 DEF Changed
<1>3. Nameable(c)' \subseteq Row
  <2>1. Req(c)' = Req(c) /\ Req(c) \in Request
    BY <1>1 DEF Aborts, Calling, Req, TInv, TypeOK
  <2> QED
    BY <2>1 DEF Nameable, Request
<1>4. Settled(c)'
  BY <1>1, <1>2, <1>3 DEF Settled
<1> QED
  BY <1>1, <1>4 DEF Cover, Writing

(* The statement leaves an entry for each row it wrote and names. *)
LEMMA ExecuteCover ==
    ASSUME TInv, CallInv, NEW c \in Client, Cover(c), Keeps(c), Executes(c)
    PROVE  Cover(c)'
<1>1. /\ pc[c] = "write" /\ pc'[c] \in {"version", "commit"}
      /\ setup.inTx /\ pc'[c] = "commit" => todo'[c] = {}
      /\ UNCHANGED <<setup, snap, history>> /\ Calling
  BY DEF Executes, Keeps
<1>2. /\ Nameable(c)' = Nameable(c) /\ Nameable(c) \subseteq Row /\ cid'[c] = cid[c]
      /\ Blind(c)' = Blind(c) /\ (Excused(c) => Excused(c)')
  BY <1>1, SameCall
<1>3. Blind(c) => Excused(c)
  BY <1>1 DEF Cover
<1>4. ASSUME NEW x \in Nameable(c), x \in write'[c] \/ Changed(x, cid[c])'
      PROVE  Covered(c, x)' \/ Lost(c)'
  <2>1. ~Changed(x, cid[c])'
    <3>1. ~Changed(x, cid[c])
      BY <1>1, <1>2, <1>4 DEF CallInv, Pending
    <3> QED
      BY <1>1, <1>2, <3>1 DEF Changed
  <2>2. todo'[c] = Entries(c)
    BY <1>4, <2>1 DEF Executes
  <2>3. x \in Req(c).ids
    BY <1>4 DEF Nameable
  <2>4. CASE Unaudited(c)
    <3>1. Blind(c)
      BY <1>4, <2>4 DEF Unaudited, Nameable, Blind
    <3>2. Excused(c)'
      BY <1>2, <1>3, <3>1
    <3> QED
      BY <3>2 DEF Excused, Lost
  <2>5. CASE ~Unaudited(c)
    <3>1. \E e \in Entries(c) : e.row = x
      <4> DEFINE r == Req(c)
                 entry(y) ==
                   [row |-> y,
                    before |-> IF r.op = "create" THEN Nil
                               ELSE IF r.op = "delete" THEN r.val ELSE snap[c],
                    after |-> IF r.op = "delete" THEN Nil ELSE r.val]
      <4>1. Entries(c) = {entry(y) : y \in r.ids}
        BY <2>5 DEF Entries
      <4>2. entry(x).row = x
        OBVIOUS
      <4> HIDE DEF entry
      <4> QED
        BY <2>3, <4>1, <4>2
    <3> QED
      BY <2>2, <3>1 DEF Covered
  <2> QED
    BY <2>4, <2>5
<1>5. Minds(c)'
  BY <1>2, <1>4 DEF Minds
<1> QED
  BY <1>1, <1>2, <1>3, <1>5 DEF Cover

(* The commit makes the staged audits permanent along with the rows. *)
LEMMA CompleteCover ==
    ASSUME TInv, CallInv, NEW c \in Client, Cover(c), Leaves(c), Keeps(c), Completes(c)
    PROVE  Cover(c)'
<1>1. /\ pc[c] = "commit" /\ ~broken[c] /\ audits' = audits \cup staged[c]
      /\ UNCHANGED <<setup, snap>> /\ Calling
  BY DEF Completes, Keeps, Publish
<1>2. /\ Nameable(c)' = Nameable(c) /\ Nameable(c) \subseteq Row
      /\ cid'[c] = cid[c] /\ cid[c] \in Call
      /\ Blind(c)' = Blind(c) /\ (Excused(c) => Excused(c)') /\ Joined' = Joined
      /\ (cid[c] \in reported => cid'[c] \in reported')
      /\ \A x : PkStr(x)' = PkStr(x)
  BY <1>1, SameCall
<1>3. (Blind(c) => Excused(c)) /\ Minds(c) /\ (setup.inTx => todo[c] = {})
  BY <1>1 DEF Cover
<1>4. \A x \in Row : Changed(x, cid[c])' => x \in write[c] \/ Changed(x, cid[c])
  <2>1. \A x \in Row : \A k \in Call :
          Changed(x, k)' => Changed(x, k) \/ (x \in write[c] /\ k = cid[c])
    <3>1. Deed(c)
      BY DEF Deed
    <3> QED
      BY <3>1, DeedFacts
  <2> QED
    BY <1>2, <2>1 DEF Changed
<1>5. \A x \in Nameable(c) : Changed(x, cid[c])' => Covered(c, x) \/ Lost(c)
  BY <1>2, <1>3, <1>4 DEF Minds
<1>6. \A x : Covered(c, x) => AuditedBy(x, cid[c])' \/ \E e \in todo[c] : e.row = x
  BY <1>1, <1>2 DEF Covered, AuditedBy
<1>7. Lost(c) => cid[c] \in reported /\ ~(Joined /\ setup.failOnAuditError)
  BY <1>1 DEF Lost
<1>8. CASE pc'[c] = "version"
  <2>1. ~setup.inTx /\ UNCHANGED <<todo, broken>> /\ write'[c] = {}
    BY <1>8, EndKeeps DEF Completes, Publish
  <2>2. Lost(c) => Lost(c)'
    BY <1>1, <1>2, <2>1, SameCall
  <2>3. \A x : AuditedBy(x, cid[c])' => Covered(c, x)'
    BY <1>2 DEF AuditedBy, Covered
  <2>4. \A x : (\E e \in todo[c] : e.row = x) => Covered(c, x)'
    BY <2>1 DEF Covered
  <2>5. Minds(c)'
    BY <1>2, <1>5, <1>6, <2>1, <2>2, <2>3, <2>4 DEF Minds
  <2> QED
    BY <1>2, <1>3, <1>8, <2>5 DEF Cover
<1>9. CASE pc'[c] = "idle"
  <2>1. outcome'[cid[c]] = "ok" => todo[c] = {}
    BY <1>9 DEF Completes
  <2>2. Joined => todo[c] = {}
    BY <1>3 DEF Joined
  <2>3. Settled(c)'
    BY <1>1, <1>2, <1>5, <1>6, <1>7, <2>1, <2>2 DEF Settled
  <2> QED
    BY <1>9, <2>3 DEF Cover, Writing
<1> QED
  BY <1>8, <1>9 DEF Completes

(* An element taken from the batch becomes the current audit. *)
LEMMA NumberingCover ==
    ASSUME TInv, CallInv, NEW c \in Client, Cover(c), Keeps(c), Leaves(c), Numbering(c)
    PROVE  Cover(c)'
<1>1. /\ pc[c] \in {"version", "insert"} /\ pc'[c] \in {"insert", "save"}
      /\ broken[c] => broken'[c]
      /\ UNCHANGED <<setup, snap, write, audits, staged, history>> /\ Calling
  BY DEF Numbering, Keeps
<1>2. /\ Nameable(c)' = Nameable(c) /\ cid'[c] = cid[c] /\ Blind(c)' = Blind(c)
      /\ (Excused(c) => Excused(c)') /\ (Lost(c) => Lost(c)')
      /\ \A x : PkStr(x)' = PkStr(x)
  BY <1>1, SameCall
<1>3. (Blind(c) => Excused(c)) /\ Minds(c)
  BY <1>1 DEF Cover, Writing
<1>4. \A x : Covered(c, x) => Covered(c, x)'
  BY <1>1, <1>2 DEF Covered, Numbering
<1>5. \A x : Changed(x, cid[c])' <=> Changed(x, cid[c])
  BY <1>1, <1>2 DEF Changed
<1>6. Minds(c)'
  BY <1>1, <1>2, <1>3, <1>4, <1>5 DEF Minds
<1> QED
  BY <1>1, <1>2, <1>3, <1>6 DEF Cover

(* An element is done with when its audit is written or was given up. *)
LEMMA ProceedCover ==
    ASSUME TInv, TxInv, CallInv, NEW c \in Client, Cover(c), Keeps(c), Leaves(c), Proceeds(c)
    PROVE  Cover(c)'
<1>1. /\ pc[c] \in Writing /\ pc[c] # "idle" /\ (broken[c] => broken'[c])
      /\ UNCHANGED <<setup, snap, write, history>> /\ Calling
  BY DEF Proceeds, Keeps, Writing
<1>2. /\ Nameable(c)' = Nameable(c) /\ cid'[c] = cid[c] /\ Blind(c)' = Blind(c)
      /\ (Excused(c) => Excused(c)') /\ (Lost(c) => Lost(c)')
      /\ (\A x : PkStr(x)' = PkStr(x)) /\ Joined' = Joined
  BY <1>1, SameCall
<1>3. (Blind(c) => Excused(c)) /\ Minds(c)
  BY <1>1 DEF Cover, Writing
<1>4. audits \cup staged[c] \subseteq audits' \cup staged'[c]
  BY DEF Proceeds, Insert, TInv, TypeOK
<1>5. Lost(c)' \/ (todo'[c] = todo[c] /\ pc[c] = "save" /\ AuditOf(c) \in audits' \cup staged'[c])
  BY DEF Proceeds, Insert, TInv, TypeOK
<1>6. ASSUME NEW x, Covered(c, x), ~Lost(c)'
      PROVE  \/ \E a \in audits' \cup staged'[c] : a.call = cid[c] /\ a.id = PkStr(x)
             \/ \E e \in todo'[c] : e.row = x
  <2>1. AuditOf(c).call = cid[c] /\ AuditOf(c).id = PkStr(cur[c].row)
    BY DEF AuditOf
  <2>2. CASE \E a \in audits \cup staged[c] : a.call = cid[c] /\ a.id = PkStr(x)
    BY <1>4, <2>2
  <2>3. CASE \E e \in todo[c] : e.row = x
    BY <1>5, <1>6, <2>3
  <2>4. CASE cur[c].row = x
    BY <1>5, <1>6, <2>1, <2>4
  <2> QED
    BY <1>6, <2>2, <2>3, <2>4 DEF Covered
<1>7. \A x : Changed(x, cid[c])' <=> Changed(x, cid[c])
  BY <1>1, <1>2 DEF Changed
<1>8. CASE pc'[c] \in {"version", "commit"}
  <2>1. setup.inTx /\ pc'[c] = "commit" => todo'[c] = {}
    BY <1>8 DEF Proceeds
  <2>2. \A x : Covered(c, x) => Covered(c, x)' \/ Lost(c)'
    BY <1>2, <1>6 DEF Covered
  <2>3. Minds(c)'
    BY <1>1, <1>2, <1>3, <1>7, <2>2 DEF Minds
  <2> QED
    BY <1>1, <1>2, <1>3, <1>8, <2>1, <2>3 DEF Cover
<1>9. CASE pc'[c] = "idle"
  <2>1. ~setup.inTx /\ todo'[c] = {}
    BY <1>9 DEF Proceeds
  <2>2. ~Joined /\ staged'[c] = {}
    <3>1. ~Joined
      BY <2>1 DEF Joined
    <3>2. staged[c] = {}
      BY <3>1 DEF TxInv
    <3> QED
      BY <3>1, <3>2 DEF Proceeds, Insert
  <2>3. \A x : Covered(c, x) => AuditedBy(x, cid[c])' \/ cid'[c] \in reported'
    BY <1>2, <1>6, <2>1, <2>2 DEF AuditedBy, Lost
  <2>4. Lost(c) => cid'[c] \in reported'
    BY <1>2 DEF Lost
  <2>5. Settled(c)'
    BY <1>1, <1>2, <1>3, <1>7, <2>2, <2>3, <2>4 DEF Minds, Settled
  <2> QED
    BY <1>9, <2>5 DEF Cover, Writing
<1> QED
  BY <1>8, <1>9 DEF Proceeds

(* No step loses an audit unnoticed. *)
LEMMA CoverStep ==
    ASSUME TInv, TxInv, CallInv, CoverInv, NEW c \in Client, Leaves(c), Keeps(c), Deed(c)
    PROVE  CoverInv'
<1>1. Cover(c)
  BY DEF CoverInv
<1>2. \A d \in Client \ {c} : Cover(d)'
  BY OthersCover DEF CoverInv
<1>3. Starts(c) \/ Prepares(c) => Cover(c)'
  <2>1. Starts(c) => Cover(c)'
    BY DEF Starts, Cover, Writing
  <2>2. Prepares(c) => Cover(c)'
    BY DEF Prepares, Cover, Writing
  <2> QED
    BY <2>1, <2>2
<1>4. Cover(c)'
  BY <1>1, <1>3, AbortCover, ExecuteCover, CompleteCover, NumberingCover, ProceedCover DEF Deed
<1> QED
  BY <1>2, <1>4 DEF CoverInv

(* An audit in the transaction belongs to a change of it. *)
LEMMA CommitStep ==
    ASSUME TInv, TxInv, CallInv, CommitInv, NEW c \in Client, Leaves(c), Keeps(c), Deed(c)
    PROVE  CommitInv'
<1>1. Joint' = Joint /\ (Joint => Joined /\ setup.store = "gorm" /\ setup.inTx)
  BY Modes DEF Joint, Joined
<1>2. SUFFICES ASSUME Joint PROVE CommitInv'
  BY <1>1 DEF CommitInv
<1>3. \A a \in audits : a.call \in Call
  BY DEF TInv, TypeOK, Audit
<1>4. ASSUME NEW a \in audits' PROVE \E x \in Row : Changed(x, a.call)'
  <2>1. CASE a \in audits
    <3>1. PICK x \in Row : Changed(x, a.call)
      BY <1>2, <2>1 DEF CommitInv
    <3>2. Changed(x, a.call)'
      BY <1>3, <2>1, <3>1, DeedFacts DEF Changed
    <3> QED
      BY <3>2
  <2>2. CASE a \notin audits
    <3>1. Completes(c) /\ a \in staged[c] /\ a.call = cid[c]
      <4>1. Completes(c)
        BY <1>1, <1>2, <2>2, AuditsOfStep
      <4> QED
        BY <2>2, <4>1 DEF Completes, Publish, CallInv
    <3>2. pc[c] # "idle" /\ Publish(c) /\ cid[c] \in Call
      BY <3>1 DEF Completes, TInv, Busy
    <3>3. PICK x \in write[c] : x \in Row
      BY <1>2, <3>1 DEF CommitInv, TInv, TypeOK
    <3>4. Changed(x, cid[c])'
      <4>1. \A k \in Call : k = cid[c] => (\E i \in DOMAIN history'[x] : history'[x][i] = k)
        BY <3>2, <3>3, PublishedChanges DEF Changed
      <4> QED
        BY <3>1, <3>2, <4>1 DEF Changed, Completes, Calling
    <3> QED
      BY <3>1, <3>2, <3>3, <3>4 DEF Changed, Completes, Calling
  <2> QED
    BY <2>1, <2>2
<1>5. ASSUME NEW d \in Client, pc'[d] \in Writing \/ staged'[d] # {}
      PROVE  write'[d] # {}
  <2>1. CASE d # c
    BY <1>2, <1>5, <2>1 DEF CommitInv, Keeps, Leaves
  <2>2. CASE d = c /\ (Aborts(c) \/ Completes(c))
    <3>1. staged'[c] = {} /\ pc'[c] = "idle"
      BY <1>1, <1>2, <2>2, EndKeeps DEF Aborts, Completes, Publish
    <3> QED
      BY <1>5, <2>2, <3>1 DEF Writing
  <2>3. CASE d = c /\ (Starts(c) \/ Prepares(c))
    <3>1. staged'[c] = {} /\ pc'[c] \notin Writing
      BY <2>3 DEF Starts, Prepares, TxInv, Fresh, Writing
    <3> QED
      BY <1>5, <2>3, <3>1
  <2>4. CASE d = c /\ Executes(c)
    <3>1. staged'[c] = {}
      BY <2>4 DEF Executes, TxInv, Fresh
    <3> QED
      BY <1>1, <1>2, <1>5, <2>4, <3>1 DEF Executes, Keeps, Writing
  <2>5. CASE d = c /\ (Numbering(c) \/ Proceeds(c))
    <3>1. pc[c] \in Writing /\ write'[c] = write[c]
      BY <2>5 DEF Numbering, Proceeds, Writing
    <3> QED
      BY <1>2, <2>5, <3>1 DEF CommitInv
  <2> QED
    BY <2>1, <2>2, <2>3, <2>4, <2>5 DEF Deed
<1> QED
  BY <1>1, <1>4, <1>5 DEF CommitInv

-----------------------------------------------------------------------------
(* The order of versions *)

(* An audit of a call that changed x was there before the step, or is one  *)
(* that the step commits together with the change.                         *)
LEMMA AuditsOfChanges ==
    ASSUME TInv, TInv', TxInv, CallInv, Joined,
           NEW c \in Client, Leaves(c), Keeps(c), Deed(c),
           NEW x \in Row, NEW a \in audits', Changed(x, a.call)'
    PROVE  \/ a \in audits /\ a.call # cid[c] /\ Changed(x, a.call)
           \/ a \in audits /\ ~Completes(c) /\ Changed(x, a.call)
           \/ Completes(c) /\ x \in write[c] /\ a \in staged[c] \ audits
<1>1. a.call \in Call
  BY DEF TInv, TypeOK, Audit
<1>2. Changed(x, a.call) \/ (Completes(c) /\ x \in write[c] /\ a.call = cid[c])
  <2>1. \A k \in Call : Changed(x, k)' => \/ Changed(x, k)
                                          \/ Completes(c) /\ x \in write[c] /\ k = cid[c]
    BY DeedFacts
  <2>2. \A k \in Call : k = a.call => \E i \in DOMAIN history'[x] : history'[x][i] = k
    BY DEF Changed
  <2> QED
    BY <1>1, <2>1, <2>2 DEF Changed
<1>3. CASE ~Completes(c)
  <2>1. UNCHANGED audits
    BY <1>3, AuditsOfStep
  <2> QED
    BY <1>2, <1>3, <2>1
<1>4. CASE Completes(c)
  <2>1. pc[c] = "commit" /\ audits' = audits \cup staged[c]
    BY <1>4 DEF Completes, Publish
  <2>2. ~Changed(x, cid[c])
    BY <2>1 DEF CallInv, Pending
  <2>3. \A b \in audits : b.call # cid[c]
    BY <2>1 DEF CallInv
  <2>4. \A b \in staged[c] : b.call = cid[c]
    BY DEF CallInv
  <2>5. CASE a \in audits
    BY <1>2, <2>3, <2>5
  <2>6. CASE a \in staged[c] \ audits
    BY <1>2, <1>4, <2>2, <2>4, <2>6
  <2> QED
    BY <2>1, <2>5, <2>6
<1> QED
  BY <1>3, <1>4

(* The version c gets for a row is beyond the audits there are. *)
LEMMA TakesBeyond ==
    ASSUME TInv, TInv', TxInv, JointInv, Joined, NEW c \in Client, Keeps(c), Kind(c),
           pc[c] # "save", pc'[c] = "save",
           setup.store = "root" => cid[c] \notin reported',
           NEW a \in audits, a.id = CurId(c)'
    PROVE  a.version < cur'[c].version
<1>1. CurId(c)' \in AuditId
  BY Setting, Modes DEF TInv, Busy, CurId, TypeOK, Audit
<1>2. a.version \in Nat
  BY DEF TInv, TypeOK, Audit
<1>3. CASE Takes(c)
  <2>1. a.version <= seq[a.id]
    <3>1. Joint
      BY <1>3, Modes DEF Takes, Sequenced
    <3> QED
      BY <3>1 DEF JointInv
  <2>2. cur'[c].version = seq[a.id] + bump[c][a.id] + 1
    BY <1>3 DEF Takes, Current
  <2>3. seq[a.id] \in Nat /\ bump[c][a.id] \in Nat
    BY <1>1 DEF TInv, TypeOK
  <2> QED
    BY <1>2, <2>1, <2>2, <2>3
<1>4. CASE Reads(c)
  <2>1. cur'[c].version = MaxVersion(c, a.id) + 1
    BY <1>4 DEF Reads
  <2>2. MaxVersion(c, a.id) \in Nat /\ a.version <= MaxVersion(c, a.id)
    BY <1>1, MaxVersionBeyond
  <2> QED
    BY <1>2, <2>1, <2>2
<1> QED
  BY <1>3, <1>4 DEF Kind, Quiet, Undoes, Publishes, Burns, Records

(* Every step keeps what is staged or held beyond the audits of the locked rows. *)
LEMMA OrderStep ==
    ASSUME TInv, TInv', TxInv, JointInv, CallInv, OrderInv,
           NEW c \in Client, Leaves(c), Keeps(c), Kind(c), Deed(c)
    PROVE  OrderInv'
<1>1. Joined' = Joined /\ UNCHANGED setup /\ \A x : PkStr(x)' = PkStr(x)
  BY Modes DEF Keeps, PkStr
<1>2. SUFFICES ASSUME Joined, NEW d \in Client, NEW x \in write'[d], NEW a \in audits',
                      a.id = PkStr(x), Changed(x, a.call)',
                      setup.store = "root" => cid'[d] \notin reported'
               PROVE  /\ \A b \in staged'[d] : b.id = a.id => a.version < b.version
                      /\ HoldsNumber(d)' /\ CurId(d)' = a.id => a.version < cur'[d].version
  BY <1>1 DEF OrderInv
<1>3. x \in Row
  BY DEF TInv, TypeOK
<1>4. \/ a \in audits /\ Changed(x, a.call)
      \/ Completes(c) /\ x \in write[c]
  BY <1>2, <1>3, AuditsOfChanges
<1>5. CASE d # c
  <2>1. /\ write'[d] = write[d] /\ staged'[d] = staged[d] /\ cur'[d] = cur[d]
        /\ cid'[d] = cid[d] /\ reported \subseteq reported'
        /\ HoldsNumber(d)' = HoldsNumber(d) /\ CurId(d)' = CurId(d)
    BY <1>5, OthersHold DEF Keeps, Leaves
  <2>2. x \in write[d] /\ x \notin write[c]
    BY <1>5, <2>1 DEF CallInv
  <2> QED
    BY <1>2, <1>4, <2>1, <2>2 DEF OrderInv
<1>6. CASE d = c /\ (Starts(c) \/ Prepares(c) \/ Aborts(c) \/ Executes(c) \/ Completes(c))
  <2>1. staged'[c] = {} /\ ~HoldsNumber(c)'
    <3>1. Starts(c) \/ Prepares(c) \/ Executes(c) => staged[c] = {} /\ UNCHANGED staged
      BY DEF Starts, Prepares, Executes, TxInv, Fresh
    <3>2. Aborts(c) \/ Completes(c) => staged'[c] = {}
      BY EndKeeps DEF Aborts, Completes, Publish
    <3>3. pc'[c] # "save"
      BY <1>6 DEF Starts, Prepares, Aborts, Executes, Completes
    <3> QED
      BY <1>6, <3>1, <3>2, <3>3 DEF HoldsNumber
  <2> QED
    BY <1>6, <2>1
<1>7. CASE d = c /\ (Numbering(c) \/ Proceeds(c))
  <2>1. /\ write'[c] = write[c] /\ cid'[c] = cid[c] /\ ~Completes(c)
        /\ reported \subseteq reported'
    BY <1>7 DEF Numbering, Proceeds, Completes, Writing, Calling, Keeps
  <2>2. x \in write[c] /\ a \in audits /\ Changed(x, a.call)
    BY <1>4, <1>7, <2>1
  <2>3. setup.store = "root" => cid[c] \notin reported
    BY <1>2, <1>7, <2>1
  <2>4. /\ \A b \in staged[c] : b.id = a.id => a.version < b.version
        /\ HoldsNumber(c) /\ CurId(c) = a.id => a.version < cur[c].version
    BY <1>2, <2>2, <2>3 DEF OrderInv
  <2>5. CASE Numbering(c)
    <3>1. staged'[c] = staged[c] /\ pc[c] # "save"
      BY <2>5 DEF Numbering
    <3>2. HoldsNumber(c)' /\ CurId(c)' = a.id => a.version < cur'[c].version
      BY <1>2, <1>7, <2>1, <2>2, <3>1, TakesBeyond DEF HoldsNumber
    <3> QED
      BY <1>7, <2>4, <3>1, <3>2
  <2>6. CASE Proceeds(c)
    <3>1. pc'[c] # "save"
      BY <2>6 DEF Proceeds
    <3>2. staged'[c] = staged[c] \/ (pc[c] = "save" /\ staged'[c] = staged[c] \cup {AuditOf(c)})
      BY <2>6 DEF Proceeds, Insert, TInv, TypeOK
    <3>3. pc[c] = "save" =>
            HoldsNumber(c) /\ AuditOf(c).id = CurId(c) /\ AuditOf(c).version = cur[c].version
      BY HeldTyped DEF HoldsNumber
    <3> QED
      BY <1>7, <2>4, <3>1, <3>2, <3>3 DEF HoldsNumber
  <2> QED
    BY <1>7, <2>5, <2>6
<1> QED
  BY <1>5, <1>6, <1>7 DEF Deed

(* A commit appends to the histories of the rows it wrote. *)
LEMMA HistoryGrows ==
    ASSUME TInv, CallInv, NEW c \in Client, Deed(c), Keeps(c), Leaves(c), NEW x \in Row
    PROVE  \/ history'[x] = history[x]
           \/ /\ Completes(c) /\ x \in write[c]
              /\ DOMAIN history[x] = 1..Len(history[x]) /\ Len(history[x]) \in Nat
              /\ DOMAIN history'[x] = 1..(Len(history[x]) + 1)
              /\ \A i \in DOMAIN history[x] : history'[x][i] = history[x][i]
              /\ history'[x][Len(history[x]) + 1] = cid[c]
<1>1. CASE Completes(c) /\ x \in write[c]
  <2>1. history[x] \in Seq(Call) /\ cid[c] \in Call
    BY <1>1 DEF TInv, TypeOK, Busy, Completes
  <2>2. history'[x] = Append(history[x], cid[c])
    BY <1>1 DEF Completes, Publish
  <2> QED
    BY <1>1, <2>1, <2>2
<1>2. CASE ~(Completes(c) /\ x \in write[c])
  <2>1. CASE Completes(c)
    BY <1>2, <2>1 DEF Completes, Publish
  <2>2. CASE ~Completes(c)
    BY <2>2 DEF Deed, Starts, Prepares, Aborts, Executes, Numbering, Proceeds
  <2> QED
    BY <2>1, <2>2
<1> QED
  BY <1>1, <1>2

(* The audits a commit adds are beyond those of earlier changes of the row. *)
LEMMA VersionOrderStep ==
    ASSUME TInv, TInv', TxInv, CallInv, OrderInv, VersionOrderIsCommitOrder,
           NEW c \in Client, Leaves(c), Keeps(c), Deed(c)
    PROVE  VersionOrderIsCommitOrder'
<1>1. Joined' = Joined /\ UNCHANGED setup /\ (\A x : PkStr(x)' = PkStr(x))
      /\ reported \subseteq reported'
  BY Modes DEF Keeps, PkStr
<1>2. SUFFICES ASSUME Joined, NEW x \in Row, NEW a \in audits', NEW b \in audits',
                      NEW i \in DOMAIN history'[x], NEW j \in DOMAIN history'[x],
                      a.id = PkStr(x), b.id = PkStr(x),
                      history'[x][i] = a.call, history'[x][j] = b.call,
                      i < j, setup.store = "root" => b.call \notin reported'
               PROVE  a.version < b.version
  BY <1>1 DEF VersionOrderIsCommitOrder
<1>3. Changed(x, a.call)' /\ Changed(x, b.call)'
  BY <1>2 DEF Changed
<1>4. CASE ~(Completes(c) /\ x \in write[c])
  <2>1. history'[x] = history[x]
    BY <1>4, HistoryGrows
  <2>2. a \in audits /\ b \in audits
    BY <1>2, <1>3, <1>4, AuditsOfChanges
  <2> QED
    BY <1>1, <1>2, <2>1, <2>2 DEF VersionOrderIsCommitOrder
<1>5. CASE Completes(c) /\ x \in write[c]
  <2> DEFINE n == Len(history[x])
  <2>1. ~Changed(x, cid[c])
    BY <1>5 DEF Completes, CallInv, Pending
  <2>2. n \in Nat /\ DOMAIN history[x] = 1..n
    BY DEF TInv, TypeOK
  <2>3. \/ history'[x] = history[x]
        \/ /\ DOMAIN history'[x] = 1..(n + 1) /\ history'[x][n + 1] = cid[c]
           /\ \A k \in 1..n : history'[x][k] = history[x][k]
    BY <2>2, HistoryGrows
  <2> HIDE DEF n
  <2>4. \A k \in DOMAIN history'[x] : k \in Nat /\ k \notin 1..n => k = n + 1 /\ history'[x][k] = cid[c]
    BY <2>2, <2>3
  <2>5. i \in 1..n /\ history[x][i] = a.call
    BY <1>2, <2>2, <2>3
  <2>6. Changed(x, a.call) /\ a.call # cid[c]
    BY <2>1, <2>2, <2>5 DEF Changed
  <2>7. a \in audits
    BY <1>2, <1>3, <2>6, AuditsOfChanges DEF CallInv
  <2>8. CASE j \in 1..n
    <3>1. history[x][j] = b.call
      BY <1>2, <2>3, <2>8
    <3>2. Changed(x, b.call) /\ b.call # cid[c]
      BY <2>1, <2>2, <2>8, <3>1 DEF Changed
    <3>3. b \in audits
      BY <1>2, <1>3, <3>2, AuditsOfChanges DEF CallInv
    <3> QED
      BY <1>1, <1>2, <2>2, <2>5, <2>7, <2>8, <3>1, <3>3 DEF VersionOrderIsCommitOrder
  <2>9. CASE j \notin 1..n
    <3>1. b.call = cid[c]
      BY <1>2, <2>2, <2>3, <2>9
    <3>2. b \in staged[c]
      BY <1>2, <1>3, <1>5, <3>1, AuditsOfChanges
    <3>3. setup.store = "root" => cid[c] \notin reported
      BY <1>1, <1>2, <3>1
    <3> QED
      BY <1>2, <1>5, <2>6, <2>7, <3>2, <3>3 DEF OrderInv
  <2> QED
    BY <2>8, <2>9
<1> QED
  BY <1>4, <1>5

-----------------------------------------------------------------------------
(* The theorems *)

CommittedInv ==
    CallInv /\ CoverInv /\ CommitInv /\ OrderInv /\ VersionOrderIsCommitOrder

(* At first nothing is called, written or audited. *)
LEMMA CommittedInit == Init => CommittedInv
<1> SUFFICES ASSUME Init PROVE CommittedInv
  OBVIOUS
<1>1. CallInv
  BY CallInit
<1>2. CoverInv
  BY DEF Init, CoverInv, Cover, Writing
<1>3. CommitInv /\ OrderInv /\ VersionOrderIsCommitOrder
  BY DEF Init, CommitInv, OrderInv, VersionOrderIsCommitOrder, Writing
<1> QED
  BY <1>1, <1>2, <1>3 DEF CommittedInv

(* A step that changes nothing. *)
LEMMA StutterCommitted == CommittedInv /\ UNCHANGED vars => CommittedInv'
<1> SUFFICES ASSUME CommittedInv, UNCHANGED vars PROVE CommittedInv'
  OBVIOUS
<1> USE DEF CommittedInv, vars, txVars, Changed, Joined, PkStr
<1>1. CallInv'
  BY DEF CallInv, Pending
<1>2. CoverInv'
  <2>1. ASSUME NEW c \in Client PROVE Cover(c)'
    <3>1. Cover(c)
      BY DEF CoverInv
    <3>2. /\ Nameable(c)' = Nameable(c) /\ Blind(c)' = Blind(c) /\ Excused(c)' = Excused(c)
          /\ Lost(c)' = Lost(c)
          /\ \A x : Covered(c, x)' = Covered(c, x)
      BY DEF Nameable, Blind, Excused, Lost, Covered, Req
    <3>3. Minds(c)' <=> Minds(c)
      BY <3>2 DEF Minds
    <3>4. Settled(c)' <=> Settled(c)
      BY <3>2 DEF Settled, AuditedBy
    <3> QED
      BY <3>1, <3>2, <3>3, <3>4 DEF Cover
  <2> QED
    BY <2>1 DEF CoverInv
<1>3. CommitInv'
  BY DEF CommitInv, Joint
<1>4. OrderInv'
  BY DEF OrderInv, HoldsNumber, CurId
<1>5. VersionOrderIsCommitOrder'
  BY DEF VersionOrderIsCommitOrder
<1> QED
  BY <1>1, <1>2, <1>3, <1>4, <1>5

(* Every step keeps all of these invariants. *)
LEMMA CommittedStep == IInv /\ CommittedInv /\ [Next]_vars => CommittedInv'
<1> SUFFICES ASSUME IInv, CommittedInv, [Next]_vars PROVE CommittedInv'
  OBVIOUS
<1>1. CASE UNCHANGED vars
  BY <1>1, StutterCommitted
<1>2. CASE Next
  <2>1. TInv /\ TInv' /\ TxInv /\ JointInv
    BY InvariantStep DEF IInv, NumberInv
  <2>2. CallInv /\ CoverInv /\ CommitInv /\ OrderInv /\ VersionOrderIsCommitOrder
    BY DEF CommittedInv
  <2>3. PICK c \in Client :
          (\E r \in setup.requests : Begin(c, r)) \/ Step(c) \/ Failure(c)
    BY <1>2 DEF Next
  <2>4. Keeps(c) /\ Kind(c) /\ Leaves(c) /\ Deed(c)
    BY <2>1, <2>2, <2>3, StepKinds, StepDeeds
  <2>5. CallInv' /\ CoverInv'
    BY <2>1, <2>2, <2>4, CallStep, CoverStep
  <2>6. CommitInv' /\ OrderInv' /\ VersionOrderIsCommitOrder'
    BY <2>1, <2>2, <2>4, CommitStep, OrderStep, VersionOrderStep
  <2> QED
    BY <2>5, <2>6 DEF CommittedInv
<1> QED
  BY <1>1, <1>2

(* They hold in every reachable state. *)
LEMMA Committed == Spec => [](IInv /\ CommittedInv)
<1>1. Init => IInv /\ CommittedInv
  BY InvariantInit, CommittedInit
<1>2. IInv /\ CommittedInv /\ [Next]_vars => (IInv /\ CommittedInv)'
  BY InvariantStep, CommittedStep
<1> QED
  BY <1>1, <1>2, PTL DEF Spec

(* When a statement has returned, Settled says so of the rows it names. *)
LEMMA ReturnedIsSettled ==
    ASSUME CoverInv, NEW c \in Client, NEW x \in Named(c)
    PROVE  Settled(c) /\ x \in Nameable(c)
<1>1. pc[c] = "idle" /\ cid[c] # 0 /\ Named(c) = Nameable(c)
  BY DEF Named, Nameable
<1> QED
  BY <1>1 DEF CoverInv, Cover

(* Every row that a statement changed and names is audited when it returns *)
(* without error, or the loss was reported, whatever the store and wherever *)
(* the callbacks run.                                                      *)
THEOREM NothingIsMissed == Spec => []NoSilentGap
<1>1. CommittedInv => NoSilentGap
  BY ReturnedIsSettled DEF CommittedInv, NoSilentGap, Settled
<1> QED
  BY <1>1, Committed, PTL

(* In the transaction of the statement a change and its audit commit       *)
(* together: no audit without a change, and with FailOnAuditError no       *)
(* change that could be named without its audit.                           *)
THEOREM ChangeCommitsWithAudit == Spec => []AuditedIffCommitted
<1>1. CommittedInv => AuditedIffCommitted
  <2> SUFFICES ASSUME CommittedInv, Joined PROVE AuditedIffCommitted
    BY DEF AuditedIffCommitted
  <2>1. setup.store = "gorm" => \A a \in audits : \E x \in Row : Changed(x, a.call)
    BY DEF CommittedInv, CommitInv, Joint
  <2>2. setup.failOnAuditError =>
          \A c \in Client : \A x \in Named(c) : Changed(x, cid[c]) => AuditedBy(x, cid[c])
    BY ReturnedIsSettled DEF CommittedInv, Settled
  <2> QED
    BY <2>1, <2>2 DEF AuditedIffCommitted
<1> QED
  BY <1>1, Committed, PTL

(* The versions of a row's audits follow the commits of the changes they   *)
(* tell of, when the store shares the transaction of the statement.        *)
THEOREM VersionsFollowCommits == Spec => []VersionOrderIsCommitOrder
<1>1. CommittedInv => VersionOrderIsCommitOrder
  BY DEF CommittedInv
<1> QED
  BY <1>1, Committed, PTL

-----------------------------------------------------------------------------
(* Batches that list their sequences in one order *)

(* The elements of the loop are rows of the statement, and the sequences   *)
(* its transaction has written belong to rows listed before those.         *)
Listed(c) ==
    /\ pc[c] # "idle" => Req(c) \in setup.requests
    /\ pc[c] \in Writing =>
         \A e \in todo[c] :
           /\ e.row \in Req(c).ids
           /\ \A i \in AuditId : bump[c][i] > 0 =>
                \E x \in Req(c).ids :
                  PkStr(x) = i /\ Req(c).place[x] <= Req(c).place[e.row]
ListedInv == Joint => \A c \in Client : Listed(c)

(* What a step of c may do to the sequences its transaction has written. *)
LEMMA BumpOfStep ==
    ASSUME TInv, TxInv, NEW c \in Client, Keeps(c), Kind(c), Joint, pc'[c] # "idle",
           NEW i \in AuditId, bump'[c][i] > 0
    PROVE  bump[c][i] > 0 \/ (Takes(c) /\ i = CurId(c)')
<1>1. CASE UNCHANGED bump
  BY <1>1
<1>2. CASE EndTx(c)
  BY <1>2, EndKeeps DEF NoBump
<1>3. CASE Takes(c)
  <2>1. bump' = [bump EXCEPT ![c][CurId(c)'] = @ + 1]
    BY <1>3 DEF Takes, Take, Joint
  <2> QED
    BY <1>3, <2>1 DEF TInv, TypeOK
<1> QED
  BY <1>1, <1>2, <1>3
     DEF Kind, Quiet, Undoes, Publishes, Publish, Burns, Sequenced, Reads, Records, Joint

(* The loop takes its elements in the order of the slice. *)
LEMMA ListedStep ==
    ASSUME TInv, TxInv, CallInv, CoverInv, NEW c \in Client, Listed(c), Joint,
           (\E r \in setup.requests : Begin(c, r)) \/ Step(c) \/ Failure(c)
    PROVE  Listed(c)'
<1>1. Keeps(c) /\ Kind(c) /\ Leaves(c) /\ Deed(c)
  BY StepKinds, StepDeeds
<1>2. CASE \E r \in setup.requests : Begin(c, r)
  <2>1. PICK r \in setup.requests : Begin(c, r)
    BY <1>2
  <2>2. pc'[c] = "before" /\ UNCHANGED setup
    BY <1>1, <2>1, Control DEF Begin, Keeps
  <2>3. Req(c)' = r
    <3>1. calls + 1 \in Call /\ setup.calls \in 0..MaxCalls
      BY <2>1, Setting, BoundAssumption DEF Begin, TInv, TypeOK, Call
    <3> QED
      BY <2>1, <3>1 DEF Begin, Req, TInv, TypeOK
  <2> QED
    BY <2>2, <2>3 DEF Listed, Writing
<1>3. CASE pc[c] # "idle" /\ (Step(c) \/ Failure(c))
  <2>1. UNCHANGED <<setup, cid, args>>
    BY <1>1, <1>3
       DEF Keeps, Deed, Starts, Prepares, Aborts, Executes, Completes, Numbering, Proceeds,
           Calling
  <2>2. Req(c)' = Req(c) /\ setup' = setup /\ \A x : PkStr(x)' = PkStr(x)
    BY <2>1 DEF Req, PkStr
  <2>3. Req(c) \in setup.requests /\ Req(c) \in Request
    BY <1>3, Setting DEF TInv, Listed
  <2>4. ASSUME pc'[c] \in Writing, NEW e \in todo'[c]
        PROVE  e.row \in Req(c).ids
               /\ \A i \in AuditId : bump'[c][i] > 0 =>
                    \E x \in Req(c).ids :
                      PkStr(x) = i /\ Req(c).place[x] <= Req(c).place[e.row]
    <3>1. pc'[c] # "idle"
      BY <2>4 DEF Writing
    <3>2. CASE Executes(c)
      <4>1. e \in Entries(c) /\ bump[c] = NoBump /\ pc'[c] # "save"
        BY <2>4, <3>2 DEF Executes, TxInv, Fresh
      <4>2. \A i \in AuditId : ~(bump'[c][i] > 0)
        BY <1>1, <3>1, <4>1, BumpOfStep DEF Takes, NoBump
      <4> QED
        BY <4>1, <4>2 DEF Entries
    <3>3. CASE Numbering(c) /\ pc[c] = "version"
      <4>1. PICK f \in Chosen(c) : todo'[c] = todo[c] \ {f} /\ cur'[c].row = f.row
        BY <3>3 DEF Numbering
      <4>2. f \in todo[c] /\ Req(c).place[f.row] <= Req(c).place[e.row]
        BY <2>4, <4>1 DEF Chosen
      <4>3. CurId(c)' = PkStr(f.row)
        BY <2>2, <4>1 DEF CurId
      <4> QED
        BY <1>1, <2>4, <3>1, <3>3, <4>1, <4>2, <4>3, BumpOfStep DEF Listed, Writing
    <3>4. CASE todo'[c] \subseteq todo[c] /\ pc[c] \in Writing /\ ~Takes(c)
      BY <1>1, <2>4, <3>1, <3>4, BumpOfStep DEF Listed
    <3>5. ~Starts(c) /\ ~Prepares(c) /\ ~Aborts(c) /\ ~Completes(c)
      BY <1>3, <2>4 DEF Starts, Prepares, Aborts, Completes, Writing, Joint, Joined
    <3>6. Numbering(c) => pc[c] = "version"
      BY <1>3 DEF Numbering, TInv, Busy, Joint
    <3>7. Proceeds(c) => todo'[c] \subseteq todo[c] /\ pc[c] \in Writing /\ ~Takes(c)
      BY DEF Proceeds, Takes
    <3> QED
      BY <1>1, <3>2, <3>3, <3>4, <3>5, <3>6, <3>7 DEF Deed
  <2> QED
    BY <2>2, <2>3, <2>4 DEF Listed
<1>4. Step(c) \/ Failure(c) => pc[c] # "idle"
  BY StepsUnderway
<1> QED
  BY <1>2, <1>3, <1>4

(* Every step of the specification. *)
LEMMA ListedNext == (IInv /\ CommittedInv) /\ ListedInv /\ [Next]_vars => ListedInv'
<1> SUFFICES ASSUME IInv, CommittedInv, ListedInv, [Next]_vars PROVE ListedInv'
  OBVIOUS
<1>1. CASE UNCHANGED vars
  BY <1>1 DEF ListedInv, Listed, Joint, Joined, Req, PkStr, vars, txVars
<1>2. CASE Next
  <2>1. TInv /\ TxInv /\ CallInv /\ CoverInv
    BY DEF IInv, CommittedInv
  <2>2. PICK c \in Client :
          (\E r \in setup.requests : Begin(c, r)) \/ Step(c) \/ Failure(c)
    BY <1>2 DEF Next
  <2>3. Keeps(c) /\ Leaves(c) /\ Deed(c)
    BY <2>1, <2>2, StepKinds, StepDeeds
  <2>4. SUFFICES ASSUME Joint' PROVE \A d \in Client : Listed(d)'
    BY DEF ListedInv
  <2>5. Joint /\ \A d \in Client : Listed(d)
    BY <2>1, <2>3, <2>4, Modes DEF ListedInv
  <2>6. Listed(c)'
    BY <2>1, <2>2, <2>5, ListedStep
  <2>7. ASSUME NEW d \in Client \ {c} PROVE Listed(d)'
    <3>1. /\ setup' = setup /\ pc'[d] = pc[d] /\ bump'[d] = bump[d] /\ todo'[d] = todo[d]
          /\ \A x : PkStr(x)' = PkStr(x)
      BY <2>3 DEF Keeps, Leaves, PkStr
    <3>2. CASE pc[d] = "idle"
      BY <3>1, <3>2 DEF Listed, Writing
    <3>3. CASE pc[d] # "idle"
      <4>1. cid[d] # 0
        BY <2>1, <3>3 DEF TInv, Busy, Call
      <4>2. Req(d)' = Req(d)
        BY <2>1, <2>3, <4>1, DeedFacts
      <4> QED
        BY <2>5, <3>1, <4>2 DEF Listed
    <3> QED
      BY <3>2, <3>3
  <2> QED
    BY <2>6, <2>7
<1> QED
  BY <1>1, <1>2

(* A set of numbers has a least one. *)
LEMMA Minimum ==
    ASSUME NEW S \in SUBSET Nat, S # {}
    PROVE  \E k \in S : \A m \in S : k <= m
<1> DEFINE R == {p \in Nat \X Nat : p[1] < p[2]}
<1>1. IsWellFoundedOn(R, Nat)
  BY NatLessThanWellFounded DEF OpToRel
<1>2. PICK k \in S : \A m \in S : <<m, k>> \notin R
  BY <1>1, WFMin
<1>3. \A m \in S : ~(m < k)
  BY <1>2
<1> QED
  BY <1>3

(* In a circle of waits take the one who waits for the lowest sequence of  *)
(* the order.  Whoever waits for it in turn waits for a sequence it has    *)
(* written, which the order puts no higher: it is the same, and two        *)
(* transactions would have written it.                                     *)
LEMMA CirclesNeedTwoOrders ==
    ASSUME TInv, JointInv, ListedInv, OneOrder, NEW c \in Client
    PROVE  ~Deadlocked(c)
<1> SUFFICES ASSUME Deadlocked(c) PROVE FALSE
  OBVIOUS
<1>1. PICK S \in SUBSET Client :
        /\ c \in S
        /\ \A x \in S : (\E y \in S : Waits(x, y)) /\ (\E y \in S : Waits(y, x))
  BY DEF Deadlocked
<1>2. PICK rank \in [AuditId -> 1..Cardinality(AuditId)] :
        /\ \A i, j \in AuditId : rank[i] = rank[j] => i = j
        /\ \A r \in setup.requests : InOrder(rank, r)
  BY DEF OneOrder
<1>3. \A i \in AuditId : rank[i] \in Nat
  BY <1>2
<1> DEFINE Wants(x, e) ==
             e \in Chosen(x) /\ \E y \in S : Waits(x, y) /\ bump[y][PkStr(e.row)] > 0
           Ranks == {rank[PkStr(e.row)] : e \in {f \in Entry : \E x \in S : Wants(x, f)}}
<1>4. \A x, y \in S : Waits(x, y) => \E e \in Chosen(x) : bump[y][PkStr(e.row)] > 0
  BY DEF Waits
<1>5. \A x \in S : \A e \in Chosen(x) : e \in todo[x] /\ e \in Entry /\ PkStr(e.row) \in AuditId
  BY ChosenTyped DEF TInv, TypeOK
<1>6. Ranks \in SUBSET Nat /\ Ranks # {}
  <2>1. \E x \in S : \E e \in Entry : Wants(x, e)
    BY <1>1, <1>4, <1>5
  <2>2. \A x \in S : \A e \in Entry : Wants(x, e) => rank[PkStr(e.row)] \in Nat
    BY <1>3, <1>5
  <2> HIDE DEF Wants
  <2> QED
    BY <2>1, <2>2
<1>7. \E x \in S : \E e \in Chosen(x) :
        /\ Wants(x, e)
        /\ \A y \in S : \A f \in Chosen(y) :
             Wants(y, f) => rank[PkStr(e.row)] <= rank[PkStr(f.row)]
  <2>1. PICK k \in Ranks : \A m \in Ranks : k <= m
    <3> HIDE DEF Ranks
    <3> QED
      BY <1>6, Minimum
  <2>2. PICK e \in Entry, x \in S : Wants(x, e) /\ k = rank[PkStr(e.row)]
    BY <2>1
  <2> QED
    BY <2>1, <2>2, <1>5
<1> PICK x \in S : \E e \in Chosen(x) :
       /\ Wants(x, e)
       /\ \A y \in S : \A f \in Chosen(y) :
            Wants(y, f) => rank[PkStr(e.row)] <= rank[PkStr(f.row)]
  BY <1>7
<1> PICK e \in Chosen(x) :
       /\ Wants(x, e)
       /\ \A y \in S : \A f \in Chosen(y) :
            Wants(y, f) => rank[PkStr(e.row)] <= rank[PkStr(f.row)]
  OBVIOUS
<1>8. PICK y \in S : Waits(y, x)
  BY <1>1
<1>9. PICK f \in Chosen(y) : bump[x][PkStr(f.row)] > 0
  BY <1>4, <1>8
<1>10. rank[PkStr(e.row)] <= rank[PkStr(f.row)]
  BY <1>8, <1>9
<1>11. PICK z \in S : Waits(x, z) /\ bump[z][PkStr(e.row)] > 0
  OBVIOUS
<1>12. Joint /\ pc[x] = "version" /\ x # z
  BY <1>11 DEF Waits, Joint
<1>13. rank[PkStr(f.row)] <= rank[PkStr(e.row)]
  <2>1. Listed(x) /\ pc[x] \in Writing /\ pc[x] # "idle"
    BY <1>12 DEF ListedInv, Writing
  <2>2. e \in todo[x] /\ PkStr(f.row) \in AuditId
    BY <1>5
  <2>3. PICK w \in Req(x).ids :
          PkStr(w) = PkStr(f.row) /\ Req(x).place[w] <= Req(x).place[e.row]
    BY <2>1, <2>2, <1>9 DEF Listed
  <2>4. e.row \in Req(x).ids /\ InOrder(rank, Req(x))
    BY <1>2, <2>1, <2>2 DEF Listed
  <2> QED
    BY <2>3, <2>4 DEF InOrder
<1>14. PkStr(f.row) = PkStr(e.row)
  BY <1>2, <1>3, <1>5, <1>10, <1>13
<1>15. bump[x][PkStr(e.row)] > 0 /\ bump[z][PkStr(e.row)] > 0
  BY <1>9, <1>11, <1>14
<1> QED
  BY <1>5, <1>12, <1>15 DEF JointInv

(* Batches that list the sequences they share in one order never deadlock, *)
(* however many there are and whatever fails.                              *)
THEOREM OneOrderIsSafe == Spec => []OneOrderNeverDeadlocks
<1>1. Init => ListedInv
  BY DEF Init, ListedInv, Listed, Writing
<1>2. IInv /\ ListedInv => OneOrderNeverDeadlocks
  BY CirclesNeedTwoOrders DEF IInv, NumberInv, OneOrderNeverDeadlocks
<1> QED
  BY <1>1, <1>2, ListedNext, Committed, PTL DEF Spec

-----------------------------------------------------------------------------
(* Trails that replay their row *)

(* Nobody but c executes a statement. *)
Alone(c) == \A d \in Client \ {c} : pc[d] = "idle"

(* The audits there are when the transaction of c commits, and the row it  *)
(* leaves.                                                                 *)
Visible(c) == audits \cup staged[c]
Final(c, x) == IF x \in write[c] THEN NewContent(Req(c), rows[x]) ELSE rows[x]

(* The elements the call of c has still to audit. *)
Element(c) == [row |-> cur[c].row, before |-> cur[c].before, after |-> cur[c].after]
Ahead(c) ==
    IF pc[c] \in {"version", "commit"} THEN todo[c]
    ELSE IF pc[c] \in {"insert", "save"} THEN todo[c] \cup {Element(c)}
    ELSE {}

(* Rows are locked from the statement to the commit.                       *)
Unlocked(c) == Fresh(c) \/ (~setup.inTx /\ pc[c] \in Writing) => write[c] = {}

(* A call that nothing disturbs has an intact transaction, the snapshot of *)
(* the row it is about to update, and a sequence to insert.                *)
Updates(c) == Req(c).op \in {"update", "save"} /\ ~Req(c).slice
Prepared(c) ==
    /\ pc[c] # "idle" => Req(c) \in setup.requests /\ ~broken[c]
    /\ pc[c] \in {"idle", "before"} \/ ~Refused(Req(c))
    /\ pc[c] = "before" \/ (setup.store = "root" /\ pc[c] # "idle") => snap[c] = Nil
    /\ pc[c] = "write" /\ setup.store # "root" /\ Updates(c) =>
         \A x \in Req(c).ids : snap[c] = rows[x]
    /\ pc[c] = "insert" => seq[CurId(c)] = 0

(* Its elements are those of the statement, each once.                     *)
InLoop(c) ==
    /\ pc[c] # "idle" => Ahead(c) \subseteq Entries(c)
    /\ pc[c] \in {"insert", "save"} => \A e \in todo[c] : e.row # cur[c].row

(* Numbers grow.                                                           *)
Rising(c) ==
    /\ setup.store # "root" => \A a \in Visible(c) : a.version <= Current(c, a.id)
    /\ HoldsNumber(c) =>
         /\ \A a \in Visible(c) : a.id = CurId(c) => a.version < cur[c].version
         /\ setup.store # "root" => cur[c].version <= Current(c, CurId(c))

(* The last audit of a row, unless of a delete, leads to the before image  *)
(* of the element for that row, if there is one, and otherwise to the row. *)
LastOf(c, x, a) ==
    /\ a.id = PkStr(x) /\ a.action # "delete"
    /\ \A b \in Visible(c) : b.id = a.id => b.version <= a.version

LeadsThrough(c, e) ==
    /\ Req(c).op # "delete" => Final(c, e.row) = e.after
    /\ ActionOf(Req(c).op) = "update" /\ e.before # Nil =>
         \A a \in Visible(c) : LastOf(c, e.row, a) => a.after = e.before
LeadsTo(c, x) == \A a \in Visible(c) : LastOf(c, x, a) => Final(c, x) = a.after \/ Final(c, x) = Nil

Leads(c) ==
    setup.store # "root" =>
      /\ \A e \in Ahead(c) : LeadsThrough(c, e)
      /\ \A x \in Row : (\A e \in Ahead(c) : e.row # x) => LeadsTo(c, x)

(* The trail so far is a chain; the plugin of the module root never has a  *)
(* before image.                                                           *)
Linked(a, b) ==
    b.version = a.version + 1 /\ a.action # "delete" /\ b.action = "update" /\ b.before # Nil
      => b.before = a.after
Chained(c) ==
    /\ \A x \in Row : \A a, b \in Visible(c) :
         a.id = PkStr(x) /\ b.id = PkStr(x) => Linked(a, b)
    /\ setup.store = "root" => \A a \in Visible(c) : a.action = "update" => a.before = Nil

Replays(c) == Prepared(c) /\ InLoop(c) /\ Rising(c) /\ Leads(c) /\ Chained(c)

ReplayInv ==
    /\ audits # {} => Client # {}
    /\ Undisturbed => \A c \in Client : Unlocked(c) /\ (Alone(c) => Replays(c))

(* Where the arguments about one step start. *)
Ready(c) ==
    /\ TInv /\ TxInv /\ CoverInv
    /\ Undisturbed /\ Unlocked(c) /\ Replays(c)

(* What is known of a call in progress. *)
LEMMA Underway ==
    ASSUME NEW c \in Client, Ready(c), pc[c] # "idle"
    PROVE  /\ cid[c] \in Call /\ Req(c) \in setup.requests /\ Req(c) \in Request
           /\ Req(c).ids \subseteq Row /\ ~broken[c] /\ ~Refuses(c)
           /\ Req(c).op \in {"create", "update", "save", "delete"}
           /\ ~Req(c).slice /\ Req(c).op # "create" =>
                \A x, y \in Req(c).ids : x = y
           /\ Req(c).val = Nil => Req(c).op \in {"update", "delete"}
           /\ Req(c).op \in {"update", "save"} /\ Req(c).val # Nil =>
                ~Req(c).slice /\ (Req(c).ids # {} \/ ~setup.allowUnauditedBulk)
<1>1. cid[c] \in Call /\ Req(c) \in setup.requests /\ ~broken[c]
  BY DEF Ready, TInv, Busy, Replays, Prepared
<1>2. setup \in Setups /\ setup \in Setup
  BY SetupAssumption DEF Ready, TInv, TypeOK
<1>3. Req(c) \in Request
  BY <1>1, <1>2 DEF Setup
<1>4. ~Refuses(c)
  BY <1>1 DEF Refuses
<1>5. Req(c).ids \subseteq Row /\ Req(c).op \in {"create", "update", "save", "delete"}
  BY <1>3 DEF Request
<1>6. /\ ~Req(c).slice /\ Req(c).op # "create" => \A x, y \in Req(c).ids : x = y
      /\ Req(c).val = Nil => Req(c).op \in {"update", "delete"}
  BY <1>1, <1>2, RequestAssumption
<1>7. Req(c).op \in {"update", "save"} /\ Req(c).val # Nil =>
        ~Req(c).slice /\ (Req(c).ids # {} \/ ~setup.allowUnauditedBulk)
  BY <1>1 DEF Ready, Undisturbed, NamesUpdates
<1> QED
  BY <1>1, <1>3, <1>4, <1>5, <1>6, <1>7

(* The values of an element. *)
LEMMA ElementOfStatement ==
    ASSUME NEW c \in Client, NEW e \in Entries(c)
    PROVE  /\ e.row \in Req(c).ids /\ ~Unaudited(c)
           /\ e.before = IF Req(c).op = "create" THEN Nil
                         ELSE IF Req(c).op = "delete" THEN Req(c).val ELSE snap[c]
           /\ e.after = IF Req(c).op = "delete" THEN Nil ELSE Req(c).val
           /\ \A f \in Entries(c) : f.row = e.row => f = e
BY DEF Entries

(* A step that shows no audit leaves the chain as it is, ... *)
LEMMA SameChain ==
    ASSUME NEW c \in Client, Chained(c), UNCHANGED setup, Visible(c)' = Visible(c)
    PROVE  Chained(c)'
BY DEF Chained, Linked, PkStr

(* ... and one that leaves the elements and the rows, too, leads where the *)
(* trail has led before.                                                   *)
LEMMA SameLead ==
    ASSUME NEW c \in Client, Leads(c), UNCHANGED setup, Visible(c)' = Visible(c),
           Ahead(c)' = Ahead(c), Ahead(c) = {} \/ Req(c)' = Req(c),
           \A x \in Row : Final(c, x)' = Final(c, x),
           \A e \in Ahead(c) : e.row \in Row
    PROVE  Leads(c)'
<1> SUFFICES ASSUME setup.store # "root" PROVE Leads(c)'
  BY DEF Leads
<1>1. \A x, a : LastOf(c, x, a)' <=> LastOf(c, x, a)
  BY DEF LastOf, PkStr
<1>2. ASSUME NEW x \in Row, LeadsTo(c, x) PROVE LeadsTo(c, x)'
  BY <1>1, <1>2 DEF LeadsTo
<1>3. ASSUME NEW e \in Ahead(c), LeadsThrough(c, e), Req(c)' = Req(c)
      PROVE  LeadsThrough(c, e)'
  BY <1>1, <1>3 DEF LeadsThrough
<1> QED
  BY <1>2, <1>3 DEF Leads

(* The numbers of a call that is given none. *)
LEMMA SameNumbers ==
    ASSUME NEW c \in Client, TInv, Rising(c), UNCHANGED setup, Visible(c)' = Visible(c),
           \A i \in AuditId : Current(c, i)' = Current(c, i), pc'[c] # "save"
    PROVE  Rising(c)'
<1>1. \A a \in Visible(c) : a.id \in AuditId
  BY DEF TInv, TypeOK, Visible, Audit
<1> QED
  BY <1>1 DEF Rising, HoldsNumber

(* Before the statement runs, and after the call, nothing is at stake. *)
LEMMA FreshStep ==
    ASSUME NEW c \in Client, Ready(c), Fresh(c), Fresh(c)',
           UNCHANGED <<setup, rows, seq, audits>>,
           write'[c] = {}, bump'[c] = NoBump, staged'[c] = {}
    PROVE  Unlocked(c)' /\ InLoop(c)' /\ Rising(c)' /\ Leads(c)' /\ Chained(c)'
<1>1. write[c] = {} /\ bump[c] = NoBump /\ staged[c] = {}
  BY DEF Ready, Unlocked, TxInv
<1>2. Visible(c)' = Visible(c) /\ \A i \in AuditId : Current(c, i)' = Current(c, i)
  BY <1>1 DEF Visible, Current
<1>3. \A x : Final(c, x)' = Final(c, x)
  BY <1>1 DEF Final
<1>4. Ahead(c) = {} /\ Ahead(c)' = {} /\ pc'[c] # "save"
  BY DEF Fresh, Ahead
<1>5. Chained(c)'
  BY <1>2, SameChain DEF Ready, Replays
<1>6. Leads(c)'
  BY <1>2, <1>3, <1>4, SameLead DEF Ready, Replays
<1>7. Rising(c)'
  BY <1>2, <1>4, SameNumbers DEF Ready, Replays
<1>8. InLoop(c)' /\ Unlocked(c)'
  BY <1>4 DEF InLoop, Fresh, Unlocked
<1> QED
  BY <1>5, <1>6, <1>7, <1>8

(* A call that has returned needs nothing. *)
LEMMA ReturnPrepared ==
    ASSUME NEW c \in Client, pc'[c] = "idle"
    PROVE  Prepared(c)'
BY DEF Prepared

(* The steps of a call that nothing disturbs keep its trail a replay:      *)
(* Begin, ...                                                              *)
LEMMA BeginReplays ==
    ASSUME NEW c \in Client, Ready(c), UNCHANGED setup,
           NEW r \in setup.requests, Begin(c, r)
    PROVE  Unlocked(c)' /\ Replays(c)'
<1>1. pc[c] = "idle" /\ pc'[c] = "before"
  BY Control DEF Begin, Ready
<1>2. /\ UNCHANGED <<rows, seq, audits, write, bump, staged>>
      /\ cid'[c] = calls + 1 /\ args'[calls + 1] = r /\ broken'[c] = FALSE /\ snap'[c] = Nil
  <2>1. calls + 1 \in Call
    BY Setting, BoundAssumption DEF Begin, Ready, TInv, TypeOK, Call
  <2> QED
    BY <2>1 DEF Begin, Ready, TInv, TypeOK
<1>3. write[c] = {} /\ bump[c] = NoBump /\ staged[c] = {}
  BY <1>1 DEF Ready, Unlocked, TxInv, Fresh
<1>4. Unlocked(c)' /\ InLoop(c)' /\ Rising(c)' /\ Leads(c)' /\ Chained(c)'
  BY <1>1, <1>2, <1>3, FreshStep DEF Fresh
<1>5. Prepared(c)'
  BY <1>1, <1>2 DEF Prepared, Req
<1> QED
  BY <1>4, <1>5 DEF Replays

(* ... the callbacks before the statement, ... *)
LEMMA GuardReplays ==
    ASSUME NEW c \in Client, Ready(c), UNCHANGED setup, Guard(c)
    PROVE  Unlocked(c)' /\ Replays(c)'
<1>1. pc[c] = "before" /\ UNCHANGED <<rows, seq, audits, broken, args, cid, snap>>
  BY DEF Guard
<1>2. write[c] = {} /\ bump[c] = NoBump /\ staged[c] = {}
  BY <1>1 DEF Ready, Unlocked, TxInv, Fresh
<1>3. \/ Unguarded(Req(c)) /\ pc'[c] = "write" /\ UNCHANGED <<write, bump, staged>>
      \/ pc'[c] = "idle" /\ EndTx(c)
  BY Control DEF Guard, Ready
<1>4. write'[c] = {} /\ bump'[c] = NoBump /\ staged'[c] = {} /\ Fresh(c)'
  BY <1>2, <1>3, EndKeeps DEF Ready, Fresh
<1>5. Unlocked(c)' /\ InLoop(c)' /\ Rising(c)' /\ Leads(c)' /\ Chained(c)'
  BY <1>1, <1>4, FreshStep DEF Fresh
<1>6. Prepared(c)'
  <2>1. CASE pc'[c] = "idle"
    BY <1>1, <2>1, ReturnPrepared
  <2>2. CASE Unguarded(Req(c)) /\ pc'[c] = "write"
    <3>1. Req(c)' = Req(c) /\ Prepared(c)
      BY <1>1 DEF Req, Ready, Replays
    <3>2. ~Refused(Req(c)) /\ (setup.store = "root" \/ ~Updates(c) \/ Req(c).ids = {})
      BY <2>2 DEF Unguarded, Updates
    <3>3. ~Refused(Req(c))' /\ (Updates(c)' <=> Updates(c))
      BY <3>1, <3>2 DEF Refused, Updates
    <3> QED
      BY <1>1, <2>2, <3>1, <3>2, <3>3 DEF Prepared
  <2> QED
    BY <1>3, <2>1, <2>2
<1> QED
  BY <1>5, <1>6 DEF Replays

(* ... with a snapshot of the row or without, ... *)
LEMMA BeforeUpdateReplays ==
    ASSUME NEW c \in Client, Ready(c), UNCHANGED setup, BeforeUpdate(c)
    PROVE  Unlocked(c)' /\ Replays(c)'
<1> DEFINE same == {y \in Row :
                      rows[y] # Nil /\ \E x \in Req(c).ids : PkStr(x) = PkStr(y)}
           first == CHOOSE y \in same : \A z \in same : y <= z
<1>1. /\ pc[c] = "before" /\ ~Unguarded(Req(c)) /\ ~Refused(Req(c))
      /\ UNCHANGED <<rows, seq, audits, broken, args, cid>>
  BY DEF BeforeUpdate
<1>2. \/ same = {} /\ NoSnapshot(c)
      \/ /\ same # {} /\ snap' = [snap EXCEPT ![c] = rows[first]]
         /\ Goto(c, "write") /\ UNCHANGED <<write, bump, staged>>
  BY DEF BeforeUpdate
<1>3. \/ pc'[c] = "idle" /\ EndTx(c) /\ UNCHANGED snap
      \/ pc'[c] = "write" /\ UNCHANGED <<write, bump, staged>>
  BY <1>2, Control DEF NoSnapshot, Ready
<1>4. write[c] = {} /\ bump[c] = NoBump /\ staged[c] = {}
  BY <1>1 DEF Ready, Unlocked, TxInv, Fresh
<1>5. write'[c] = {} /\ bump'[c] = NoBump /\ staged'[c] = {} /\ Fresh(c)'
  BY <1>3, <1>4, EndKeeps DEF Ready, Fresh
<1>6. Unlocked(c)' /\ InLoop(c)' /\ Rising(c)' /\ Leads(c)' /\ Chained(c)'
  BY <1>1, <1>5, FreshStep DEF Fresh
<1>7. CASE pc'[c] = "idle"
  <2>1. Prepared(c)'
    BY <1>3, <1>7, ReturnPrepared
  <2> QED
    BY <1>6, <2>1 DEF Replays
<1>8. CASE pc'[c] = "write"
  <2>1. /\ setup.store # "root" /\ Req(c).ids # {} /\ ~Req(c).slice
        /\ Req(c).op \in {"update", "save"} /\ snap[c] = Nil /\ ~broken[c]
        /\ Req(c) \in setup.requests /\ Req(c).ids \subseteq Row
    BY <1>1, Underway DEF Unguarded, Ready, Replays, Prepared
  <2>2. PICK x \in Req(c).ids : Req(c).ids = {x}
    BY <1>1, <2>1, Underway
  <2>3. same = IF rows[x] = Nil THEN {} ELSE {x}
    BY <2>1, <2>2 DEF Ready, Undisturbed
  <2>4. snap'[c] = rows[x]
    <3>1. CASE same = {}
      BY <1>2, <2>1, <2>3, <3>1 DEF NoSnapshot
    <3>2. CASE same # {}
      <4>1. first \in same
        <5>1. same \in SUBSET Row
          OBVIOUS
        <5> HIDE DEF same
        <5> QED
          BY <3>2, <5>1, FirstOfRows
      <4>2. snap' = [snap EXCEPT ![c] = rows[first]]
        BY <1>2, <3>2
      <4>3. first = x
        BY <2>3, <4>1
      <4> HIDE DEF first
      <4> QED
        BY <4>2, <4>3 DEF Ready, TInv, TypeOK
    <3> QED
      BY <3>1, <3>2
  <2>5. Req(c)' = Req(c)
    BY <1>1 DEF Req
  <2>6. Refused(Req(c))' <=> Refused(Req(c))
    BY <2>5 DEF Refused
  <2>7. Prepared(c)'
    BY <1>1, <1>8, <2>1, <2>2, <2>4, <2>5, <2>6 DEF Prepared
  <2> QED
    BY <1>6, <2>7 DEF Replays
<1> QED
  BY <1>3, <1>7, <1>8

(* An element for each row the model names. *)
LEMMA EntryOfRow ==
    ASSUME NEW c \in Client, ~Unaudited(c), NEW x \in Req(c).ids
    PROVE  \E e \in Entries(c) : e.row = x
<1> DEFINE r == Req(c)
           entry(y) ==
             [row |-> y,
              before |-> IF r.op = "create" THEN Nil
                         ELSE IF r.op = "delete" THEN r.val ELSE snap[c],
              after |-> IF r.op = "delete" THEN Nil ELSE r.val]
<1>1. Entries(c) = {entry(y) : y \in r.ids}
  BY DEF Entries
<1>2. entry(x).row = x
  OBVIOUS
<1> HIDE DEF entry
<1> QED
  BY <1>1, <1>2

(* What the statement makes of a row it writes, if it is not audited. *)
LEMMA WrittenRow ==
    ASSUME NEW c \in Client, Ready(c), pc[c] = "write", setup.store # "root",
           NEW x \in Targets(Req(c)), \A e \in Entries(c) : e.row # x
    PROVE  NewContent(Req(c), rows[x]) \in {Nil, rows[x]}
<1> DEFINE r == Req(c)
<1>1. r \in Request /\ ~Refused(r)
  BY Underway DEF Ready, Replays, Prepared
<1>2. r.op \in {"create", "update", "save", "delete"} /\ r.match \subseteq Value
  BY <1>1 DEF Request
<1>3. CASE r.op = "delete" \/ r.val = Nil
  BY <1>3 DEF NewContent
<1>4. CASE r.op = "create"
  BY <1>4, EntryOfRow DEF Unaudited, Targets
<1>5. CASE r.op \in {"update", "save"} /\ r.val # Nil
  <2>1. ~r.slice /\ r.ids # {}
    BY <1>1, <1>5, Underway DEF Refused
  <2>2. x \in r.ids /\ rows[x] \in Value
    BY <1>2, <1>5, <2>1 DEF Targets
  <2>3. snap[c] = rows[x]
    BY <1>5, <2>1, <2>2 DEF Ready, Replays, Prepared, Updates
  <2>4. Unaudited(c)
    BY <2>2, EntryOfRow
  <2>5. snap[c] = r.val
    BY <1>5, <2>1, <2>2, <2>3, <2>4, RowAssumption DEF Unaudited
  <2> QED
    BY <1>5, <2>3, <2>5 DEF NewContent
<1> QED
  BY <1>2, <1>3, <1>4, <1>5

(* ... the statement, ... *)
LEMMA WriteReplays ==
    ASSUME NEW c \in Client, Ready(c), UNCHANGED setup, Write(c)
    PROVE  Unlocked(c)' /\ Replays(c)'
<1> DEFINE r == Req(c)
           D == Targets(r)
<1>1. /\ pc[c] = "write" /\ ~broken[c] /\ ~Refused(r)
      /\ UNCHANGED <<rows, seq, audits, broken, args, cid, snap>>
      /\ r' = r
  BY DEF Write, Rollback, Ready, Replays, Prepared, Req
<1>2. write[c] = {} /\ bump[c] = NoBump /\ staged[c] = {} /\ Ahead(c) = {}
  BY <1>1 DEF Ready, Unlocked, TxInv, Fresh, Ahead
<1>3. CASE Rollback(c, "error")
  <2>1. pc'[c] = "idle" /\ EndTx(c)
    BY <1>3, Control DEF Rollback, Ready
  <2>2. write'[c] = {} /\ bump'[c] = NoBump /\ staged'[c] = {}
    BY <2>1, EndKeeps DEF Ready
  <2>3. Unlocked(c)' /\ InLoop(c)' /\ Rising(c)' /\ Leads(c)' /\ Chained(c)'
    BY <1>1, <2>1, <2>2, FreshStep DEF Fresh
  <2>4. Prepared(c)'
    BY <2>1, ReturnPrepared
  <2> QED
    BY <2>3, <2>4 DEF Replays
<1>4. CASE ~Rollback(c, "error")
  <2>1. /\ write' = [write EXCEPT ![c] = D]
        /\ todo' = [todo EXCEPT ![c] = IF D = {} /\ setup.store # "root"
                                         THEN {} ELSE Entries(c)]
        /\ IF setup.inTx /\ todo'[c] # {} THEN Goto(c, "version") ELSE Goto(c, "commit")
        /\ UNCHANGED <<bump, staged>>
    BY <1>4 DEF Write
  <2> HIDE DEF D
  <2>2. /\ write'[c] = D
        /\ todo'[c] = IF D = {} /\ setup.store # "root" THEN {} ELSE Entries(c)
    BY <2>1 DEF Ready, TInv, TypeOK
  <2>3. (pc'[c] = "version" /\ setup.inTx) \/ pc'[c] = "commit"
    BY <2>1, Control DEF Ready
  <2>4. Visible(c)' = Visible(c) /\ Ahead(c)' = todo'[c] /\ Entries(c)' = Entries(c)
        /\ \A i \in AuditId : Current(c, i)' = Current(c, i)
    BY <1>1, <2>1, <2>3 DEF Visible, Ahead, Entries, Unaudited, Current
  <2>5. Unlocked(c)'
    BY <2>3 DEF Unlocked, Fresh, Writing
  <2>6. Prepared(c)'
    <3>1. Refused(r)' <=> Refused(r)
      BY <1>1 DEF Refused
    <3> QED
      BY <1>1, <2>3, <3>1 DEF Ready, Replays, Prepared
  <2>7. InLoop(c)'
    BY <2>2, <2>3, <2>4 DEF InLoop
  <2>8. Rising(c)' /\ Chained(c)'
    BY <2>3, <2>4, SameNumbers, SameChain DEF Ready, Replays
  <2>9. Leads(c)'
    <3> SUFFICES ASSUME setup.store # "root" PROVE Leads(c)'
      BY DEF Leads
    <3>1. \A x \in Row : LeadsTo(c, x)
      BY <1>2 DEF Ready, Replays, Leads
    <3>2. \A x \in Row : /\ Final(c, x) = rows[x]
                         /\ Final(c, x)' = IF x \in D THEN NewContent(r, rows[x]) ELSE rows[x]
      BY <1>1, <1>2, <2>2 DEF Final, NewContent
    <3>3. \A x, a : LastOf(c, x, a)' <=> LastOf(c, x, a)
      BY <2>4 DEF LastOf, PkStr
    <3>4. ASSUME NEW e \in todo'[c] PROVE LeadsThrough(c, e)'
      <4>1. D # {} /\ e \in Entries(c)
        BY <2>2, <3>4
      <4>2. /\ e.row \in r.ids /\ e.row \in Row /\ ~Unaudited(c)
            /\ r.op \in {"create", "update", "save", "delete"}
            /\ ~r.slice /\ r.op # "create" => \A x, y \in r.ids : x = y
            /\ r.val = Nil => r.op \in {"update", "delete"}
        BY <1>1, <4>1, ElementOfStatement, Underway
      <4>3. r.op # "delete" => e.after = r.val /\ r.val # Nil
        BY <4>1, <4>2, ElementOfStatement DEF Unaudited
      <4>4. r.op # "delete" => e.row \in D
        <5>1. CASE r.op = "create"
          BY <4>2, <5>1 DEF D, Targets
        <5>2. CASE r.op \in {"update", "save"}
          BY <4>1, <4>2, <5>2 DEF D, Targets, Unaudited
        <5> QED
          BY <4>2, <5>1, <5>2
      <4>5. r.op # "delete" => Final(c, e.row)' = e.after
        BY <3>2, <4>2, <4>3, <4>4 DEF NewContent
      <4>6. ActionOf(r.op) = "update" => e.before = rows[e.row]
        <5>1. SUFFICES ASSUME ActionOf(r.op) = "update" PROVE e.before = rows[e.row]
          OBVIOUS
        <5>2. r.op \in {"update", "save"} /\ ~r.slice
          BY <4>2, <5>1 DEF ActionOf, Unaudited
        <5>3. e.before = snap[c]
          BY <4>1, <5>2, ElementOfStatement
        <5> QED
          BY <1>1, <4>2, <5>2, <5>3 DEF Ready, Replays, Prepared, Updates
      <4>7. \A a \in Visible(c) : LastOf(c, e.row, a) => rows[e.row] \in {a.after, Nil}
        BY <3>1, <3>2, <4>2 DEF LeadsTo
      <4> QED
        BY <1>1, <2>4, <3>3, <4>5, <4>6, <4>7 DEF LeadsThrough, ActionOf
    <3>5. ASSUME NEW x \in Row, \A e \in todo'[c] : e.row # x PROVE LeadsTo(c, x)'
      <4>1. Final(c, x)' \in {Nil, rows[x]}
        BY <1>1, <2>2, <3>2, <3>5, WrittenRow DEF D
      <4> QED
        BY <2>4, <3>1, <3>2, <3>3, <3>5, <4>1 DEF LeadsTo
    <3> QED
      BY <2>4, <3>4, <3>5 DEF Leads
  <2> QED
    BY <2>5, <2>6, <2>7, <2>8, <2>9 DEF Replays
<1> QED
  BY <1>3, <1>4

(* ... its commit, ... *)
LEMMA CommitReplays ==
    ASSUME NEW c \in Client, Ready(c), UNCHANGED setup, Commit(c)
    PROVE  Unlocked(c)' /\ Replays(c)'
<1>1. /\ pc[c] = "commit" /\ ~broken[c] /\ Publish(c)
      /\ UNCHANGED <<broken, args, cid, snap, todo>>
      /\ Req(c)' = Req(c)
  BY DEF Commit, Ready, Replays, Prepared, Req
<1>2. pc'[c] = "version" \/ (pc'[c] = "idle" /\ todo[c] = {})
  <2>1. setup.inTx => todo[c] = {}
    BY <1>1 DEF Ready, CoverInv, Cover
  <2> QED
    BY <1>1, <2>1, Control DEF Commit, Ready
<1>3. write'[c] = {} /\ bump'[c] = NoBump /\ staged'[c] = {}
  BY <1>1, EndKeeps DEF Publish, Ready
<1>4. Visible(c)' = Visible(c)
  BY <1>1, <1>3 DEF Publish, Visible
<1>5. \A i \in AuditId : Current(c, i)' = Current(c, i)
  <2>1. ASSUME NEW i \in AuditId PROVE Current(c, i)' = Current(c, i)
    <3>1. seq'[i] = seq[i] + bump[c][i] /\ bump'[c][i] = 0
      BY <1>1, <1>3 DEF Publish, NoBump
    <3>2. seq[i] \in Nat /\ bump[c][i] \in Nat
      BY DEF Ready, TInv, TypeOK
    <3> QED
      BY <3>1, <3>2 DEF Current
  <2> QED
    BY <2>1
<1>6. \A x \in Row : Final(c, x)' = Final(c, x)
  BY <1>1, <1>3 DEF Publish, Final
<1>7. Ahead(c) = todo[c] /\ Ahead(c)' = todo[c] /\ \A e \in todo[c] : e.row \in Row
  BY <1>1, <1>2 DEF Ahead, Ready, TInv, TypeOK, Entry
<1>8. Rising(c)' /\ Chained(c)' /\ Leads(c)'
  BY <1>1, <1>2, <1>4, <1>5, <1>6, <1>7, SameNumbers, SameChain, SameLead
     DEF Ready, Replays
<1>9. InLoop(c)'
  <2>1. Entries(c)' = Entries(c)
    BY <1>1 DEF Entries, Unaudited
  <2> QED
    BY <1>1, <1>2, <1>7, <2>1 DEF InLoop, Ready, Replays
<1>10. Prepared(c)' /\ Unlocked(c)'
  <2>1. Refused(Req(c))' <=> Refused(Req(c))
    BY <1>1 DEF Refused
  <2> QED
    BY <1>1, <1>2, <1>3, <2>1 DEF Prepared, Unlocked, Ready, Replays
<1> QED
  BY <1>8, <1>9, <1>10 DEF Replays

(* An element is given a number, or waits for one. *)
LEMMA TurnReplays ==
    ASSUME NEW c \in Client, Ready(c), pc[c] = "version", pc'[c] \in {"insert", "save"},
           UNCHANGED <<setup, rows, audits, write, staged, broken, args, cid, snap>>,
           NEW e \in Chosen(c), NEW n \in Nat,
           cur' = [cur EXCEPT ![c] = Numbered(e, n)],
           todo' = [todo EXCEPT ![c] = @ \ {e}],
           pc'[c] = "insert" => seq'[PkStr(e.row)] = 0,
           Rising(c)'
    PROVE  Unlocked(c)' /\ Replays(c)'
<1>1. /\ e \in todo[c] /\ todo[c] \subseteq Entry
      /\ cur'[c] = Numbered(e, n) /\ todo'[c] = todo[c] \ {e}
  BY ChosenTyped DEF Ready, TInv, TypeOK
<1>2. Element(c)' = e /\ cur'[c].row = e.row
  BY <1>1 DEF Element, Numbered, Entry
<1>3. Ahead(c) = todo[c] /\ Ahead(c)' = todo[c]
  BY <1>1, <1>2 DEF Ahead
<1>4. /\ Req(c)' = Req(c) /\ Visible(c)' = Visible(c) /\ Entries(c)' = Entries(c)
      /\ \A x \in Row : Final(c, x)' = Final(c, x)
  BY DEF Req, Visible, Entries, Unaudited, Final, NewContent
<1>5. Chained(c)' /\ Leads(c)'
  BY <1>1, <1>3, <1>4, SameChain, SameLead DEF Entry, Ready, Replays
<1>6. InLoop(c)'
  <2>1. todo[c] \subseteq Entries(c)
    BY <1>3 DEF InLoop, Ready, Replays
  <2>2. \A f \in todo'[c] : f.row # e.row
    BY <1>1, <2>1, ElementOfStatement
  <2> QED
    BY <1>2, <1>3, <1>4, <2>1, <2>2 DEF InLoop
<1>7. Prepared(c)'
  <2>1. Refused(Req(c))' <=> Refused(Req(c))
    BY <1>4 DEF Refused
  <2>2. CurId(c)' = PkStr(e.row)
    BY <1>2 DEF CurId, PkStr
  <2> QED
    BY <1>4, <2>1, <2>2 DEF Prepared, Ready, Replays
<1>8. Unlocked(c)'
  BY DEF Unlocked, Fresh, Writing, Ready
<1> QED
  BY <1>5, <1>6, <1>7, <1>8 DEF Replays

(* ... the next number, ... *)
LEMMA NextVersionReplays ==
    ASSUME NEW c \in Client, Ready(c), UNCHANGED setup, NextVersion(c)
    PROVE  Unlocked(c)' /\ Replays(c)'
<1>1. /\ pc[c] = "version" /\ setup.store # "root" /\ ~Refuses(c)
      /\ UNCHANGED <<setup, rows, audits, write, staged, args, cid, snap>>
  BY Underway DEF NextVersion
<1>2. PICK e \in Chosen(c) :
        LET i == PkStr(e.row)
            waits == setup.store = "mongo" /\ seq[i] = 0
        IN /\ todo' = [todo EXCEPT ![c] = @ \ {e}]
           /\ cur' = [cur EXCEPT ![c] = Numbered(e, IF waits THEN 0 ELSE Current(c, i) + 1)]
           /\ IF waits THEN Goto(c, "insert") /\ UNCHANGED <<seq, bump>>
                       ELSE Goto(c, "save") /\ Take(c, i)
           /\ UNCHANGED <<broken, reported>>
  BY <1>1 DEF NextVersion
<1> DEFINE i == PkStr(e.row)
<1>3. i \in AuditId /\ \A j \in AuditId : seq[j] \in Nat /\ bump[c][j] \in Nat
  BY ChosenTyped DEF Ready, TInv, TypeOK
<1>4. /\ Visible(c)' = Visible(c)
      /\ \A a \in Visible(c) : a.id \in AuditId /\ a.version \in Nat
      /\ \A a \in Visible(c) : a.version <= Current(c, a.id)
      /\ \A j \in AuditId : Current(c, j) \in Nat
  BY <1>1, <1>3 DEF Visible, Current, Ready, Replays, Rising, TInv, TypeOK, Audit
<1>5. CASE setup.store = "mongo" /\ seq[i] = 0
  <2> DEFINE n == 0
  <2>1. pc'[c] = "insert" /\ UNCHANGED <<seq, bump>>
        /\ cur' = [cur EXCEPT ![c] = Numbered(e, 0)]
    BY <1>2, <1>5, Control DEF Ready
  <2>2. Rising(c)'
    <3>1. \A j \in AuditId : Current(c, j)' = Current(c, j)
      BY <2>1 DEF Current
    <3> QED
      BY <1>4, <2>1, <3>1, SameNumbers DEF Ready, Replays
  <2>3. seq'[PkStr(e.row)] = 0 /\ todo' = [todo EXCEPT ![c] = @ \ {e}] /\ UNCHANGED broken
    BY <1>2, <1>5, <2>1
  <2>4. n \in Nat /\ cur' = [cur EXCEPT ![c] = Numbered(e, n)]
    BY <2>1
  <2> HIDE DEF i, n
  <2> QED
    BY <1>1, <2>1, <2>2, <2>3, <2>4, TurnReplays
<1>6. CASE ~(setup.store = "mongo" /\ seq[i] = 0)
  <2> DEFINE n == Current(c, i) + 1
  <2>0. /\ Goto(c, "save") /\ Take(c, i) /\ cur' = [cur EXCEPT ![c] = Numbered(e, n)]
        /\ todo' = [todo EXCEPT ![c] = @ \ {e}] /\ UNCHANGED broken
    BY <1>2, <1>6
  <2> HIDE DEF i
  <2>1. pc'[c] = "save" /\ n \in Nat
    BY <1>3, <1>4, <2>0, Control DEF Ready
  <2>2. \A j \in AuditId :
          Current(c, j)' = IF j = i THEN Current(c, j) + 1 ELSE Current(c, j)
    <3>1. /\ seq \in [AuditId -> Nat] /\ bump \in [Client -> [AuditId -> Nat]]
      BY DEF Ready, TInv, TypeOK
    <3>2. CASE Joined
      <4>1. UNCHANGED seq /\ bump'[c] = [bump[c] EXCEPT ![i] = @ + 1]
        BY <2>0, <3>1, <3>2 DEF Take
      <4>2. \A j \in AuditId : bump'[c][j] = IF j = i THEN bump[c][j] + 1 ELSE bump[c][j]
        BY <3>1, <4>1
      <4> QED
        BY <1>3, <4>1, <4>2 DEF Current
    <3>3. CASE ~Joined
      <4>1. UNCHANGED bump /\ seq' = [seq EXCEPT ![i] = @ + 1]
        BY <2>0, <3>3 DEF Take
      <4>2. \A j \in AuditId : seq'[j] = IF j = i THEN seq[j] + 1 ELSE seq[j]
        BY <3>1, <4>1
      <4> QED
        BY <1>3, <4>1, <4>2 DEF Current
    <3> QED
      BY <3>2, <3>3
  <2>3. cur'[c].version = n /\ CurId(c)' = i
    BY <1>1, <2>0, NumberedKeeps DEF CurId, PkStr, Ready, i
  <2>4. \A a \in Visible(c) : a.version <= Current(c, a.id)'
    BY <1>4, <2>2
  <2>5. \A a \in Visible(c) : a.id = i => a.version < n
    BY <1>3, <1>4
  <2>6. \A j \in AuditId : j = i => n <= Current(c, j)'
    BY <1>3, <1>4, <2>2
  <2>7. Rising(c)'
    <3> HIDE DEF n
    <3>1. \A a \in Visible(c)' : a.version <= Current(c, a.id)'
      BY <1>4, <2>4
    <3>2. \A a \in Visible(c)' : a.id = CurId(c)' => a.version < cur'[c].version
      BY <1>4, <2>3, <2>5
    <3>3. cur'[c].version <= Current(c, CurId(c))'
      BY <1>3, <2>3, <2>6 DEF Current
    <3> QED
      BY <3>1, <3>2, <3>3 DEF Rising
  <2> HIDE DEF n
  <2> QED
    BY <1>1, <2>0, <2>1, <2>7, TurnReplays
<1> QED
  BY <1>5, <1>6

(* ... be it from a sequence or the highest there is, ... *)
LEMMA ReadMaxReplays ==
    ASSUME NEW c \in Client, Ready(c), UNCHANGED setup, ReadMax(c)
    PROVE  Unlocked(c)' /\ Replays(c)'
<1>1. /\ pc[c] = "version" /\ setup.store = "root" /\ pc'[c] = "save"
      /\ UNCHANGED <<setup, rows, audits, write, staged, broken, args, cid, snap>>
  BY Control DEF ReadMax, txVars, Ready
<1>2. PICK e \in Chosen(c) :
        /\ todo' = [todo EXCEPT ![c] = @ \ {e}]
        /\ cur' = [cur EXCEPT ![c] = Numbered(e, MaxVersion(c, PkStr(e.row)) + 1)]
  BY DEF ReadMax
<1> DEFINE i == PkStr(e.row)
           n == MaxVersion(c, i) + 1
<1>3. i \in AuditId
  BY ChosenTyped DEF Ready
<1>4. n \in Nat /\ \A a \in audits \cup staged[c] : a.id = i => a.version < n
  <2>1. \A a \in audits \cup staged[c] : a.version \in Nat
    BY DEF Ready, TInv, TypeOK, Audit
  <2> QED
    BY <1>3, <2>1, MaxVersionBeyond DEF Ready
<1>5. cur' = [cur EXCEPT ![c] = Numbered(e, n)]
  BY <1>2
<1> HIDE DEF n, i
<1>6. cur'[c].version = n /\ CurId(c)' = i
  BY <1>1, <1>5, NumberedKeeps DEF CurId, PkStr, Ready, i
<1>7. Rising(c)'
  BY <1>1, <1>4, <1>6 DEF Rising, Visible
<1> QED
  BY <1>1, <1>2, <1>4, <1>5, <1>7, TurnReplays

(* ... or the first of a sequence, ... *)
LEMMA InsertVersionReplays ==
    ASSUME NEW c \in Client, Ready(c), UNCHANGED setup, InsertVersion(c)
    PROVE  Unlocked(c)' /\ Replays(c)'
<1> DEFINE i == CurId(c)
<1>1. /\ pc[c] = "insert" /\ seq[i] = 0 /\ setup.store = "mongo" /\ cur[c].row \in Row
      /\ UNCHANGED <<rows, audits, write, bump, staged, args, cid, snap>>
  BY DEF InsertVersion, Ready, Replays, Prepared, TInv, Busy
<1>2. /\ seq' = [seq EXCEPT ![i] = 1] /\ cur' = [cur EXCEPT ![c].version = 1]
      /\ pc'[c] = "save" /\ UNCHANGED <<broken, todo>>
  BY <1>1, Control DEF InsertVersion, CurId, Ready
<1>3. /\ cur'[c].row = cur[c].row /\ cur'[c].before = cur[c].before
      /\ cur'[c].after = cur[c].after /\ cur'[c].version = 1
  BY <1>2 DEF Ready, TInv, TypeOK
<1>4. i \in AuditId
  BY <1>1, Setting DEF CurId, Ready, TInv
<1>5. \A j \in AuditId : Current(c, j) = seq[j] /\ Current(c, j)' = IF j = i THEN 1 ELSE seq[j]
  <2>1. bump[c] = NoBump
    BY <1>1 DEF Joined, Ready, TxInv
  <2>2. \A j \in AuditId : bump[c][j] = 0 /\ seq[j] \in Nat
    BY <2>1 DEF NoBump, Ready, TInv, TypeOK
  <2>3. \A j \in AuditId : seq'[j] = IF j = i THEN 1 ELSE seq[j]
    BY <1>2, <1>4 DEF Ready, TInv, TypeOK
  <2> HIDE DEF i
  <2> QED
    BY <1>1, <2>2, <2>3 DEF Current
<1>6. /\ Req(c)' = Req(c) /\ Visible(c)' = Visible(c) /\ Entries(c)' = Entries(c)
      /\ (\A x \in Row : Final(c, x)' = Final(c, x))
      /\ CurId(c)' = i /\ Element(c)' = Element(c)
  BY <1>1, <1>3 DEF Req, Visible, Entries, Unaudited, Final, NewContent, CurId, PkStr, Element
<1>7. Ahead(c)' = Ahead(c)
  BY <1>1, <1>2, <1>6 DEF Ahead
<1>8. Ahead(c) \subseteq Entries(c) /\ \A e \in Ahead(c) : e.row \in Row
  <2>1. Ahead(c) \subseteq Entries(c)
    BY <1>1 DEF InLoop, Ready, Replays
  <2>2. Req(c).ids \subseteq Row
    BY <1>1, Underway
  <2> QED
    BY <2>1, <2>2, ElementOfStatement
<1>9. Chained(c)' /\ Leads(c)'
  BY <1>6, <1>7, <1>8, SameChain, SameLead DEF Ready, Replays
<1>10. InLoop(c)'
  BY <1>1, <1>2, <1>3, <1>6, <1>7, <1>8 DEF InLoop, Ready, Replays
<1>11. Rising(c)'
  <2>1. \A a \in Visible(c) : a.id \in AuditId /\ a.version \in Nat
                              /\ a.version <= Current(c, a.id)
    BY <1>1 DEF Visible, Ready, Replays, Rising, TInv, TypeOK, Audit
  <2> HIDE DEF i
  <2>2. \A a \in Visible(c) : IF a.id = i THEN a.version < 1
                                          ELSE a.version <= Current(c, a.id)'
    BY <1>1, <1>5, <2>1
  <2>3. \A a \in Visible(c)' : a.version <= Current(c, a.id)'
    BY <1>4, <1>5, <1>6, <2>1, <2>2
  <2>4. \A a \in Visible(c)' : a.id = CurId(c)' => a.version < cur'[c].version
    BY <1>3, <1>6, <2>2
  <2>5. cur'[c].version <= Current(c, CurId(c))'
    <3>1. \A j \in AuditId : j = i => cur'[c].version <= Current(c, j)'
      BY <1>3, <1>5
    <3> QED
      BY <1>4, <1>6, <3>1 DEF Current
  <2> QED
    BY <2>3, <2>4, <2>5 DEF Rising
<1>12. Prepared(c)' /\ Unlocked(c)'
  <2>1. Refused(Req(c))' <=> Refused(Req(c))
    BY <1>6 DEF Refused
  <2> QED
    BY <1>1, <1>2, <1>6, <2>1 DEF Prepared, Unlocked, Fresh, Writing, Ready, Replays
<1> QED
  BY <1>9, <1>10, <1>11, <1>12 DEF Replays

(* ... and the audit of an element. *)
LEMMA SaveReplays ==
    ASSUME NEW c \in Client, Ready(c), UNCHANGED setup, Save(c)
    PROVE  Unlocked(c)' /\ Replays(c)'
<1>0. PICK n, E : n = AuditOf(c) /\ E = Element(c)
  OBVIOUS
<1>1. /\ pc[c] = "save" /\ Insert(c) /\ NextEntry(c)
      /\ UNCHANGED <<rows, seq, write, bump, broken, args, cid, snap, cur, todo>>
  BY DEF Save
<1>2. \/ pc'[c] \in {"version", "commit"}
      \/ pc'[c] = "idle" /\ ~setup.inTx /\ todo[c] = {}
  BY <1>1, Outcomes DEF Outcome, Ready
<1>3. pc'[c] = "commit" => setup.inTx
  BY <1>1, Outcomes DEF Outcome, Ready
<1>4. Visible(c)' = Visible(c) \cup {n}
  BY <1>0, <1>1 DEF Insert, Visible, Ready, TInv, TypeOK
<1>5. /\ n.id = CurId(c) /\ n.version = cur[c].version /\ n.action = ActionOf(Req(c).op)
      /\ n.before = E.before /\ n.after = E.after /\ E.row = cur[c].row
      /\ E.row \in Row /\ CurId(c) = PkStr(E.row)
      /\ n.version \in Nat /\ CurId(c) \in AuditId
  BY <1>0, <1>1, HeldTyped DEF AuditOf, Element, CurId, HoldsNumber, Ready, TInv, Busy
<1>6. \A a \in Visible(c) : a.version \in Nat /\ (a.id = n.id => a.version < n.version)
  BY <1>1, <1>5 DEF Ready, Replays, Rising, HoldsNumber, Visible, TInv, TypeOK, Audit
<1>7. /\ Ahead(c) = todo[c] \cup {E} /\ Ahead(c)' = todo[c]
      /\ \A e \in todo[c] : e.row # E.row
  BY <1>0, <1>1, <1>2, <1>5 DEF Ahead, Ready, Replays, InLoop
<1>8. /\ Ahead(c) \subseteq Entries(c) /\ Entries(c)' = Entries(c) /\ Req(c)' = Req(c)
      /\ E \in Entries(c) /\ todo[c] \subseteq Entry
      /\ \A x : Final(c, x)' = Final(c, x) /\ PkStr(x)' = PkStr(x)
  BY <1>1, <1>7 DEF Ready, Replays, InLoop, Entries, Unaudited, Req, Final, NewContent, PkStr,
                    TInv, TypeOK
<1>9. \A x, y \in Row : PkStr(x) = PkStr(y) => x = y
  BY DEF Ready, Undisturbed
<1>10. \A x \in Row, a \in Visible(c) : LastOf(c, x, a)' => LastOf(c, x, a)
  BY <1>4, <1>8 DEF LastOf, PkStr
<1>11. \A x \in Row : LastOf(c, x, n)' => x = E.row /\ n.action # "delete"
  BY <1>4, <1>5, <1>8, <1>9 DEF LastOf, PkStr
<1>12. \A a \in Visible(c) : ~LastOf(c, E.row, a)'
  <2> SUFFICES ASSUME NEW a \in Visible(c), LastOf(c, E.row, a)' PROVE FALSE
    OBVIOUS
  <2>1. a.id = n.id /\ n.version <= a.version
    BY <1>4, <1>5, <1>8 DEF LastOf, PkStr
  <2> QED
    BY <1>5, <1>6, <2>1
<1>13. Prepared(c)' /\ Unlocked(c)'
  <2>1. Refused(Req(c))' <=> Refused(Req(c))
    BY <1>8 DEF Refused
  <2> QED
    BY <1>1, <1>2, <1>3, <1>8, <2>1 DEF Prepared, Unlocked, Fresh, Writing, Ready, Replays
<1>14. InLoop(c)'
  BY <1>2, <1>7, <1>8 DEF InLoop
<1>15. Rising(c)'
  <2> SUFFICES ASSUME setup.store # "root" PROVE Rising(c)'
    BY <1>1, <1>2 DEF Rising, HoldsNumber
  <2>1. \A j : Current(c, j)' = Current(c, j)
    BY <1>1 DEF Current
  <2>2. \A a \in Visible(c) : a.version <= Current(c, a.id)
    BY DEF Ready, Replays, Rising
  <2>3. n.version <= Current(c, n.id)
    BY <1>1, <1>5 DEF Ready, Replays, Rising, HoldsNumber
  <2> QED
    BY <1>2, <1>4, <2>1, <2>2, <2>3 DEF Rising, HoldsNumber
<1>16. Leads(c)'
  <2> SUFFICES ASSUME setup.store # "root" PROVE Leads(c)'
    BY DEF Leads
  <2>1. /\ \A e \in Ahead(c) : LeadsThrough(c, e)
        /\ \A x \in Row : (\A e \in Ahead(c) : e.row # x) => LeadsTo(c, x)
    BY DEF Ready, Replays, Leads
  <2>2. ASSUME NEW e \in todo[c] PROVE LeadsThrough(c, e)'
    <3>1. e.row \in Row /\ e.row # E.row /\ LeadsThrough(c, e)
      BY <1>7, <1>8, <2>1 DEF Entry
    <3>2. \A a \in Visible(c)' : LastOf(c, e.row, a)' => a \in Visible(c) /\ LastOf(c, e.row, a)
      BY <1>4, <1>10, <1>11, <3>1
    <3> QED
      BY <1>8, <3>1, <3>2 DEF LeadsThrough
  <2>3. ASSUME NEW x \in Row, \A e \in todo[c] : e.row # x PROVE LeadsTo(c, x)'
    <3>1. CASE x = E.row
      <4>1. \A a \in Visible(c)' : LastOf(c, x, a)' => a = n /\ n.action # "delete"
        BY <1>4, <1>11, <1>12, <3>1
      <4>2. n.action # "delete" => Final(c, x) = n.after
        BY <1>5, <1>7, <2>1, <3>1 DEF LeadsThrough, ActionOf
      <4> QED
        BY <1>8, <4>1, <4>2 DEF LeadsTo
    <3>2. CASE x # E.row
      <4>1. LeadsTo(c, x)
        BY <1>7, <2>1, <2>3, <3>2
      <4>2. \A a \in Visible(c)' : LastOf(c, x, a)' => a \in Visible(c) /\ LastOf(c, x, a)
        BY <1>4, <1>10, <1>11, <3>2
      <4> QED
        BY <1>8, <4>1, <4>2 DEF LeadsTo
    <3> QED
      BY <3>1, <3>2
  <2> QED
    BY <1>7, <2>2, <2>3 DEF Leads
<1>17. Chained(c)'
  <2>1. setup.store = "root" => (n.action = "update" => n.before = Nil)
    <3> SUFFICES ASSUME setup.store = "root", n.action = "update" PROVE n.before = Nil
      OBVIOUS
    <3>1. Req(c).op \in {"update", "save"}
      BY <1>1, <1>5, Underway DEF ActionOf
    <3>2. E.before = snap[c] /\ snap[c] = Nil
      BY <1>1, <1>8, <3>1, ElementOfStatement DEF Ready, Replays, Prepared
    <3> QED
      BY <1>5, <3>2
  <2>2. ASSUME NEW a \in Visible(c), a.id = n.id PROVE Linked(a, n) /\ Linked(n, a)
    <3>1. Linked(n, a)
      BY <1>5, <1>6, <2>2 DEF Linked
    <3>2. SUFFICES ASSUME n.version = a.version + 1, a.action # "delete",
                          n.action = "update", n.before # Nil
                   PROVE  n.before = a.after
      BY <3>1 DEF Linked
    <3>3. setup.store # "root"
      BY <2>1, <3>2
    <3>4. LastOf(c, E.row, a)
      BY <1>5, <1>6, <2>2, <3>2 DEF LastOf
    <3>5. LeadsThrough(c, E)
      BY <1>7, <3>3 DEF Ready, Replays, Leads
    <3> QED
      BY <1>5, <3>2, <3>4, <3>5 DEF LeadsThrough
  <2>3. Linked(n, n)
    BY <1>5 DEF Linked
  <2>4. /\ \A x \in Row : \A a, b \in Visible(c) :
             a.id = PkStr(x) /\ b.id = PkStr(x) => Linked(a, b)
        /\ setup.store = "root" => \A a \in Visible(c) : a.action = "update" => a.before = Nil
    BY DEF Ready, Replays, Chained
  <2>5. ASSUME NEW x \in Row, NEW a \in Visible(c)', NEW b \in Visible(c)',
               a.id = PkStr(x), b.id = PkStr(x)
        PROVE  Linked(a, b)
    BY <1>4, <2>2, <2>3, <2>4, <2>5
  <2>6. setup.store = "root" => \A a \in Visible(c)' : a.action = "update" => a.before = Nil
    BY <1>4, <2>1, <2>4
  <2> QED
    BY <1>8, <2>5, <2>6 DEF Chained, Linked
<1> QED
  BY <1>13, <1>14, <1>15, <1>16, <1>17 DEF Replays

(* Nobody waits for somebody who waits when one caller executes statements. *)
LEMMA OneCallerWaitsForNone ==
    ASSUME TxInv, setup.oneCaller, NEW c \in Client
    PROVE  ~Deadlocked(c)
<1> SUFFICES ASSUME Deadlocked(c) PROVE FALSE
  OBVIOUS
<1>1. PICK x \in Client, y \in Client : Waits(c, x) /\ Waits(x, y)
  BY DEF Deadlocked
<1> QED
  BY <1>1 DEF Waits, TxInv

(* When nothing disturbs it a call does nothing else. *)
LEMMA CalmStep ==
    ASSUME NEW c \in Client, Ready(c), Undisturbed',
           (\E r \in setup.requests : Begin(c, r)) \/ Step(c) \/ Failure(c)
    PROVE  Unlocked(c)' /\ Replays(c)'
<1>1. UNCHANGED setup
  BY DEF Begin, Step, Failure
<1>2. ~Fault /\ ~Deadlocked(c)
  BY OneCallerWaitsForNone DEF Undisturbed, Ready, Fault
<1>3. CASE \E r \in setup.requests : Begin(c, r)
  BY <1>1, <1>3, BeginReplays
<1>4. CASE pc[c] # "idle" /\ (Step(c) \/ Failure(c))
  <2>1. ~broken[c] /\ ~Refuses(c)
    BY <1>4, Underway
  <2>2. ~Failure(c)
    BY <1>2, <2>1 DEF Failure, SnapshotFails, WriteFails, CommitFails, VersionFails, Crash,
                      ReadMaxFails, SaveFails
  <2>3. \/ Guard(c) \/ BeforeUpdate(c) \/ Write(c) \/ Commit(c) \/ NextVersion(c)
        \/ InsertVersion(c) \/ Save(c) \/ ReadMax(c)
    BY <1>2, <1>4, <2>1, <2>2 DEF Step
  <2> QED
    BY <1>1, <2>3, GuardReplays, BeforeUpdateReplays, WriteReplays, CommitReplays,
       NextVersionReplays, ReadMaxReplays, InsertVersionReplays, SaveReplays
<1>5. Step(c) \/ Failure(c) => pc[c] # "idle"
  BY StepsUnderway
<1> QED
  BY <1>3, <1>4, <1>5

(* Between two calls it does not matter who makes the next. *)
Resting(c) == pc[c] = "idle" /\ Unlocked(c)

(* (proved of a state, ... *)
LEMMA RestingReplays ==
    TInv /\ TxInv =>
      \A c, d \in Client : Resting(c) /\ Resting(d) /\ Replays(c) => Replays(d)
<1> SUFFICES ASSUME TInv, TxInv, NEW c \in Client, NEW d \in Client,
                    Resting(c), Resting(d), Replays(c)
             PROVE  Replays(d)
  OBVIOUS
<1>1. /\ pc[c] = "idle" /\ pc[d] = "idle" /\ write[c] = {} /\ write[d] = {}
      /\ staged[c] = {} /\ staged[d] = {} /\ bump[c] = bump[d]
  BY DEF Resting, Unlocked, TxInv, Fresh
<1>2. /\ Visible(d) = Visible(c) /\ Ahead(d) = {} /\ Ahead(c) = {}
      /\ (\A i : Current(d, i) = Current(c, i))
      /\ \A x : Final(d, x) = Final(c, x)
  BY <1>1 DEF Visible, Ahead, Current, Final
<1>3. Prepared(d) /\ InLoop(d)
  BY <1>1, <1>2 DEF Prepared, InLoop
<1>4. Rising(d)
  BY <1>1, <1>2 DEF Replays, Rising, HoldsNumber
<1>5. Chained(d)
  BY <1>2 DEF Replays, Chained
<1>6. Leads(d)
  <2>1. \A x, a : LastOf(d, x, a) <=> LastOf(c, x, a)
    BY <1>2 DEF LastOf
  <2>2. setup.store # "root" => \A x \in Row : LeadsTo(c, x)
    BY <1>2 DEF Replays, Leads
  <2>3. setup.store # "root" => \A x \in Row : LeadsTo(d, x)
    BY <1>2, <2>1, <2>2 DEF LeadsTo
  <2> QED
    BY <1>2, <2>3 DEF Leads
<1> QED
  BY <1>3, <1>4, <1>5, <1>6 DEF Replays

(* ... and used of the next). *)
LEMMA RestedReplays ==
    (TInv /\ TxInv =>
       \A c, d \in Client : Resting(c) /\ Resting(d) /\ Replays(c) => Replays(d))'
BY RestingReplays, PTL

(* Nothing has been written at first. *)
LEMMA ReplayInit == Init => ReplayInv
<1> SUFFICES ASSUME Init PROVE ReplayInv
  OBVIOUS
<1>1. audits = {}
  BY DEF Init
<1>2. ASSUME NEW c \in Client PROVE Unlocked(c) /\ Replays(c)
  <2>1. pc[c] = "idle" /\ write[c] = {} /\ staged[c] = {}
    BY DEF Init
  <2>2. Visible(c) = {} /\ Ahead(c) = {}
    BY <1>1, <2>1 DEF Visible, Ahead
  <2> QED
    BY <2>1, <2>2 DEF Unlocked, Replays, Prepared, InLoop, Rising, HoldsNumber, Leads,
                      LeadsTo, Chained
<1> QED
  BY <1>1, <1>2 DEF ReplayInv

(* A step that changes nothing. *)
LEMMA StutterReplays == ReplayInv /\ UNCHANGED vars => ReplayInv'
<1> SUFFICES ASSUME ReplayInv, UNCHANGED vars PROVE ReplayInv'
  OBVIOUS
<1> USE DEF vars, txVars
<1>1. Undisturbed' <=> Undisturbed
  BY DEF Undisturbed, NamesUpdates, PkStr
<1>2. ASSUME NEW c \in Client
      PROVE  /\ Unlocked(c)' <=> Unlocked(c)
             /\ Alone(c)' <=> Alone(c)
             /\ Replays(c) => Replays(c)'
  <2>1. /\ Visible(c)' = Visible(c) /\ Ahead(c)' = Ahead(c) /\ Req(c)' = Req(c)
        /\ Entries(c)' = Entries(c)
        /\ (\A x : Final(c, x)' = Final(c, x))
        /\ \A i : Current(c, i)' = Current(c, i)
    BY DEF Visible, Ahead, Element, Req, Entries, Unaudited, Final, NewContent, Current
  <2>2. Unlocked(c)' <=> Unlocked(c)
    BY DEF Unlocked, Fresh
  <2>3. Alone(c)' <=> Alone(c)
    BY DEF Alone
  <2>4. Prepared(c)' <=> Prepared(c)
    BY <2>1 DEF Prepared, Refused, Updates, CurId, PkStr
  <2>5. InLoop(c)' <=> InLoop(c)
    BY <2>1 DEF InLoop
  <2>6. Rising(c)' <=> Rising(c)
    BY <2>1 DEF Rising, HoldsNumber, CurId, PkStr, Current
  <2>7. Chained(c) => Chained(c)'
    BY <2>1, SameChain
  <2>8. Leads(c) => Leads(c)'
    <3>1. \A x, a : LastOf(c, x, a)' <=> LastOf(c, x, a)
      BY <2>1 DEF LastOf, PkStr
    <3>2. \A e : LeadsThrough(c, e)' <=> LeadsThrough(c, e)
      BY <2>1, <3>1 DEF LeadsThrough
    <3>3. \A x : LeadsTo(c, x)' <=> LeadsTo(c, x)
      BY <2>1, <3>1 DEF LeadsTo
    <3> QED
      BY <2>1, <3>2, <3>3 DEF Leads
  <2> QED
    BY <2>2, <2>3, <2>4, <2>5, <2>6, <2>7, <2>8 DEF Replays
<1> QED
  BY <1>1, <1>2 DEF ReplayInv

(* What disturbs nothing now has not disturbed anything before. *)
LEMMA NoFaultBefore ==
    ASSUME TInv, NEW c \in Client, UNCHANGED setup, Undisturbed',
           (\E r \in setup.requests : Begin(c, r)) \/ Step(c) \/ Failure(c)
    PROVE  Undisturbed
<1>1. UNCHANGED faults \/ Fault
  BY DEF Begin, Step, Failure, Guard, BeforeUpdate, Write, WriteFails, Commit, NextVersion,
         InsertVersion, Save, ReadMax, ReadMaxFails, SaveFails, SnapshotFails,
         CommitFails, VersionFails, Crash
<1>2. faults \in Nat
  BY Setting DEF TInv, TypeOK
<1>3. faults = 0
  BY <1>1, <1>2 DEF Undisturbed, Fault
<1> QED
  BY <1>3 DEF Undisturbed, NamesUpdates, PkStr

(* Every step of the specification keeps the trails a replay. *)
LEMMA ReplayStep == IInv /\ CommittedInv /\ ReplayInv /\ [Next]_vars => ReplayInv'
<1> SUFFICES ASSUME IInv, CommittedInv, ReplayInv, [Next]_vars PROVE ReplayInv'
  OBVIOUS
<1>1. CASE UNCHANGED vars
  BY <1>1, StutterReplays
<1>2. CASE Next
  <2>1. TInv /\ TxInv /\ CoverInv /\ TInv' /\ TxInv'
    BY InvariantStep DEF IInv, CommittedInv
  <2>2. PICK c \in Client :
          (\E r \in setup.requests : Begin(c, r)) \/ Step(c) \/ Failure(c)
    BY <1>2 DEF Next
  <2>3. Keeps(c) /\ Leaves(c)
    BY <2>1, <2>2, StepKinds, StepDeeds
  <2>4. SUFFICES ASSUME Undisturbed'
                 PROVE  \A d \in Client : Unlocked(d)' /\ (Alone(d)' => Replays(d)')
    BY DEF ReplayInv
  <2>5. Undisturbed
    BY <2>1, <2>2, <2>3, <2>4, NoFaultBefore DEF Keeps
  <2>6. Alone(c)
    <3>1. CASE \E r \in setup.requests : Begin(c, r)
      BY <2>5, <3>1 DEF Begin, Alone, Undisturbed
    <3>2. CASE pc[c] # "idle"
      BY <2>1, <2>5, <3>2 DEF Alone, TxInv, Undisturbed
    <3>3. Step(c) \/ Failure(c) => pc[c] # "idle"
      BY StepsUnderway
    <3> QED
      BY <2>2, <3>1, <3>2, <3>3
  <2>7. Unlocked(c)' /\ Replays(c)'
    <3>1. Ready(c)
      BY <2>1, <2>5, <2>6 DEF ReplayInv, Ready
    <3> QED
      BY <2>2, <2>4, <3>1, CalmStep
  <2>8. \A d \in Client \ {c} : pc'[d] = "idle" /\ Unlocked(d)'
    BY <2>3, <2>5, <2>6 DEF ReplayInv, Alone, Keeps, Leaves, Unlocked, Fresh, Writing
  <2>9. ASSUME NEW d \in Client \ {c}, Alone(d)' PROVE Replays(d)'
    <3>1. Resting(c)' /\ Resting(d)'
      BY <2>7, <2>8, <2>9 DEF Alone, Resting
    <3> QED
      BY <2>1, <2>7, <3>1, RestedReplays
  <2> QED
    BY <2>7, <2>8, <2>9
<1> QED
  BY <1>1, <1>2

(* While one caller executes statements and nothing fails, the audits of   *)
(* updates replay the row: where the one before it left it, the update     *)
(* found it.                                                               *)
THEOREM UpdatesFollowOn == Spec => []UpdatesReplay
<1>1. Init => ReplayInv
  BY ReplayInit
<1>2. (IInv /\ CommittedInv) /\ ReplayInv /\ [Next]_vars => ReplayInv'
  BY ReplayStep
<1>3. IInv /\ ReplayInv => UpdatesReplay
  <2> SUFFICES ASSUME IInv, ReplayInv, Undisturbed, NEW x \in Row,
                      NEW a \in audits, a.id = PkStr(x),
                      NEW b \in audits, b.id = PkStr(x)
               PROVE  Linked(a, b)
    BY DEF UpdatesReplay, Linked
  <2>1. PICK c \in Client : Alone(c)
    <3>1. PICK d \in Client : TRUE
      BY DEF ReplayInv
    <3>2. CASE Alone(d)
      BY <3>2
    <3>3. CASE ~Alone(d)
      <4>1. PICK e \in Client : pc[e] # "idle"
        BY <3>3 DEF Alone
      <4>2. Alone(e)
        BY <4>1 DEF IInv, TxInv, Undisturbed, Alone
      <4> QED
        BY <4>2
    <3> QED
      BY <3>2, <3>3
  <2>2. Chained(c) /\ a \in Visible(c) /\ b \in Visible(c)
    BY <2>1 DEF ReplayInv, Replays, Visible
  <2> QED
    BY <2>2 DEF Chained
<1> QED
  BY <1>1, <1>2, <1>3, Committed, PTL DEF Spec

=============================================================================
