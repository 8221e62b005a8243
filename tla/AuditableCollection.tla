------------------------- MODULE AuditableCollection -------------------------
(***************************************************************************)
(* mongodbv2/collection.go: a *mongo.Collection wrapped so that every      *)
(* mutating call also writes audits.  Nothing ties the steps of a call     *)
(* together: the pre-read, the mutation, the allocation of the version and *)
(* the insert of the audit are separate round trips to the server, and     *)
(* calls of other clients run between any two of them.                     *)
(*                                                                         *)
(* A document is represented by the part of it the field policy lets into  *)
(* an audit: one member of Value.  Bounds: MaxCalls calls and MaxFaults    *)
(* failures (refused or lost round trips, timeouts, crashes) in a          *)
(* behaviour.                                                              *)
(***************************************************************************)
EXTENDS Naturals, Sequences, FiniteSets

CONSTANTS
    Client,             \* goroutines calling the wrapper, of one or many processes
    DocId,              \* _id values, ordered as the collection is scanned
    Value,              \* the audited content a document can have
    Nil,                \* no document; an update that names only excluded fields
    AuditId,            \* auditable_id strings
    IdString,           \* fmt.Sprint of an _id, of NoDoc for a missing one
    FailOnAuditError,   \* Config.FailOnAuditError
    Ops,                \* actions that AllowsOp lets through
    DeferredChanges,    \* whether Config.DeferredChanges is set
    Oversized,          \* values over DiffLimits
    Guarded,            \* values with a redacted field
    Requests,           \* the calls clients may make
    MaxCalls, MaxFaults

NoDoc == 0

InsertOps == {"InsertOne", "InsertMany"}
UpdateOps == {"UpdateOne", "UpdateMany", "ReplaceOne"}
DeleteOps == {"DeleteOne", "DeleteMany"}
SingleOps == {"UpdateOne", "ReplaceOne", "DeleteOne"}
IdOnlyOps == {"UpdateOne", "UpdateMany"}

(* A call: ids and match form the filter (a document matches when its _id  *)
(* is in ids and its content in match), or ids are the documents to        *)
(* insert; val is the content written.  The pre-read is not given the      *)
(* options of the operation: without its Collation the same filter matches *)
(* the contents in plain.                                                  *)
Request == [op : InsertOps \cup UpdateOps \cup DeleteOps,
            ids : SUBSET DocId, match : SUBSET Value, plain : SUBSET Value,
            val : Value \cup {Nil}, upsert : BOOLEAN]

ASSUME DocIdAssumption    == DocId \subseteq Nat \ {0}
ASSUME ValueAssumption    ==
    Nil \notin Value /\ Oversized \subseteq Value /\ Guarded \subseteq Value
ASSUME IdStringAssumption == IdString \in [DocId \cup {NoDoc} -> AuditId]
ASSUME ConfigAssumption   ==
    /\ FailOnAuditError \in BOOLEAN
    /\ DeferredChanges \in BOOLEAN
    /\ Ops \subseteq {"create", "update", "delete"}
ASSUME BoundAssumption    == MaxCalls \in Nat /\ MaxFaults \in Nat
(* Only an operator update can leave every audited field alone. *)
ASSUME RequestAssumption  ==
    /\ Requests \subseteq Request
    /\ \A r \in Requests : r.val = Nil => r.op \in IdOnlyOps \cup DeleteOps

VARIABLES
    coll,       \* the wrapped collection
    seq,        \* the version collection; 0 where it has no document yet
    audits,     \* the audit collection
    pc,         \* the next round trip of each client's call
    req,        \* the call's arguments
    cid,        \* the call's number; 0 before a client's first call
    snap,       \* what the pre-read returned
    todo,       \* audits the call has still to write
    cur,        \* the audit being written
    attempt,    \* the loop variable of nextVersion
    calls, faults,
    (* What the program does not keep and the properties talk about. *)
    order,      \* order[d]: the calls that wrote document d, in that order
    reported,   \* calls that handed an error to Config.OnError
    outcome,    \* what each call returned
    earlier     \* earlier[k]: the calls that had returned when call k began

localVars == <<snap, todo, cur, attempt>>
ghostVars == <<order, reported, outcome, earlier>>
vars == <<coll, seq, audits, pc, req, cid, localVars, calls, faults, ghostVars>>

Call == 1..MaxCalls
Content == Value \cup {Nil}
Entry == [doc : DocId \cup {NoDoc}, before : Content, after : Content]
Pending == [doc : DocId \cup {NoDoc}, before : Content, after : Content,
            status : {"inline", "deferred"}, version : Nat]
Action == {"create", "update", "delete"}
Audit == [id : AuditId, action : Action, version : Nat, before : Content,
          after : Content, status : {"inline", "deferred"}, call : Call]
PC == {"idle", "read", "mutate", "compute", "alloc", "upsert", "persist"}
Outcome == {"none", "ok", "readerr", "operr", "auditerr", "crash"}

NoRequest == [op |-> "DeleteOne", ids |-> {}, match |-> {}, plain |-> {},
              val |-> Nil, upsert |-> FALSE]
NoPending == [doc |-> NoDoc, before |-> Nil, after |-> Nil,
              status |-> "inline", version |-> 0]

TypeOK ==
    /\ coll \in [DocId -> Content]
    /\ seq \in [AuditId -> Nat]
    /\ audits \in SUBSET Audit
    /\ pc \in [Client -> PC]
    /\ req \in [Client -> Request]
    /\ cid \in [Client -> 0..MaxCalls]
    /\ snap \in [Client -> SUBSET [doc : DocId, before : Content]]
    /\ todo \in [Client -> SUBSET Entry]
    /\ cur \in [Client -> Pending]
    /\ attempt \in [Client -> 0..1]
    /\ calls \in 0..MaxCalls
    /\ faults \in 0..MaxFaults
    /\ order \in [DocId -> Seq(Call)]
    /\ reported \in SUBSET Call
    /\ outcome \in [Call -> Outcome]
    /\ earlier \in [Call -> SUBSET Call]

Init ==
    /\ coll \in [DocId -> Content]
    /\ seq = [i \in AuditId |-> 0]
    /\ audits = {}
    /\ pc = [c \in Client |-> "idle"]
    /\ req = [c \in Client |-> NoRequest]
    /\ cid = [c \in Client |-> 0]
    /\ snap = [c \in Client |-> {}]
    /\ todo = [c \in Client |-> {}]
    /\ cur = [c \in Client |-> NoPending]
    /\ attempt = [c \in Client |-> 0]
    /\ calls = 0
    /\ faults = 0
    /\ order = [d \in DocId |-> <<>>]
    /\ reported = {}
    /\ outcome = [k \in Call |-> "none"]
    /\ earlier = [k \in Call |-> {}]

-----------------------------------------------------------------------------
(* Helpers *)

ActionOf(op) == IF op \in InsertOps THEN "create"
                ELSE IF op \in UpdateOps THEN "update" ELSE "delete"

AllowsOp(op) == ActionOf(op) \in Ops

(* The documents the operation takes and those its pre-read finds; of a    *)
(* single-document operation, the first in scan order.                     *)
First(S) == {d \in S : \A e \in S : d <= e}
Filtered(r, content) ==
    LET D == {d \in r.ids : coll[d] \in content}
    IN IF r.op \in SingleOps THEN First(D) ELSE D
Selected(r) == Filtered(r, r.match)
Found(r) == Filtered(r, r.plain)

(* Documents an insert adds before it meets a duplicate _id (ordered). *)
Duplicates(r) == {d \in r.ids : coll[d] # Nil}
Insertable(r) == {d \in r.ids : \A e \in Duplicates(r) : d < e}

(* The collection after r is applied to the documents D. *)
Applied(r, D) ==
    [d \in DocId |-> IF d \notin D THEN coll[d]
                     ELSE IF r.op \in DeleteOps THEN Nil
                     ELSE IF r.val = Nil THEN coll[d] ELSE r.val]

Wrote(c, D) ==
    order' = [d \in DocId |-> IF d \in D THEN Append(order[d], cid[c]) ELSE order[d]]

(* Control leaves the call c is in with outcome o. *)
Return(c, o) ==
    /\ pc' = [pc EXCEPT ![c] = "idle"]
    /\ outcome' = [outcome EXCEPT ![cid[c]] = o]

Goto(c, label) == pc' = [pc EXCEPT ![c] = label] /\ UNCHANGED outcome

HandleError(c) == reported' = reported \cup {cid[c]}

(* The call goes on to its next audit, or is done. *)
NextEntry(c) ==
    IF todo'[c] = {} THEN Return(c, "ok") ELSE Goto(c, "compute")

(* Mutant of AuditFails: OnError is not called. *)
AuditFailsSilently(c) ==
    /\ UNCHANGED reported
    /\ IF FailOnAuditError THEN Return(c, "auditerr") ELSE NextEntry(c)

(* writeAudit returned an error, which it has handed to OnError: fail      *)
(* closed, or go on.                                                       *)
AuditFails(c) ==
    /\ HandleError(c)
    /\ IF FailOnAuditError THEN Return(c, "auditerr") ELSE NextEntry(c)

Fault == faults < MaxFaults /\ faults' = faults + 1

-----------------------------------------------------------------------------
(* Steps of a call *)

(* A client calls the wrapper.  Inserts do no pre-read. *)
Begin(c, r) ==
    /\ pc[c] = "idle"
    /\ calls < MaxCalls
    /\ calls' = calls + 1
    /\ cid' = [cid EXCEPT ![c] = calls + 1]
    /\ req' = [req EXCEPT ![c] = r]
    /\ earlier' = [earlier EXCEPT ![calls + 1] =
                     {k \in Call : outcome[k] # "none"}]
    /\ Goto(c, IF r.op \in InsertOps THEN "mutate" ELSE "read")
    /\ snap' = [snap EXCEPT ![c] = {}]
    /\ todo' = [todo EXCEPT ![c] = {}]
    /\ cur' = [cur EXCEPT ![c] = NoPending]
    /\ attempt' = [attempt EXCEPT ![c] = 0]
    /\ UNCHANGED <<coll, seq, audits, faults, order, reported>>

(* The pre-read: UpdateOne and UpdateMany fetch the _id only. *)
Read(c) ==
    /\ pc[c] = "read"
    /\ snap' = [snap EXCEPT ![c] =
                  {[doc |-> d,
                    before |-> IF req[c].op \in IdOnlyOps THEN Nil ELSE coll[d]] :
                      d \in Found(req[c])}]
    /\ Goto(c, "mutate")
    /\ UNCHANGED <<coll, seq, audits, req, cid, todo, cur, attempt, calls,
                   faults, order, reported, earlier>>

(* Mutant of ReadFails: the early return is missing. *)
ReadFailsGoesOn(c) ==
    /\ pc[c] = "read"
    /\ Fault
    /\ HandleError(c)
    /\ Goto(c, "mutate")
    /\ UNCHANGED <<coll, seq, audits, req, cid, localVars, calls, order, earlier>>

(* The pre-read fails: fail closed, or mutate without a snapshot. *)
ReadFails(c) ==
    /\ pc[c] = "read"
    /\ Fault
    /\ HandleError(c)
    /\ IF FailOnAuditError THEN Return(c, "readerr") ELSE Goto(c, "mutate")
    /\ UNCHANGED <<coll, seq, audits, req, cid, localVars, calls, order, earlier>>

(* Mutant of Entries: the snapshot is taken after the mutation. *)
EntriesReadLate(c) ==
    LET content == IF req[c].op \in DeleteOps THEN Nil ELSE req[c].val
        ids == IF req[c].op \in InsertOps THEN req[c].ids ELSE {s.doc : s \in snap[c]}
    IN {[doc |-> d, after |-> content,
         before |-> IF req[c].op \in InsertOps THEN Nil ELSE coll'[d]] : d \in ids}

(* The audits a successful operation has to write.  An update takes its    *)
(* target from the pre-read even when that found nothing, a delete writes  *)
(* none then.                                                              *)
Entries(c) ==
    LET r == req[c]
        content == IF r.op \in DeleteOps THEN Nil ELSE r.val
        found == {[doc |-> s.doc, before |-> s.before, after |-> content] :
                    s \in snap[c]}
    IN IF r.op \in InsertOps
         THEN {[doc |-> d, before |-> Nil, after |-> content] : d \in r.ids}
       ELSE IF found = {} /\ r.op \in {"UpdateOne", "ReplaceOne"}
         THEN {[doc |-> NoDoc, before |-> Nil, after |-> content]}
       ELSE found

(* The operation succeeded and touched documents: audit it, unless the     *)
(* collection does not audit this kind of operation.                       *)
Succeed(c) ==
    /\ todo' = [todo EXCEPT ![c] = IF AllowsOp(req[c].op) THEN Entries(c) ELSE {}]
    /\ NextEntry(c)

InsertDocs(c) ==
    LET r == req[c]
        D == Insertable(r)
    IN /\ r.op \in InsertOps
       /\ coll' = Applied(r, D)
       /\ Wrote(c, D)
       /\ IF D = r.ids THEN Succeed(c)
                       ELSE Return(c, "operr") /\ UNCHANGED todo

(* Mutant of ChangeDocs: MatchedCount and DeletedCount are not looked at. *)
ChangeDocsUnguarded(c) ==
    LET r == req[c]
    IN /\ r.op \notin InsertOps
       /\ coll' = Applied(r, Selected(r))
       /\ Wrote(c, Selected(r))
       /\ Succeed(c)

ChangeDocs(c) ==
    LET r == req[c]
        D == Selected(r)
    IN /\ r.op \notin InsertOps
       /\ D # {}
       /\ coll' = Applied(r, D)
       /\ Wrote(c, D)
       /\ Succeed(c)

(* Nothing matched: MatchedCount (DeletedCount) is 0, so no audit is       *)
(* written even when upsert made the server insert a document.             *)
ChangeNothing(c) ==
    LET r == req[c]
        D == IF r.upsert /\ r.op \in UpdateOps THEN First(r.ids) ELSE {}
    IN /\ r.op \notin InsertOps
       /\ Selected(r) = {}
       /\ IF D \cap Duplicates(r) = {}
            THEN /\ coll' = Applied(r, D)
                 /\ Wrote(c, D)
                 /\ Return(c, "ok")
            ELSE Return(c, "operr") /\ UNCHANGED <<coll, order>>
       /\ UNCHANGED todo

(* The mutation of the wrapped collection. *)
Mutate(c) ==
    /\ pc[c] = "mutate"
    /\ InsertDocs(c) \/ ChangeDocs(c) \/ ChangeNothing(c)
    /\ UNCHANGED <<seq, audits, req, cid, snap, cur, attempt, calls, faults,
                   reported, earlier>>

(* The mutation returns an error; the server has applied it to all, some   *)
(* or none of its documents.                                               *)
MutateFails(c) ==
    LET r == req[c]
    IN /\ pc[c] = "mutate"
       /\ Fault
       /\ \E D \in SUBSET (IF r.op \in InsertOps THEN Insertable(r) ELSE Selected(r)) :
            coll' = Applied(r, D) /\ Wrote(c, D)
       /\ Return(c, "operr")
       /\ UNCHANGED <<seq, audits, req, cid, localVars, calls, reported, earlier>>

(* requestComplexity looks at the snapshots and never at the operators of  *)
(* an update.                                                              *)
TooComplex(r, e) ==
    r.op \notin IdOnlyOps /\ {e.before, e.after} \cap Oversized # {}

(* The changes of an update are empty: the operators name excluded fields  *)
(* only, or the replacement equals the document it replaces and has no     *)
(* redacted field, which the diff always reports.                          *)
NoChanges(r, e) ==
    IF r.op \in IdOnlyOps THEN e.after = Nil
    ELSE r.op \in UpdateOps /\ e.before = e.after /\ e.after \notin Guarded

(* The audits of a call are written one after the other, in scan order. *)
Chosen(c) == {e \in todo[c] : \A f \in todo[c] : e.doc <= f.doc}

(* Mutant of Draft: the default status is not filled in. *)
DraftNoStatus(e, status, n) == [doc |-> e.doc, before |-> e.before,
                                after |-> e.after, status |-> "", version |-> n]

Draft(e, status, n) == [doc |-> e.doc, before |-> e.before, after |-> e.after,
                        status |-> status, version |-> n]

StartAudit(c, e, status) ==
    /\ cur' = [cur EXCEPT ![c] = Draft(e, status, 0)]
    /\ attempt' = [attempt EXCEPT ![c] = 0]
    /\ Goto(c, "alloc")

(* computeChanges for the next entry, and the early return of writeAudit.  *)
Compute(c) ==
    /\ pc[c] = "compute"
    /\ \E e \in Chosen(c) :
         /\ todo' = [todo EXCEPT ![c] = @ \ {e}]
         /\ \/ /\ TooComplex(req[c], e)
               /\ DeferredChanges
               /\ StartAudit(c, e, "deferred")
               /\ UNCHANGED reported
            \/ /\ TooComplex(req[c], e)
               /\ ~DeferredChanges
               /\ AuditFails(c)
               /\ UNCHANGED <<cur, attempt>>
            \/ /\ ~TooComplex(req[c], e)
               /\ ~NoChanges(req[c], e)
               /\ StartAudit(c, e, "inline")
               /\ UNCHANGED reported
            \/ /\ ~TooComplex(req[c], e)
               /\ NoChanges(req[c], e)
               /\ NextEntry(c)
               /\ UNCHANGED <<cur, attempt, reported>>
    /\ UNCHANGED <<coll, seq, audits, req, cid, snap, calls, faults, order, earlier>>

(* The computer fails, exceeds ComputeTimeout or MaxChangedFields, or the  *)
(* deferred handler fails.                                                 *)
ComputeFails(c) ==
    /\ pc[c] = "compute"
    /\ Fault
    /\ \E e \in Chosen(c) :
         /\ todo' = [todo EXCEPT ![c] = @ \ {e}]
         /\ \/ /\ DeferredChanges
               /\ StartAudit(c, e, "deferred")
               /\ UNCHANGED reported
            \/ /\ AuditFails(c)
               /\ UNCHANGED <<cur, attempt>>
    /\ UNCHANGED <<coll, seq, audits, req, cid, snap, calls, order, earlier>>

CurId(c) == IdString[cur[c].doc]
Numbered(c, n) == Draft(cur[c], cur[c].status, n)

(* Mutant of Alloc: ReturnDocument(After) is missing. *)
AllocReturnsBefore(c) ==
    /\ pc[c] = "alloc"
    /\ IF seq[CurId(c)] = 0
         THEN Goto(c, "upsert") /\ UNCHANGED <<seq, cur>>
         ELSE /\ seq' = [seq EXCEPT ![CurId(c)] = @ + 1]
              /\ cur' = [cur EXCEPT ![c] = Numbered(c, seq[CurId(c)])]
              /\ Goto(c, "persist")
    /\ UNCHANGED <<coll, audits, req, cid, snap, todo, attempt, calls, faults,
                   order, reported, earlier>>

(* nextVersion: FindOneAndUpdate with upsert either increments the         *)
(* sequence document it finds or goes on to insert one.                    *)
Alloc(c) ==
    /\ pc[c] = "alloc"
    /\ IF seq[CurId(c)] = 0
         THEN Goto(c, "upsert") /\ UNCHANGED <<seq, cur>>
         ELSE /\ seq' = [seq EXCEPT ![CurId(c)] = @ + 1]
              /\ cur' = [cur EXCEPT ![c] = Numbered(c, seq[CurId(c)] + 1)]
              /\ Goto(c, "persist")
    /\ UNCHANGED <<coll, audits, req, cid, snap, todo, attempt, calls, faults,
                   order, reported, earlier>>

(* Mutants of Upsert: the insert overwrites, ... *)
UpsertOverwrites(c) ==
    /\ pc[c] = "upsert"
    /\ seq' = [seq EXCEPT ![CurId(c)] = 1]
    /\ cur' = [cur EXCEPT ![c] = Numbered(c, 1)]
    /\ Goto(c, "persist")
    /\ UNCHANGED <<coll, audits, req, cid, snap, todo, attempt, calls, faults,
                   order, reported, earlier>>

(* ... and what happens on a duplicate key: no retry, a number lost before *)
(* the retry, the insert itself tried again.                               *)
UpsertOr(c, dup) ==
    /\ pc[c] = "upsert"
    /\ IF seq[CurId(c)] = 0
         THEN /\ seq' = [seq EXCEPT ![CurId(c)] = 1]
              /\ cur' = [cur EXCEPT ![c] = Numbered(c, 1)]
              /\ Goto(c, "persist")
              /\ UNCHANGED reported
         ELSE dup /\ UNCHANGED cur
    /\ UNCHANGED <<coll, audits, req, cid, snap, todo, attempt, calls, faults,
                   order, earlier>>
UpsertOnce(c) == UpsertOr(c, UNCHANGED todo /\ AuditFails(c) /\ UNCHANGED seq)
UpsertLosesNumber(c) ==
    UpsertOr(c, /\ seq' = [seq EXCEPT ![CurId(c)] = @ + 1]
                /\ Goto(c, "alloc") /\ UNCHANGED reported)
UpsertSpins(c) == UpsertOr(c, Goto(c, "upsert") /\ UNCHANGED <<seq, reported>>)

(* The insert of the upsert.  Another client may have inserted meanwhile:  *)
(* a duplicate key error, after which nextVersion tries once more.         *)
Upsert(c) ==
    /\ pc[c] = "upsert"
    /\ \/ /\ seq[CurId(c)] = 0
          /\ seq' = [seq EXCEPT ![CurId(c)] = 1]
          /\ cur' = [cur EXCEPT ![c] = Numbered(c, 1)]
          /\ Goto(c, "persist")
          /\ UNCHANGED <<attempt, todo, reported>>
       \/ /\ seq[CurId(c)] # 0
          /\ UNCHANGED <<seq, cur, todo>>
          /\ IF attempt[c] = 0
               THEN /\ attempt' = [attempt EXCEPT ![c] = 1]
                    /\ Goto(c, "alloc")
                    /\ UNCHANGED reported
               ELSE AuditFails(c) /\ UNCHANGED attempt
    /\ UNCHANGED <<coll, audits, req, cid, snap, calls, faults, order, earlier>>

(* nextVersion fails for another reason, before or after the server has    *)
(* counted.                                                                *)
AllocFails(c) ==
    /\ pc[c] \in {"alloc", "upsert"}
    /\ Fault
    /\ \/ UNCHANGED seq
       \/ /\ pc[c] = "alloc" \/ seq[CurId(c)] = 0
          /\ seq' = [seq EXCEPT ![CurId(c)] = @ + 1]
    /\ UNCHANGED todo
    /\ AuditFails(c)
    /\ UNCHANGED <<coll, audits, req, cid, snap, cur, attempt, calls, order, earlier>>

AuditOf(c) ==
    [id |-> CurId(c), action |-> ActionOf(req[c].op), version |-> cur[c].version,
     before |-> cur[c].before, after |-> cur[c].after, status |-> cur[c].status,
     call |-> cid[c]]

(* Mutant of Persist: the loop returns after its first audit. *)
PersistReturns(c) ==
    /\ pc[c] = "persist"
    /\ audits' = audits \cup {AuditOf(c)}
    /\ Return(c, "ok")
    /\ UNCHANGED <<coll, seq, req, cid, snap, todo, cur, attempt, calls, faults,
                   order, reported, earlier>>

(* The insert of the audit and the OnAudit callback. *)
Persist(c) ==
    /\ pc[c] = "persist"
    /\ audits' = audits \cup {AuditOf(c)}
    /\ UNCHANGED todo
    /\ NextEntry(c)
    /\ UNCHANGED <<coll, seq, req, cid, snap, cur, attempt, calls, faults, order,
                   reported, earlier>>

(* Mutant of PersistFails: the audit is written again with a new number. *)
PersistRetries(c) ==
    /\ pc[c] = "persist"
    /\ Fault
    /\ UNCHANGED audits \/ audits' = audits \cup {AuditOf(c)}
    /\ Goto(c, "alloc")
    /\ UNCHANGED <<coll, seq, req, cid, snap, todo, cur, attempt, calls, order,
                   reported, earlier>>

(* The insert fails, or it is applied and its answer lost or OnAudit       *)
(* panics.                                                                 *)
PersistFails(c) ==
    /\ pc[c] = "persist"
    /\ Fault
    /\ UNCHANGED audits \/ audits' = audits \cup {AuditOf(c)}
    /\ UNCHANGED todo
    /\ AuditFails(c)
    /\ UNCHANGED <<coll, seq, req, cid, snap, cur, attempt, calls, order, earlier>>

(* The process dies in the middle of a call. *)
Crash(c) ==
    /\ pc[c] # "idle"
    /\ Fault
    /\ Return(c, "crash")
    /\ UNCHANGED <<coll, seq, audits, req, cid, localVars, calls, order, reported,
                   earlier>>

Step(c) ==
    Read(c) \/ Mutate(c) \/ Compute(c) \/ Alloc(c) \/ Upsert(c) \/ Persist(c)

Failure(c) ==
    \/ ReadFails(c) \/ MutateFails(c) \/ ComputeFails(c) \/ AllocFails(c)
    \/ PersistFails(c) \/ Crash(c)

Next ==
    \E c \in Client :
      \/ \E r \in Requests : Begin(c, r)
      \/ Step(c)
      \/ Failure(c)

Spec == Init /\ [][Next]_vars

(* The scheduler runs every goroutine and the server answers every request *)
(* or the driver's timeout fails it; nobody has to make a call.            *)
FairSpec == Spec /\ \A c \in Client : WF_vars(Step(c))

-----------------------------------------------------------------------------
(* Properties *)

Slot(a) == <<a.id, a.version>>

(* Slots allocated by calls that have still to write the audit. *)
Held == {<<CurId(c), cur[c].version>> : c \in {x \in Client : pc[x] = "persist"}}

(* No two audits of one document string carry the same version: what the   *)
(* unique index of EnsureAuditIndexes would reject never arises, whether   *)
(* the index was created or not.                                           *)
UniqueVersions == \A a, b \in audits : Slot(a) = Slot(b) => a = b

(* A number missing from the trail was lost to a failure, one number per   *)
(* failure: races between callers alone leave no gap.                      *)
GapsNeedFaults ==
    LET allocated == UNION {{<<i, n>> : n \in 1..seq[i]} : i \in AuditId}
    IN Cardinality(allocated \ (Held \cup {Slot(a) : a \in audits})) <= faults

(* One retry is enough for nextVersion: without failures no call reports   *)
(* an error, however the upserts of the callers race.                      *)
RetryAbsorbsUpsertRace ==
    faults = 0 =>
      /\ reported = {}
      /\ \A k \in Call : outcome[k] \in {"none", "ok", "operr"}

(* A call writes at most one audit for a document, also when the answer to *)
(* the insert of the audit was lost.                                       *)
AuditedOncePerCall ==
    \A a, b \in audits : a.call = b.call /\ a.id = b.id => a = b

Writes(d, k) == \E i \in DOMAIN order[d] : order[d][i] = k

(* No other call was in progress while call k was. *)
Alone(k) == \A j \in 1..calls \ {k} : j \in earlier[k] \/ k \in earlier[j]

(* The documents the call of client c can know to have written: those it   *)
(* inserts and, when no upsert may have inserted them instead, those its   *)
(* pre-read found, or all when the call ran alone and its pre-read sees    *)
(* what the operation sees.                                                *)
Knows(c, d) ==
    LET r == req[c]
    IN \/ r.op \in InsertOps
       \/ /\ ~r.upsert
          /\ \/ \E s \in snap[c] : s.doc = d
             \/ Alone(cid[c]) /\ r.plain = r.match

(* When a call returns without error, every document it can know to have   *)
(* written is audited by that call, or an error went to OnError, or no     *)
(* audited field was involved: nothing is silently missing.                *)
NoSilentGap ==
    \A c \in Client :
      LET r == req[c]
          k == cid[c]
      IN (pc[c] = "idle" /\ k # 0 /\ AllowsOp(r.op) /\ outcome[k] = "ok") =>
           \A d \in DocId : Writes(d, k) /\ Knows(c, d) =>
             \/ \E a \in audits : a.call = k /\ a.id = IdString[d]
             \/ k \in reported
             \/ r.op \in IdOnlyOps /\ r.val = Nil
             \/ r.op = "ReplaceOne" /\ \E s \in snap[c] : s.before = r.val

(* Config.FailOnAuditError: a call that failed closed on its pre-read has  *)
(* written nothing, and a call that returned without error had no audit    *)
(* error.                                                                  *)
FailClosed ==
    FailOnAuditError =>
      \A k \in Call :
        /\ outcome[k] = "readerr" => \A d \in DocId : ~Writes(d, k)
        /\ outcome[k] = "ok" => k \notin reported

(* The audit a call on one document, named by its _id, is about to insert  *)
(* names a document the call wrote, or carries the id of no document.      *)
NamedDocumentWasWritten ==
    \A c \in Client :
      pc[c] = "persist" /\ Cardinality(req[c].ids) = 1 =>
        \/ AuditOf(c).id = IdString[NoDoc]
        \/ \E d \in DocId : AuditOf(c).id = IdString[d] /\ Writes(d, cid[c])

(* The version order agrees with real time: a call that began after        *)
(* another had returned gets the higher version, failures or not.          *)
RealTimeOrder ==
    \A a, b \in audits :
      a.id = b.id /\ a.call \in earlier[b.call] => a.version < b.version

(* Every audit has an after image but that of an update of excluded fields *)
(* only, which is written when its changes could not be computed.          *)
Imaged(a) == a.after # Nil \/ a.action = "delete"

(* As long as calls do not overlap and none returns an error, the trail    *)
(* replays a document all of whose changes, and nothing else, are audited  *)
(* with an image under its id: each audit that has a before image starts   *)
(* where the previous one ended, and the last ends at the document.        *)
TrailReplaysDocument ==
    (\A k \in 1..calls : earlier[k] = 1..(k - 1)) =>
      \A d \in DocId :
        LET trail == {a \in audits : a.id = IdString[d]}
        IN /\ \A i \in DOMAIN order[d] :
                /\ outcome[order[d][i]] = "ok"
                /\ \E a \in trail : a.call = order[d][i]
           /\ \A a \in trail : Writes(d, a.call) /\ Imaged(a)
           =>
             /\ \A a, b \in trail :
                  b.version = a.version + 1 /\ (b.before # Nil \/ b.action = "create")
                  => b.before = a.after
             /\ \A a \in trail :
                  (\A b \in trail : b.version <= a.version) => a.after = coll[d]

(* The audit history is append-only and numbering follows the abstract     *)
(* specification: each number is issued once, recorded at most once.       *)
Body == [action : Action, before : Content, after : Content,
         status : {"inline", "deferred"}, call : Call]
Split(a) == [id |-> a.id, version |-> a.version,
                body |-> [action |-> a.action, before |-> a.before,
                          after |-> a.after, status |-> a.status, call |-> a.call]]
Trail == INSTANCE AuditTrail WITH
           Entity <- AuditId, issued <- seq, held <- Held,
           trail <- {Split(a) : a \in audits}
TrailSpec == Trail!Spec

(* Every call returns. *)
CallsReturn == \A c \in Client : pc[c] # "idle" ~> pc[c] = "idle"

(* What the documentation says and the code does not do. *)

(* README.md:311: UpdateOne writes one update audit for the matched        *)
(* document.                                                               *)
AuditOfMatchedDocument ==
    \A a \in audits : \A d \in DocId :
      a.action = "update" /\ Writes(d, a.call) => a.id = IdString[d]
=============================================================================
