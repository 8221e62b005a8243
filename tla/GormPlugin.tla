------------------------------ MODULE GormPlugin ------------------------------
(***************************************************************************)
(* postgres-gorm: the plugin that audits the statements of a *gorm.DB from *)
(* callbacks around gorm:create, gorm:update and gorm:delete, and its two  *)
(* stores, GormStore and the MongoStore of mongodbv2/store.go.  The plugin *)
(* of the module root differs in a few places and is a third "store": it   *)
(* writes audits itself, numbers them by MAX(version) + 1, has no before   *)
(* callbacks and does not ask how many rows a statement affected.          *)
(*                                                                         *)
(* GORM runs each statement in a transaction.  Where in the chain the      *)
(* after callbacks run is GORM's decision, not the plugin's: inTx says     *)
(* whether that is before or after the commit.  The transactions of the    *)
(* SQL database are read committed: statements see committed rows and wait *)
(* for a transaction that has written a row they write.                    *)
(*                                                                         *)
(* A row is represented by the part of it that reaches an audit, one       *)
(* member of Value.  A behaviour belongs to one setup: a configuration, a  *)
(* database, the statements executed and the bounds, calls statements and  *)
(* faults failures.                                                        *)
(***************************************************************************)
EXTENDS Naturals, Sequences, FiniteSets

CONSTANTS
    Client,             \* goroutines executing statements
    Row,                \* primary keys
    Value,              \* the audited content a row can have
    Nil,                \* no row, a soft-deleted row; an unknown before image;
                        \* an update of excluded columns only
    AuditId,            \* auditable_id strings
    MaxCalls,           \* the most statements of a setup
    Setups

(* A statement: ids are the primary keys its model carries, none when the  *)
(* model is a blank struct; slice tells a slice model from a struct, and   *)
(* place where in the slice the caller has put a row; match is the         *)
(* condition.  "update" has a map as Dest, "save" a struct.                *)
Request == [op : {"create", "update", "save", "delete"}, ids : SUBSET Row,
            slice : BOOLEAN, place : [Row -> Nat], match : SUBSET Value,
            val : Value \cup {Nil}]

(* idString is pkStr of a row: the first non-zero primary field.           *)
(* abortOnError: a failed statement aborts its transaction (PostgreSQL).   *)
(* tables: what the table may hold at first.                               *)
(* oneCaller: statements do not overlap.                                   *)
Setup == [store : {"gorm", "mongo", "root"}, inTx : BOOLEAN, abortOnError : BOOLEAN,
          failOnAuditError : BOOLEAN, allowUnauditedBulk : BOOLEAN,
          idString : [Row -> AuditId], requests : SUBSET Request,
          tables : SUBSET [Row -> Value \cup {Nil}], oneCaller : BOOLEAN,
          calls : 0..MaxCalls, faults : Nat]

ASSUME RowAssumption     == Row \subseteq Nat /\ Nil \notin Value
ASSUME BoundAssumption   == MaxCalls \in Nat
ASSUME SetupAssumption   ==
    /\ Setups \subseteq Setup
    /\ \A s \in Setups : s.store = "root" => ~s.failOnAuditError /\ s.allowUnauditedBulk
ASSUME RequestAssumption ==
    \A s \in Setups : \A r \in s.requests :
      /\ ~r.slice /\ r.op # "create" => \A x, y \in r.ids : x = y
      /\ \A x, y \in r.ids : r.place[x] = r.place[y] => x = y
      /\ r.val = Nil => r.op \in {"update", "delete"}

VARIABLES
    setup,
    rows,       \* the committed table
    seq,        \* the committed version table, 0 where it has no row yet
    audits,     \* the committed audit table
    write,      \* write[c]: rows the open transaction of c has written
    bump,       \* bump[c][i]: numbers it has taken from the sequence of i
    staged,     \* staged[c]: audits it has inserted
    broken,     \* db.Error is set, or the transaction is aborted
    pc, args, cid,
    snap,       \* the row loaded by beforeUpdate, Nil without one
    todo,       \* audits still to be written
    cur,        \* the audit being written
    calls, faults,
    history,    \* history[x]: the calls that changed row x, in commit order
    reported,   \* calls that handed an error to Config.OnError
    outcome     \* what each statement returned

txVars == <<write, bump, staged, broken>>
vars == <<setup, rows, seq, audits, txVars, pc, args, cid, snap, todo, cur, calls, faults,
          history, reported, outcome>>

Call == 1..MaxCalls
Content == Value \cup {Nil}
Entry == [row : Row, before : Content, after : Content]
Audit == [id : AuditId, action : {"create", "update", "delete"}, version : Nat,
          before : Content, after : Content, call : Call]
PC == {"idle", "before", "write", "version", "insert", "save", "commit"}

NoRequest == [op |-> "delete", ids |-> {}, slice |-> FALSE, place |-> [x \in Row |-> 0],
              match |-> {}, val |-> Nil]
NoAudit == [row |-> 0, before |-> Nil, after |-> Nil, version |-> 0]
NoBump == [i \in AuditId |-> 0]

TypeOK ==
    /\ setup \in Setups
    /\ rows \in [Row -> Content]
    /\ seq \in [AuditId -> Nat]
    /\ audits \in SUBSET Audit
    /\ write \in [Client -> SUBSET Row]
    /\ bump \in [Client -> [AuditId -> Nat]]
    /\ staged \in [Client -> SUBSET Audit]
    /\ broken \in [Client -> BOOLEAN]
    /\ pc \in [Client -> PC]
    /\ args \in [Call -> Request]
    /\ cid \in [Client -> 0..MaxCalls]
    /\ snap \in [Client -> Content]
    /\ todo \in [Client -> SUBSET Entry]
    /\ cur \in [Client -> [row : Row \cup {0}, before : Content, after : Content,
                           version : Nat]]
    /\ calls \in 0..MaxCalls
    /\ faults \in 0..setup.faults
    /\ history \in [Row -> Seq(Call)]
    /\ reported \in SUBSET Call
    /\ outcome \in [Call -> {"none", "ok", "error", "crash"}]

Init ==
    /\ setup \in Setups
    /\ rows \in setup.tables
    /\ seq = NoBump
    /\ audits = {}
    /\ write = [c \in Client |-> {}]
    /\ bump = [c \in Client |-> NoBump]
    /\ staged = [c \in Client |-> {}]
    /\ broken = [c \in Client |-> FALSE]
    /\ pc = [c \in Client |-> "idle"]
    /\ args = [k \in Call |-> NoRequest]
    /\ cid = [c \in Client |-> 0]
    /\ snap = [c \in Client |-> Nil]
    /\ todo = [c \in Client |-> {}]
    /\ cur = [c \in Client |-> NoAudit]
    /\ calls = 0
    /\ faults = 0
    /\ history = [x \in Row |-> <<>>]
    /\ reported = {}
    /\ outcome = [k \in Call |-> "none"]

-----------------------------------------------------------------------------
(* Helpers *)

Req(c) == args[cid[c]]

PkStr(x) == setup.idString[x]

(* Mutant of ActionOf: the callback's own name is recorded. *)
ActionOfCallback(op) == op

ActionOf(op) == IF op = "save" THEN "update" ELSE op

(* GORM adds the primary keys of the model to the condition. *)
Targets(r) ==
    IF r.op = "create" THEN r.ids
    ELSE {x \in (IF r.ids = {} THEN Row ELSE r.ids) : rows[x] \in r.match}

NewContent(r, old) == IF r.op = "delete" THEN Nil ELSE IF r.val = Nil THEN old ELSE r.val

Fault == faults < setup.faults /\ faults' = faults + 1

HandleError(c) == reported' = reported \cup {cid[c]}

(* The transaction of c ends; its locks go with it. *)
EndTx(c) ==
    /\ write' = [write EXCEPT ![c] = {}]
    /\ bump' = [bump EXCEPT ![c] = NoBump]
    /\ staged' = [staged EXCEPT ![c] = {}]

Return(c, o) ==
    /\ pc' = [pc EXCEPT ![c] = "idle"]
    /\ outcome' = [outcome EXCEPT ![cid[c]] = o]

Goto(c, label) == pc' = [pc EXCEPT ![c] = label] /\ UNCHANGED outcome

Rollback(c, o) ==
    /\ EndTx(c)
    /\ Return(c, o)
    /\ UNCHANGED <<rows, seq, audits, history>>

(* audit() is done with one entry: go on with the next, whatever happened  *)
(* to this one.                                                            *)
NextEntry(c) ==
    IF todo'[c] # {} THEN Goto(c, "version")
    ELSE IF setup.inTx THEN Goto(c, "commit")
    ELSE Return(c, IF broken'[c] THEN "error" ELSE "ok")

-----------------------------------------------------------------------------
(* Callbacks and statement *)

Begin(c, r) ==
    /\ pc[c] = "idle"
    /\ calls < setup.calls
    /\ setup.oneCaller => \A d \in Client : pc[d] = "idle"
    /\ calls' = calls + 1
    /\ cid' = [cid EXCEPT ![c] = calls + 1]
    /\ args' = [args EXCEPT ![calls + 1] = r]
    /\ broken' = [broken EXCEPT ![c] = FALSE]
    /\ snap' = [snap EXCEPT ![c] = Nil]
    /\ todo' = [todo EXCEPT ![c] = {}]
    /\ cur' = [cur EXCEPT ![c] = NoAudit]
    /\ Goto(c, "before")
    /\ UNCHANGED <<setup, rows, seq, audits, write, bump, staged, faults, history,
                   reported>>

(* ErrBulkMutationUnsupported: a struct model without a primary key. *)
Refused(r) ==
    r.op # "create" /\ ~r.slice /\ r.ids = {} /\ ~setup.allowUnauditedBulk

(* The before callback has nothing to do: creates have none, and those of  *)
(* updates and deletes leave slice models alone.                           *)
Unguarded(r) ==
    /\ ~Refused(r)
    /\ setup.store = "root" \/ r.op \in {"create", "delete"} \/ r.slice \/ r.ids = {}

Guard(c) ==
    /\ pc[c] = "before"
    /\ \/ Unguarded(Req(c)) /\ Goto(c, "write") /\ UNCHANGED <<write, bump, staged>>
       \/ ~Unguarded(Req(c)) /\ Refused(Req(c)) /\ EndTx(c) /\ Return(c, "error")
    /\ UNCHANGED <<rows, seq, audits, broken, args, cid, snap, todo, cur, calls,
                   faults, history, reported>>

(* The snapshot cannot be had: fail closed, or update without one. *)
NoSnapshot(c) ==
    /\ HandleError(c)
    /\ IF setup.failOnAuditError THEN EndTx(c) /\ Return(c, "error")
                           ELSE Goto(c, "write") /\ UNCHANGED <<write, bump, staged>>
    /\ UNCHANGED snap

(* beforeUpdate loads a row by pkStr alone: the first one to have it. *)
BeforeUpdate(c) ==
    LET same == {y \in Row :
                   rows[y] # Nil /\ \E x \in Req(c).ids : PkStr(x) = PkStr(y)}
    IN /\ pc[c] = "before"
       /\ ~Unguarded(Req(c)) /\ ~Refused(Req(c))
       /\ IF same = {}
            THEN NoSnapshot(c)
            ELSE /\ snap' = [snap EXCEPT ![c] = rows[CHOOSE y \in same : \A z \in same : y <= z]]
                 /\ Goto(c, "write")
                 /\ UNCHANGED <<write, bump, staged, reported>>
       /\ UNCHANGED <<rows, seq, audits, broken, args, cid, todo, cur, calls, faults, history>>

SnapshotFails(c) ==
    /\ pc[c] = "before"
    /\ ~Unguarded(Req(c)) /\ ~Refused(Req(c))
    /\ Fault
    /\ NoSnapshot(c)
    /\ broken' = [broken EXCEPT ![c] = setup.abortOnError]
    /\ UNCHANGED <<rows, seq, audits, args, cid, todo, cur, calls, history>>

(* An update or save that audit() has nothing to write for: its model is   *)
(* no struct, its map names excluded columns only, or its struct does not  *)
(* differ from the snapshot or there is none to compare it with.  Without  *)
(* snapshots no Save is ever audited: GORM compares the struct to itself.  *)
Unaudited(c) ==
    LET r == Req(c)
    IN \/ r.op \in {"update", "save"} /\ r.slice
       \/ r.op = "update" /\ r.val = Nil
       \/ r.op = "save" /\ snap[c] \in {Nil, r.val}

(* Mutant of Entries: the old values are read after the update. *)
EntriesReadLate(c) ==
    LET r == Req(c)
    IN {[row |-> x,
         before |-> IF r.op = "create" THEN Nil ELSE r.val,
         after |-> IF r.op = "delete" THEN Nil ELSE r.val] :
           x \in IF Unaudited(c) THEN {} ELSE r.ids}

(* What audit() writes for a statement that affected rows: one entry per   *)
(* element of the model.  A delete records the values in memory.           *)
Entries(c) ==
    LET r == Req(c)
    IN {[row |-> x,
         before |-> IF r.op = "create" THEN Nil ELSE IF r.op = "delete" THEN r.val ELSE snap[c],
         after |-> IF r.op = "delete" THEN Nil ELSE r.val] :
           x \in IF Unaudited(c) THEN {} ELSE r.ids}

(* After a failed statement the plugin of the module root tries to audit,  *)
(* and its session refuses.                                                *)
AuditsFailure(c) ==
    IF setup.store = "root" /\ Entries(c) # {} THEN HandleError(c) ELSE UNCHANGED reported

Locked(c, x) == \E d \in Client \ {c} : x \in write[d]

(* The statement itself. *)
Write(c) ==
    LET r == Req(c)
        D == Targets(r)
    IN /\ pc[c] = "write"
       /\ ~broken[c]
       /\ \A x \in D : ~Locked(c, x)
       /\ IF r.op = "create" /\ \E x \in D : rows[x] # Nil
            THEN /\ Rollback(c, "error") /\ UNCHANGED todo
                 /\ AuditsFailure(c)
            ELSE /\ write' = [write EXCEPT ![c] = D]
                 /\ todo' = [todo EXCEPT ![c] = IF D = {} /\ setup.store # "root"
                                                  THEN {} ELSE Entries(c)]
                 /\ UNCHANGED reported
                 /\ IF setup.inTx /\ todo'[c] # {} THEN Goto(c, "version") ELSE Goto(c, "commit")
                 /\ UNCHANGED <<rows, seq, audits, bump, staged, history>>
       /\ UNCHANGED <<broken, args, cid, snap, cur, calls, faults>>

(* In an aborted transaction, or for a reason of its own. *)
WriteFails(c) ==
    /\ pc[c] = "write"
    /\ IF broken[c] THEN UNCHANGED faults ELSE Fault
    /\ Rollback(c, "error")
    /\ AuditsFailure(c)
    /\ UNCHANGED <<broken, args, cid, snap, todo, cur, calls>>

(* What becomes permanent when c commits. *)
Publish(c) ==
    /\ rows' = [x \in Row |-> IF x \in write[c] THEN NewContent(Req(c), rows[x]) ELSE rows[x]]
    /\ history' = [x \in Row |-> IF x \in write[c] THEN Append(history[x], cid[c])
                                                  ELSE history[x]]
    /\ audits' = audits \cup staged[c]
    /\ seq' = [i \in AuditId |-> seq[i] + bump[c][i]]
    /\ EndTx(c)

Commit(c) ==
    /\ pc[c] = "commit"
    /\ IF broken[c] THEN Rollback(c, "error")
       ELSE /\ Publish(c)
            /\ IF ~setup.inTx /\ todo[c] # {} THEN Goto(c, "version") ELSE Return(c, "ok")
    /\ UNCHANGED <<broken, args, cid, snap, todo, cur, calls, faults, reported>>

(* The answer to the commit is lost; with an error set nothing is audited. *)
CommitFails(c) ==
    /\ pc[c] = "commit"
    /\ Fault
    /\ IF broken[c] THEN Rollback(c, "error")
       ELSE Rollback(c, "error") \/ (Publish(c) /\ Return(c, "error"))
    /\ todo' = [todo EXCEPT ![c] = {}]
    /\ IF setup.inTx THEN UNCHANGED reported ELSE AuditsFailure(c)
    /\ UNCHANGED <<broken, args, cid, snap, cur, calls>>

-----------------------------------------------------------------------------
(* Writing the audits *)

(* The store's statement belongs to the transaction of the callback. *)
Joined == setup.inTx /\ setup.store # "mongo"

(* Mutant of AuditFails: AddError is forgotten. *)
AuditFailsOpen(c, aborts) ==
    /\ HandleError(c)
    /\ broken' = [broken EXCEPT ![c] = @ \/ (aborts /\ Joined /\ setup.abortOnError)]
    /\ NextEntry(c)

(* nextVersion or persist reports an error; aborts tells whether it comes  *)
(* from a statement of the store.                                          *)
AuditFails(c, aborts) ==
    /\ HandleError(c)
    /\ broken' = [broken EXCEPT ![c] =
                    @ \/ setup.failOnAuditError \/ (aborts /\ Joined /\ setup.abortOnError)]
    /\ NextEntry(c)

(* Mutant of Chosen: the elements are collected in a map, which a range     *)
(* statement visits in any order.                                          *)
ChosenAny(c) == todo[c]

(* The next element, in the order of the caller's slice. *)
Chosen(c) ==
    {e \in todo[c] : \A f \in todo[c] : Req(c).place[e.row] <= Req(c).place[f.row]}

Numbered(e, n) == [row |-> e.row, before |-> e.before, after |-> e.after, version |-> n]

(* Mutant of Take: the number is read and not counted. *)
TakeReads(c, i) == UNCHANGED <<seq, bump>>

(* A number is taken from the sequence of i, within the transaction or at  *)
(* once.                                                                   *)
Take(c, i) ==
    IF Joined THEN bump' = [bump EXCEPT ![c][i] = @ + 1] /\ UNCHANGED seq
              ELSE seq' = [seq EXCEPT ![i] = @ + 1] /\ UNCHANGED bump

Current(c, i) == seq[i] + bump[c][i]

(* Mutant of SequenceFree: the upsert does not lock the sequence row. *)
SequenceAlwaysFree(c, i) == TRUE

SequenceFree(c, i) == \A d \in Client \ {c} : bump[d][i] = 0

(* The session of GormStore carries db.Error over, and an aborted          *)
(* transaction refuses every statement.                                    *)
Refuses(c) == setup.store # "mongo" /\ broken[c]

(* c waits for a sequence row that d has written and not yet committed, or *)
(* is in a circle of such waits, of which the database fails one.          *)
Waits(c, d) ==
    /\ pc[c] = "version"
    /\ setup.store = "gorm" /\ Joined /\ ~Refuses(c)
    /\ c # d /\ \E e \in Chosen(c) : bump[d][PkStr(e.row)] > 0

Deadlocked(c) ==
    \E S \in SUBSET Client :
      /\ c \in S
      /\ \A x \in S : (\E y \in S : Waits(x, y)) /\ (\E y \in S : Waits(y, x))

(* Mutant of NextVersion: an element whose upsert is refused is retried. *)
NextVersionRetries(c) ==
    /\ pc[c] = "version"
    /\ setup.store # "root"
    /\ \E e \in Chosen(c) :
         LET i == PkStr(e.row)
             waits == setup.store = "mongo" /\ seq[i] = 0
         IN /\ todo' = [todo EXCEPT ![c] = IF Refuses(c) THEN @ ELSE @ \ {e}]
            /\ IF Refuses(c)
                 THEN AuditFails(c, TRUE) /\ UNCHANGED <<seq, bump, cur>>
                 ELSE /\ setup.store = "gorm" => SequenceFree(c, i)
                      /\ cur' = [cur EXCEPT ![c] =
                                   Numbered(e, IF waits THEN 0 ELSE Current(c, i) + 1)]
                      /\ IF waits THEN Goto(c, "insert") /\ UNCHANGED <<seq, bump>>
                                  ELSE Goto(c, "save") /\ Take(c, i)
                      /\ UNCHANGED <<broken, reported>>
    /\ UNCHANGED <<rows, audits, write, staged, args, cid, snap, calls, faults, history>>

(* GormStore.NextVersion is one upsert; MongoStore.NextVersion increments  *)
(* the document it finds or goes on to insert one.                         *)
NextVersion(c) ==
    /\ pc[c] = "version"
    /\ setup.store # "root"
    /\ \E e \in Chosen(c) :
         LET i == PkStr(e.row)
             waits == setup.store = "mongo" /\ seq[i] = 0
         IN /\ todo' = [todo EXCEPT ![c] = @ \ {e}]
            /\ IF Refuses(c)
                 THEN AuditFails(c, TRUE) /\ UNCHANGED <<seq, bump, cur>>
                 ELSE /\ setup.store = "gorm" => SequenceFree(c, i)
                      /\ cur' = [cur EXCEPT ![c] =
                                   Numbered(e, IF waits THEN 0 ELSE Current(c, i) + 1)]
                      /\ IF waits THEN Goto(c, "insert") /\ UNCHANGED <<seq, bump>>
                                  ELSE Goto(c, "save") /\ Take(c, i)
                      /\ UNCHANGED <<broken, reported>>
    /\ UNCHANGED <<rows, audits, write, staged, args, cid, snap, calls, faults, history>>

(* Mutants of InsertVersion: the error goes nowhere, ... *)
InsertSwallows(c) ==
    LET i == PkStr(cur[c].row)
    IN /\ pc[c] = "insert"
       /\ UNCHANGED <<broken, todo>>
       /\ IF seq[i] = 0
            THEN /\ seq' = [seq EXCEPT ![i] = 1]
                 /\ cur' = [cur EXCEPT ![c].version = 1]
                 /\ Goto(c, "save")
            ELSE UNCHANGED <<seq, cur>> /\ NextEntry(c)
       /\ UNCHANGED <<rows, audits, write, bump, staged, args, cid, snap, calls,
                      faults, history, reported>>

(* ... or the document is overwritten. *)
InsertOverwrites(c) ==
    /\ pc[c] = "insert"
    /\ seq' = [seq EXCEPT ![PkStr(cur[c].row)] = 1]
    /\ cur' = [cur EXCEPT ![c].version = 1]
    /\ Goto(c, "save")
    /\ UNCHANGED <<rows, audits, txVars, args, cid, snap, todo, calls, faults,
                   history, reported>>

(* The insert of MongoStore's upsert: a duplicate key error is not retried. *)
InsertVersion(c) ==
    LET i == PkStr(cur[c].row)
    IN /\ pc[c] = "insert"
       /\ \/ /\ seq[i] = 0
             /\ seq' = [seq EXCEPT ![i] = 1]
             /\ cur' = [cur EXCEPT ![c].version = 1]
             /\ Goto(c, "save")
             /\ UNCHANGED <<broken, reported, todo>>
          \/ /\ seq[i] # 0
             /\ UNCHANGED <<seq, cur, todo>>
             /\ AuditFails(c, FALSE)
       /\ UNCHANGED <<rows, audits, write, bump, staged, args, cid, snap, calls,
                      faults, history>>

(* The number is not learnt, and may have been counted by MongoDB or by a  *)
(* statement outside any transaction.                                      *)
VersionFails(c) ==
    /\ pc[c] = "version"
    /\ setup.store # "root"
    /\ IF Deadlocked(c) THEN UNCHANGED faults ELSE Fault
    /\ \E e \in Chosen(c) :
         /\ todo' = [todo EXCEPT ![c] = @ \ {e}]
         /\ \/ UNCHANGED seq
            \/ ~Joined /\ ~Refuses(c) /\ seq' = [seq EXCEPT ![PkStr(e.row)] = @ + 1]
    /\ AuditFails(c, TRUE)
    /\ UNCHANGED <<rows, audits, write, bump, staged, args, cid, snap, cur, calls, history>>

(* The version of the last audit of i that c can see, 0 without one. *)
MaxVersion(c, i) ==
    LET seen == {a.version : a \in {b \in audits \cup staged[c] : b.id = i}}
    IN CHOOSE n \in seen \cup {0} : \A m \in seen : m <= n

(* nextVersion of the module root, which reads without a lock ... *)
ReadMax(c) ==
    /\ pc[c] = "version"
    /\ setup.store = "root" /\ ~Refuses(c)
    /\ \E e \in Chosen(c) :
         /\ todo' = [todo EXCEPT ![c] = @ \ {e}]
         /\ cur' = [cur EXCEPT ![c] = Numbered(e, MaxVersion(c, PkStr(e.row)) + 1)]
    /\ Goto(c, "save")
    /\ UNCHANGED <<rows, seq, audits, txVars, args, cid, snap, calls, faults, history,
                   reported>>

(* ... and answers 1 when it cannot. *)
ReadMaxFails(c) ==
    /\ pc[c] = "version"
    /\ setup.store = "root"
    /\ IF Refuses(c) THEN UNCHANGED faults ELSE Fault
    /\ \E e \in Chosen(c) :
         /\ todo' = [todo EXCEPT ![c] = @ \ {e}]
         /\ cur' = [cur EXCEPT ![c] = Numbered(e, 1)]
    /\ HandleError(c)
    /\ broken' = [broken EXCEPT ![c] = @ \/ (Joined /\ setup.abortOnError)]
    /\ Goto(c, "save")
    /\ UNCHANGED <<rows, seq, audits, write, bump, staged, args, cid, snap, calls, history>>

AuditOf(c) ==
    [id |-> PkStr(cur[c].row), action |-> ActionOf(Req(c).op),
     version |-> cur[c].version, before |-> cur[c].before, after |-> cur[c].after,
     call |-> cid[c]]

Insert(c) ==
    IF Joined
      THEN staged' = [staged EXCEPT ![c] = @ \cup {AuditOf(c)}] /\ UNCHANGED audits
      ELSE audits' = audits \cup {AuditOf(c)} /\ UNCHANGED staged

(* Mutants of Save: GormStore writes through its own connection, ... *)
SaveOutside(c) ==
    /\ pc[c] = "save"
    /\ audits' = audits \cup {AuditOf(c)}
    /\ UNCHANGED <<broken, todo>>
    /\ NextEntry(c)
    /\ UNCHANGED <<rows, seq, write, bump, staged, args, cid, snap, cur, calls,
                   faults, history, reported>>

(* ... and a batch ends with its first element. *)
SaveFirstOnly(c) ==
    /\ pc[c] = "save"
    /\ Insert(c)
    /\ UNCHANGED broken
    /\ todo' = [todo EXCEPT ![c] = {}]
    /\ NextEntry(c)
    /\ UNCHANGED <<rows, seq, write, bump, args, cid, snap, cur, calls, faults,
                   history, reported>>

(* Store.Save and the OnAudit callback. *)
Save(c) ==
    /\ pc[c] = "save"
    /\ ~Refuses(c)
    /\ Insert(c)
    /\ UNCHANGED <<broken, todo>>
    /\ NextEntry(c)
    /\ UNCHANGED <<rows, seq, write, bump, args, cid, snap, cur, calls, faults,
                   history, reported>>

(* Save fails, or it is applied and its answer lost or OnAudit panics. *)
SaveFails(c) ==
    /\ pc[c] = "save"
    /\ IF Refuses(c) THEN UNCHANGED faults ELSE Fault
    /\ UNCHANGED todo
    /\ \/ UNCHANGED <<audits, staged>> /\ AuditFails(c, TRUE)
       \/ ~Refuses(c) /\ Insert(c) /\ AuditFails(c, FALSE)
    /\ UNCHANGED <<rows, seq, write, bump, args, cid, snap, cur, calls, history>>

(* The process dies; the database rolls its transaction back. *)
Crash(c) ==
    /\ pc[c] # "idle"
    /\ Fault
    /\ Rollback(c, "crash")
    /\ UNCHANGED <<broken, args, cid, snap, todo, cur, calls, reported>>

Step(c) ==
    /\ \/ Guard(c) \/ BeforeUpdate(c) \/ Write(c) \/ (broken[c] /\ WriteFails(c))
       \/ Commit(c) \/ NextVersion(c) \/ InsertVersion(c) \/ Save(c)
       \/ (Deadlocked(c) /\ VersionFails(c))
       \/ ReadMax(c) \/ (Refuses(c) /\ (ReadMaxFails(c) \/ SaveFails(c)))
    /\ UNCHANGED setup

Failure(c) ==
    /\ \/ SnapshotFails(c) \/ (~broken[c] /\ WriteFails(c)) \/ CommitFails(c)
       \/ (~Deadlocked(c) /\ VersionFails(c)) \/ Crash(c)
       \/ (~Refuses(c) /\ (ReadMaxFails(c) \/ SaveFails(c)))
    /\ UNCHANGED setup

Next ==
    \E c \in Client :
      \/ \E r \in setup.requests : Begin(c, r)
      \/ Step(c)
      \/ Failure(c)

Spec == Init /\ [][Next]_vars

(* The scheduler runs every goroutine, and the database grants a lock once *)
(* its holder is done and fails a statement of a circle that waits.        *)
FairSpec == Spec /\ \A c \in Client : WF_vars(Step(c))

-----------------------------------------------------------------------------
(* Properties *)

Slot(a) == <<a.id, a.version>>
Changed(x, k) == \E i \in DOMAIN history[x] : history[x][i] = k
AuditedBy(x, k) == \E a \in audits : a.call = k /\ a.id = PkStr(x)

(* The rows the last call of c could have audited, once it has returned: a *)
(* map of excluded columns and a struct equal to the snapshot have nothing *)
(* to say, only a struct model names the row of an update, and the plugin  *)
(* of the module root does not see what Save changes.                      *)
Named(c) ==
    LET r == Req(c)
        silent == \/ r.op \in {"update", "save"} /\ r.slice
                  \/ r.op = "update" /\ r.val = Nil
                  \/ r.op = "save" /\ (setup.store = "root" \/ snap[c] = r.val)
    IN IF pc[c] # "idle" \/ cid[c] = 0 \/ silent THEN {} ELSE r.ids

(* uniq_auditable_version never rejects an audit: no two audits of one id  *)
(* carry the same version, whichever transactions roll back.  MAX(version) *)
(* + 1 gives this to one caller as long as nothing goes wrong.             *)
UniqueVersions ==
    setup.store # "root" \/ (setup.oneCaller /\ reported = {}) =>
      \A a, b \in audits : Slot(a) = Slot(b) => a = b

(* README.md:186, docs/how-it-works.md:128: with GormStore, callbacks in   *)
(* the transaction and FailOnAuditError, a change and its audit commit     *)
(* together or not at all.                                                 *)
AuditedIffCommitted ==
    Joined =>
      /\ setup.store = "gorm" => \A a \in audits : \E x \in Row : Changed(x, a.call)
      /\ setup.failOnAuditError =>
           \A c \in Client : \A x \in Named(c) : Changed(x, cid[c]) => AuditedBy(x, cid[c])

(* A statement that returned without error has audited every row it        *)
(* changed and could name, or reported why not, wherever the callbacks run *)
(* and whatever the store.                                                 *)
NoSilentGap ==
    \A c \in Client : \A x \in Named(c) :
      outcome[cid[c]] = "ok" /\ Changed(x, cid[c]) =>
        AuditedBy(x, cid[c]) \/ cid[c] \in reported

(* Within the transaction the number is taken under the lock on the row:   *)
(* the audits of calls that changed it have the order of the commits, even *)
(* when the number is MAX(version) + 1, unless that could not be read.     *)
VersionOrderIsCommitOrder ==
    Joined =>
      \A x \in Row : \A a, b \in audits : \A i, j \in DOMAIN history[x] :
        /\ a.id = PkStr(x) /\ b.id = PkStr(x)
        /\ history[x][i] = a.call /\ history[x][j] = b.call
        /\ i < j
        /\ setup.store = "root" => b.call \notin reported
        => a.version < b.version

(* audit.go:46: increments commit with the audit row.  When an audit error *)
(* also undoes the transaction the trail has no gap at all, whatever fails. *)
DenseTrail ==
    Joined /\ setup.store = "gorm" /\ (setup.failOnAuditError \/ setup.abortOnError) =>
      \A i \in AuditId :
        {a.version : a \in {b \in audits : b.id = i}} = 1..seq[i]

(* The updates that change content name their row: the plugin is silent    *)
(* about those of a slice model, and, where it lets them pass, of a blank  *)
(* one.                                                                    *)
NamesUpdates ==
    \A r \in setup.requests :
      r.op \in {"update", "save"} /\ r.val # Nil =>
        ~r.slice /\ (r.ids # {} \/ ~setup.allowUnauditedBulk)

(* With one caller, no failure and rows that differ in their first key     *)
(* column the audits of updates replay the row: the before image of an     *)
(* update is where the audit before it left the row, unless that is a      *)
(* delete: a batch audits rows it did not find as deleted, too.  The       *)
(* plugin of the module root records no before image: it says nothing of   *)
(* its updates.                                                            *)
Undisturbed ==
    /\ setup.oneCaller /\ faults = 0 /\ NamesUpdates
    /\ \A x, y \in Row : PkStr(x) = PkStr(y) => x = y

UpdatesReplay ==
    Undisturbed =>
    \A x \in Row :
      LET trail == {a \in audits : a.id = PkStr(x)}
      IN \A a, b \in trail :
           /\ b.version = a.version + 1
           /\ a.action # "delete" /\ b.action = "update" /\ b.before # Nil
           => b.before = a.after

(* The trail of MongoStore, and of GormStore outside a transaction, keeps  *)
(* the contract of AuditStore: each number is issued once and recorded at  *)
(* most once.  (Inside one, a rollback takes numbers back; the plugin of    *)
(* the module root has no sequence.)                                       *)
Body == [action : {"create", "update", "delete"}, before : Content, after : Content,
         call : Call]
Split(a) == [id |-> a.id, version |-> a.version,
             body |-> [action |-> a.action, before |-> a.before, after |-> a.after,
                       call |-> a.call]]
Held == {<<PkStr(cur[c].row), cur[c].version>> : c \in {d \in Client : pc[d] = "save"}}
Sequenced == setup.store # "root" /\ ~Joined
Trail == INSTANCE AuditTrail WITH
           Entity <- AuditId,
           issued <- IF Sequenced THEN seq ELSE NoBump,
           held <- IF Sequenced THEN Held ELSE {},
           trail <- IF Sequenced THEN {Split(a) : a \in audits} ELSE {}
TrailSpec == Trail!Spec

(* Batches whose callers list the sequences they share in one order never  *)
(* deadlock: the loop takes the elements as they are listed, and nothing   *)
(* else in the audit of a batch takes a lock out of that order.            *)
InOrder(rank, r) ==
    \A x, y \in r.ids : r.place[x] <= r.place[y] => rank[PkStr(x)] <= rank[PkStr(y)]

OneOrder ==
    \E rank \in [AuditId -> 1..Cardinality(AuditId)] :
      /\ \A i, j \in AuditId : rank[i] = rank[j] => i = j
      /\ \A r \in setup.requests : InOrder(rank, r)

OneOrderNeverDeadlocks == OneOrder => \A c \in Client : ~Deadlocked(c)

(* Every statement returns, although a batch keeps the sequence rows of    *)
(* the elements it is done with while it waits for the next: a circle of   *)
(* such waits costs the element the database fails, and no transaction is  *)
(* tried again in vain.                                                    *)
StatementsReturn == \A c \in Client : pc[c] # "idle" ~> pc[c] = "idle"
=============================================================================
