---------------------------- MODULE GormSelfAudit ----------------------------
(***************************************************************************)
(* GormStore of postgres-gorm and the plugin of the module root write      *)
(* their own rows through the *gorm.DB the plugin listens on, so that the  *)
(* callbacks run for the rows of the library too, nested in the callback   *)
(* that wrote them.  The plugins tell them by the table of their schema,   *)
(* which is the TableName of their type even when the statement names      *)
(* another table.                                                          *)
(*                                                                         *)
(* One goroutine creates batches, fail open.  Bounds: MaxStatements        *)
(* statements, MaxDepth nested callbacks on the goroutine's stack.         *)
(***************************************************************************)
EXTENDS Naturals, Sequences

CONSTANTS
    AppTable,       \* tables of the application
    Batch,          \* sizes of the batches it creates
    Configs,        \* configurations explored
    MaxStatements, MaxDepth

(* tableName is Config.TableName, "audits" by default; versionTable has    *)
(* "_versions" appended; migrated are the tables that exist.               *)
Config == [plugin : {"postgres-gorm", "root"}, skipTables : SUBSET STRING,
           tableName : STRING, versionTable : STRING, migrated : SUBSET STRING]

ASSUME ConfigAssumption == Configs \subseteq Config
ASSUME BatchAssumption == Batch \subseteq Nat \ {0}
ASSUME BoundAssumption == MaxStatements \in Nat /\ MaxDepth \in Nat \ {0}

VARIABLES
    config,
    stack,      \* the statements being executed, innermost first
    audits,     \* audits[t]: audits written for rows of schema table t
    owed,       \* owed[t]: elements the application created in t, if not skipped
    reported,   \* reported[t]: errors given to Config.OnError for rows of t
    statements,
    crashed     \* the goroutine's stack overflowed

vars == <<config, stack, audits, owed, reported, statements, crashed>>

(* TableName() of Audit and AuditVersion. *)
AuditSchema == "audits"
VersionSchema == "audit_versions"
Schema == AppTable \cup {AuditSchema, VersionSchema}

(* The statement created left elements that have still to be audited; the  *)
(* first of them has its number when numbered.                             *)
Frame == [schema : Schema, left : Nat, numbered : BOOLEAN]

TypeOK ==
    /\ config \in Configs
    /\ stack \in Seq(Frame)
    /\ audits \in [Schema -> Nat]
    /\ owed \in [AppTable -> Nat]
    /\ reported \in [Schema -> Nat]
    /\ statements \in 0..MaxStatements
    /\ crashed \in BOOLEAN

Init ==
    /\ config \in Configs
    /\ stack = <<>>
    /\ audits = [t \in Schema |-> 0]
    /\ owed = [t \in AppTable |-> 0]
    /\ reported = [t \in Schema |-> 0]
    /\ statements = 0
    /\ crashed = FALSE

-----------------------------------------------------------------------------
(* Mutant of SkipSet: the audit table is not in it. *)
SkipSetOfConfig == config.skipTables

(* New, of both plugins: the audit table and Config.SkipTables. *)
SkipSet == {config.tableName} \cup config.skipTables

Top == stack[1]

(* shouldSkip looks at the table of the schema. *)
Skipped(schema) == schema \in SkipSet

Created(schema, n) == [schema |-> schema, left |-> n, numbered |-> FALSE]

(* The loop over the elements goes on, n of them further. *)
Advanced(f, n) == [schema |-> f.schema, left |-> f.left - n, numbered |-> FALSE]

(* The application creates a batch. *)
Create(t, n) ==
    /\ stack = <<>> /\ ~crashed
    /\ statements < MaxStatements
    /\ statements' = statements + 1
    /\ stack' = <<Created(t, n)>>
    /\ owed' = [owed EXCEPT ![t] = @ + (IF Skipped(t) THEN 0 ELSE n)]
    /\ UNCHANGED <<config, audits, reported, crashed>>

(* Mutant of Done: the loop ends one element early. *)
DoneEarly ==
    /\ stack # <<>>
    /\ Skipped(Top.schema) \/ (Top.left <= 1 /\ ~Top.numbered)
    /\ stack' = Tail(stack)
    /\ UNCHANGED <<config, audits, owed, reported, statements, crashed>>

(* The innermost statement returns to the callback that executed it. *)
Done ==
    /\ stack # <<>>
    /\ Skipped(Top.schema) \/ Top.left = 0
    /\ stack' = Tail(stack)
    /\ UNCHANGED <<config, audits, owed, reported, statements, crashed>>

HandleError == reported' = [reported EXCEPT ![Top.schema] = @ + 1]

(* A create that failed runs its callbacks too: those of postgres-gorm     *)
(* return at db.Error, those of the module root only for a skipped table.  *)
FailureEnds(schema) == config.plugin = "postgres-gorm" \/ Skipped(schema)

(* The store executes a statement from the callback that is on top, which  *)
(* goes on as frame when it returns.  The table may be missing, and the    *)
(* stack may be exhausted.  A create that failed and whose callbacks go on *)
(* never returns: they execute the same create.                            *)
Nested(table, schema, frame) ==
    IF table \notin config.migrated /\ FailureEnds(schema)
      THEN /\ stack' = <<Advanced(Top, 1)>> \o Tail(stack)
           /\ HandleError
           /\ UNCHANGED <<audits, crashed>>
    ELSE IF Len(stack) = MaxDepth
      THEN /\ stack' = <<>>
           /\ crashed' = TRUE
           /\ UNCHANGED <<audits, reported>>
    ELSE /\ stack' = <<Created(schema, 1), frame>> \o Tail(stack)
         /\ audits' = IF schema = AuditSchema /\ table \in config.migrated
                        THEN [audits EXCEPT ![Top.schema] = @ + 1] ELSE audits
         /\ UNCHANGED <<reported, crashed>>

Auditing == stack # <<>> /\ ~Skipped(Top.schema) /\ Top.left > 0

(* nextVersion for the next element: GormStore creates its sequence row. *)
NextVersion ==
    /\ config.plugin = "postgres-gorm"
    /\ Auditing /\ ~Top.numbered
    /\ Nested(config.versionTable, VersionSchema, [Top EXCEPT !.numbered = TRUE])
    /\ UNCHANGED <<config, owed, statements>>

(* The plugin of the module root queries MAX(version) and, when it cannot, *)
(* goes on with 1.                                                         *)
ReadMax ==
    /\ config.plugin = "root"
    /\ Auditing /\ ~Top.numbered
    /\ stack' = <<[Top EXCEPT !.numbered = TRUE]>> \o Tail(stack)
    /\ IF config.tableName \in config.migrated THEN UNCHANGED reported ELSE HandleError
    /\ UNCHANGED <<config, audits, owed, statements, crashed>>

(* Mutant of Persist: the loop advances by two elements. *)
PersistSkips ==
    /\ Auditing /\ Top.numbered
    /\ Nested(config.tableName, AuditSchema, Advanced(Top, 2))
    /\ UNCHANGED <<config, owed, statements>>

(* persist, and on to the next element. *)
Persist ==
    /\ Auditing /\ Top.numbered
    /\ Nested(config.tableName, AuditSchema, Advanced(Top, 1))
    /\ UNCHANGED <<config, owed, statements>>

Next ==
    \/ \E t \in AppTable, n \in Batch : Create(t, n)
    \/ Done \/ NextVersion \/ ReadMax \/ Persist

Spec == Init /\ [][Next]_vars /\ WF_vars(Done \/ NextVersion \/ ReadMax \/ Persist)

-----------------------------------------------------------------------------
(* Properties *)

(* The plugin of the module root reports an element twice when there is no *)
(* audit table: MAX(version) cannot be read, nor the audit be written.     *)
ReportsTwice == config.plugin = "root" /\ config.tableName \notin config.migrated

(* Between statements each element created in a table that is not skipped  *)
(* has its audit or was reported, table by table, and nothing else has.    *)
OneAuditPerElement ==
    stack = <<>> /\ ~crashed =>
      \A t \in Schema :
        IF t \notin AppTable \/ Skipped(t) THEN audits[t] = 0 /\ reported[t] = 0
        ELSE IF ReportsTwice THEN audits[t] = 0 /\ reported[t] = 2 * owed[t]
        ELSE audits[t] + reported[t] = owed[t]

(* Every statement of the application returns: the callbacks of the        *)
(* library's own rows do not call each other for ever, as long as both     *)
(* schema names, or that of the audits for the plugin of the module root,  *)
(* are skipped.                                                            *)
StatementReturns == [](stack # <<>> => <>(stack = <<>> /\ ~crashed))

(* What the documentation says and the code does not do. *)

(* README.md:372: Migrate(db) creates the audit and sequence tables the    *)
(* SQL store needs.                                                        *)
MigratedStoreWorks == \A t \in Schema : reported[t] = 0

(* plugin.go:88: New returns a plugin that writes an audit row after every *)
(* create.                                                                 *)
PluginSurvivesItself == ~crashed
=============================================================================
