------------------------------- MODULE GormDiff -------------------------------
(***************************************************************************)
(* postgres-gorm: how one statement on one row becomes the audited_changes *)
(* of an audit.  beforeUpdate loads the row, GORM executes the statement,  *)
(* and auditFromMap, auditFromChangedCols or auditSingle compares.  The    *)
(* plugin of the module root loads nothing and knows fewer tags.           *)
(*                                                                         *)
(* A row is a function from Field to a value; Zero is the zero value of    *)
(* every Go type.  Changes are a function from Column to an <<old, new>>   *)
(* pair, Absent where the audit does not mention the column.               *)
(***************************************************************************)
EXTENDS Naturals, FiniteSets

CONSTANTS
    Field,      \* fields of the model
    Column,     \* columns a map can name; those outside Field are no fields
    IdField,    \* the primary key
    Timestamp,  \* CreatedAt, UpdatedAt and DeletedAt
    Value,      \* values of a field
    Zero,       \* the zero value
    Null,       \* Go's nil
    Absent,     \* a key the map does not have, a column without change
    Redacted,   \* Config.RedactedValue
    Calls       \* the statements explored

ASSUME FieldAssumption ==
    /\ IdField \in Field /\ Timestamp \subseteq Field \ {IdField}
    /\ Field \subseteq Column /\ IsFiniteSet(Column)
ASSUME ValueAssumption ==
    Zero \in Value /\ {Null, Absent, Redacted} \cap Value = {}

RowOf == [Field -> Value]
Shows == Value \cup {Null, Redacted}
ASSUME AbsentAssumption ==
    /\ Absent \notin RowOf
    /\ \A x, y \in Shows : <<x, y>> # Absent
    /\ Absent \notin [Column -> (Shows \X Shows) \cup {Absent}]
NoRow == [f \in Field |-> Zero]

(* "only" stands for "true" too. *)
Tag == {"", "-", "false", "redact", "only"}

(* row is the row before the statement; model the struct in memory; dest   *)
(* the map, or the struct of Updates(struct); changed the fields that      *)
(* Statement.Changed reports; loaded whether the snapshot could be had;    *)
(* root tells the plugin of the module root from that of postgres-gorm.    *)
Op == {"create", "map", "struct", "save", "delete"}
Call == [op : Op, tags : [Field -> Tag], row : RowOf, model : RowOf,
         map : [Column -> Value \cup {Absent}], struct : RowOf, loaded : BOOLEAN,
         changed : SUBSET Field, root : BOOLEAN]

ASSUME CallsAssumption == Calls \subseteq Call

-----------------------------------------------------------------------------
(* Tags *)

OnlyMode(tags) == \E f \in Field : tags[f] = "only"

IncludeField(tag, onlyMode) ==
    tag \notin {"-", "false"} /\ (onlyMode => tag \in {"only", "redact"})

Included(s, f) == IncludeField(s.tags[f], OnlyMode(s.tags))

TagOf(tags, col) == IF col \in Field THEN tags[col] ELSE ""

-----------------------------------------------------------------------------
(* The comparisons *)

(* Mutants of Shown: a redacted field is no pair; only the new value is    *)
(* masked.                                                                 *)
ShownBare(tag, old, new) == IF tag = "redact" THEN Redacted ELSE <<old, new>>
ShownOld(tag, old, new) == IF tag = "redact" THEN <<old, Redacted>> ELSE <<old, new>>

Shown(tag, old, new) == IF tag = "redact" THEN <<Redacted, Redacted>> ELSE <<old, new>>

(* auditFromMap: every key of the map, with the value it had. *)
MapChanges(s, snap) ==
    [col \in Column |->
       IF s.map[col] = Absent \/ ~IncludeField(TagOf(s.tags, col), OnlyMode(s.tags))
         THEN Absent
         ELSE Shown(TagOf(s.tags, col),
                    IF snap # Absent /\ col \in Field THEN snap[col] ELSE Null,
                    s.map[col])]

(* The fields a struct changed: those GORM reports, and those that differ  *)
(* from the snapshot.                                                      *)
Differs(s, dest, snap, f) ==
    f \in s.changed \/ (snap # Absent /\ dest[f] # snap[f])

(* Mutant of StructChanges: only what GORM reports counts as changed. *)
StructChangesReported(s, dest, snap) ==
    [col \in Column |->
       IF col \notin Field \ Timestamp \/ ~Included(s, col) \/ col \notin s.changed
         THEN Absent
         ELSE Shown(s.tags[col], IF snap # Absent THEN snap[col] ELSE Null, dest[col])]

(* auditFromChangedCols: dest is the struct of Updates(struct), or the     *)
(* model itself for Save.                                                  *)
StructChanges(s, dest, snap) ==
    [col \in Column |->
       IF col \notin Field \ Timestamp \/ ~Included(s, col) THEN Absent
       ELSE IF ~Differs(s, dest, snap, col) THEN Absent
       ELSE Shown(s.tags[col], IF snap # Absent THEN snap[col] ELSE Null, dest[col])]

(* auditFromMap and auditFromChangedCols of the module root: the keys of   *)
(* the map, or what GORM reports with the value the model holds.           *)
RootMapChanges(s) ==
    [col \in Column |->
       IF s.map[col] = Absent \/ TagOf(s.tags, col) = "false" THEN Absent
       ELSE Shown(TagOf(s.tags, col), Null, s.map[col])]

RootChanges(s) ==
    [col \in Column |->
       IF col \notin s.changed \/ s.tags[col] = "false" THEN Absent
       ELSE Shown(s.tags[col], Null, s.model[col])]

(* auditSingle: every field of the struct in memory. *)
SingleChange(s, f) ==
    LET shown == IF s.tags[f] = "redact" THEN Redacted ELSE s.model[f]
    IN IF s.op = "create" THEN <<Null, shown>> ELSE <<shown, Null>>

SingleChanges(s) ==
    [col \in Column |->
       IF col \notin Field \ Timestamp \/ ~Included(s, col) THEN Absent
       ELSE SingleChange(s, col)]

(* auditSingle of the module root, to which "-" and "true" mean nothing. *)
RootSingleChanges(s) ==
    [col \in Column |->
       IF col \notin Field \ Timestamp \/ s.tags[col] = "false" THEN Absent
       ELSE SingleChange(s, col)]

RootChangesOf(s) ==
    CASE s.op = "map"                  -> RootMapChanges(s)
      [] s.op \in {"struct", "save"}   -> RootChanges(s)
      [] s.op \in {"create", "delete"} -> RootSingleChanges(s)

ChangesOf(s, snap) ==
    CASE s.op = "map"    -> MapChanges(s, snap)
      [] s.op = "struct" -> StructChanges(s, s.struct, snap)
      [] s.op = "save"   -> StructChanges(s, s.model, snap)
      [] s.op \in {"create", "delete"} -> SingleChanges(s)

Mentioned(changes) == {col \in Column : changes[col] # Absent}

-----------------------------------------------------------------------------
(* What GORM does to the row: a map sets its columns, a struct its         *)
(* non-zero fields, Save all fields.                                       *)
Executed(s) ==
    [f \in Field |->
       IF s.op \in {"create", "save"} THEN s.model[f]
       ELSE IF s.op = "map" /\ s.map[f] # Absent THEN s.map[f]
       ELSE IF s.op = "struct" /\ s.struct[f] # Zero THEN s.struct[f]
       ELSE IF s.op = "delete" THEN Zero ELSE s.row[f]]

-----------------------------------------------------------------------------
VARIABLES
    call,       \* the statement
    row,        \* the row in the database
    snap,       \* the snapshot of beforeUpdate, Absent without one
    phase,      \* the next callback
    reported,   \* an error went to Config.OnError
    audit       \* the changes recorded, Absent if no audit was written

vars == <<call, row, snap, phase, reported, audit>>

Init ==
    /\ call \in Calls
    /\ row = call.row
    /\ snap = Absent
    /\ phase = "before"
    /\ reported = FALSE
    /\ audit = Absent

Snapshots == call.op \in {"map", "struct", "save"} /\ ~call.root

(* Mutant of Before: the struct in memory is taken for the row. *)
BeforeModel ==
    /\ phase = "before"
    /\ phase' = "execute"
    /\ IF Snapshots /\ call.loaded THEN snap' = call.model ELSE UNCHANGED snap
    /\ reported' = (Snapshots /\ ~call.loaded)
    /\ UNCHANGED <<call, row, audit>>

(* The before callback, fail open. *)
Before ==
    /\ phase = "before"
    /\ phase' = "execute"
    /\ IF Snapshots /\ call.loaded THEN snap' = row ELSE UNCHANGED snap
    /\ reported' = (Snapshots /\ ~call.loaded)
    /\ UNCHANGED <<call, row, audit>>

Execute ==
    /\ phase = "execute"
    /\ phase' = "after"
    /\ row' = Executed(call)
    /\ UNCHANGED <<call, snap, reported, audit>>

(* The after callback of a statement that changed a row: only those are    *)
(* executed here, so that the plugin's test for an error or no affected    *)
(* row does not bite.  Nothing is written for an empty set of changes.     *)
After ==
    LET changes == IF call.root THEN RootChangesOf(call) ELSE ChangesOf(call, snap)
    IN /\ phase = "after"
       /\ phase' = "done"
       /\ audit' = IF Mentioned(changes) = {} THEN Absent ELSE changes
       /\ UNCHANGED <<call, row, snap, reported>>

Next == Before \/ Execute \/ After

Spec == Init /\ [][Next]_vars

-----------------------------------------------------------------------------
(* Properties *)

TypeOK ==
    /\ call \in Call
    /\ row \in RowOf
    /\ snap = Absent \/ snap \in RowOf
    /\ phase \in {"before", "execute", "after", "done"}
    /\ reported \in BOOLEAN
    /\ audit = Absent \/ audit \in [Column -> (Shows \X Shows) \cup {Absent}]

Masked(f) == call.tags[f] = "redact"
LeftOut(f) ==
    \/ call.tags[f] = "false"
    \/ ~call.root /\ call.tags[f] = "-"
    \/ ~call.root /\ OnlyMode(call.tags) /\ call.tags[f] \notin {"only", "redact"}
Audits(f) == audit # Absent /\ audit[f] # Absent

(* A value of a redacted field is in no audit, one of an excluded field or *)
(* of a field outside the whitelist not even as a name.                    *)
TaggedFieldsStayInside ==
    \A f \in Field : Audits(f) =>
      /\ ~LeftOut(f)
      /\ Masked(f) => \A i \in 1..2 : audit[f][i] \in {Null, Redacted}

(* The audit of Create, Save and Updates(map) turns the row that was there *)
(* into the row that is, on every field it may show and whatever the       *)
(* struct in memory held.  The plugin of the module root knows no old      *)
(* value and does not audit Save.                                          *)
AuditReplaysRow ==
    /\ phase = "done" /\ ~reported
    /\ call.op \in (IF call.root THEN {"create", "map"} ELSE {"create", "save", "map"})
    => \A f \in Field \ Timestamp : ~Masked(f) /\ ~LeftOut(f) =>
         IF Audits(f)
           THEN audit[f] = <<IF call.op = "create" \/ call.root THEN Null ELSE call.row[f],
                             row[f]>>
           ELSE call.row[f] = row[f]

(* An update or delete that changed an audited field and reported nothing  *)
(* is audited, also when GORM does not know that the field changed.  (The  *)
(* plugin of the module root depends on GORM's report.)                    *)
ChangesAreAudited ==
    phase = "done" /\ ~reported =>
      \A f \in Field \ Timestamp :
        /\ call.row[f] # row[f] /\ ~LeftOut(f)
        /\ call.root /\ call.op \in {"struct", "save"} => f \in call.changed
        => Audits(f)

(* What the documentation says and the code does not do. *)

(* README.md:206: the audit of Updates(struct) names the fields reported   *)
(* as changed.                                                             *)
StructAuditNamesChanges ==
    phase = "done" /\ call.op = "struct" /\ ~call.root =>
      \A f \in Field : Audits(f) => f \in call.changed \/ call.row[f] # row[f]
=============================================================================
