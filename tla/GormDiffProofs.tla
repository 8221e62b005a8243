---------------------------- MODULE GormDiffProofs ----------------------------
(***************************************************************************)
(* What the plugins record of one statement, for every model, set of tags, *)
(* row, struct in memory and statement.                                    *)
(***************************************************************************)
EXTENDS GormDiff, TLAPS

(* The inductive invariant: the snapshot is the row as the statement finds *)
(* it, and the audit is what the plugin computes from the two.             *)
Recorded == IF call.root THEN RootChangesOf(call) ELSE ChangesOf(call, snap)

Consistent ==
    /\ call \in Calls
    /\ phase \in {"before", "execute", "after", "done"}
    /\ phase \in {"before", "execute"} => row = call.row
    /\ phase \in {"after", "done"} => row = Executed(call)
    /\ snap \in {Absent, call.row}
    /\ reported \in BOOLEAN
    /\ phase # "before" /\ Snapshots /\ ~reported => snap = call.row
    /\ phase # "done" => audit = Absent
    /\ phase = "done" =>
         audit = IF Mentioned(Recorded) = {} THEN Absent ELSE Recorded

(* The invariant holds at first, ... *)
LEMMA ConsistentInitially == Init => Consistent
BY DEF Init, Consistent

(* ... every step keeps it, ... *)
LEMMA ConsistentNext == Consistent /\ [Next]_vars => Consistent'
<1> SUFFICES ASSUME Consistent, [Next]_vars PROVE Consistent'
  OBVIOUS
<1>1. CASE Before
  <2>1. Snapshots' = Snapshots
    BY <1>1 DEF Before, Snapshots
  <2> QED BY <1>1, <2>1, CallsAssumption DEF Before, Consistent, Call
<1>2. CASE Execute
  BY <1>2 DEF Execute, Consistent, Snapshots
<1>3. CASE After
  <2>1. Recorded' = Recorded
    BY <1>3 DEF After, Recorded
  <2> QED BY <1>3, <2>1 DEF After, Consistent, Snapshots, Recorded
<1>4. CASE UNCHANGED vars
  BY <1>4 DEF vars, Consistent, Snapshots, Recorded
<1> QED BY <1>1, <1>2, <1>3, <1>4 DEF Next

(* ... and it holds in every reachable state. *)
LEMMA AlwaysConsistent == Spec => []Consistent
BY ConsistentInitially, ConsistentNext, PTL DEF Spec

-----------------------------------------------------------------------------
(* The computations. *)

(* What the plugins record is typed. *)
LEMMA ChangesTyped ==
    ASSUME Consistent
    PROVE  Recorded \in [Column -> (Shows \X Shows) \cup {Absent}]
<1>1. call \in Call /\ (snap = Absent \/ snap \in RowOf)
  BY CallsAssumption DEF Consistent, Call
<1>2. CASE call.root
  <2>1. CASE call.op = "map"
    BY <1>1, <1>2, <2>1 DEF Recorded, RootChangesOf, RootMapChanges, Shown, Shows, Call
  <2>2. CASE call.op \in {"struct", "save"}
    BY <1>1, <1>2, <2>2, FieldAssumption
       DEF Recorded, RootChangesOf, RootChanges, Shown, Shows, Call, RowOf
  <2>3. CASE call.op \in {"create", "delete"}
    BY <1>1, <1>2, <2>3, FieldAssumption
       DEF Recorded, RootChangesOf, RootSingleChanges, SingleChange, Shows, Call, RowOf
  <2> QED BY <1>1, <2>1, <2>2, <2>3 DEF Call, Op
<1>3. CASE ~call.root
  <2>1. CASE call.op = "map"
    BY <1>1, <1>3, <2>1 DEF Recorded, ChangesOf, MapChanges, Shown, Shows, Call, RowOf
  <2>2. CASE call.op = "struct"
    BY <1>1, <1>3, <2>2, FieldAssumption
       DEF Recorded, ChangesOf, StructChanges, Shown, Shows, Call, RowOf
  <2>3. CASE call.op = "save"
    BY <1>1, <1>3, <2>3, FieldAssumption
       DEF Recorded, ChangesOf, StructChanges, Shown, Shows, Call, RowOf
  <2>4. CASE call.op \in {"create", "delete"}
    BY <1>1, <1>3, <2>4, FieldAssumption
       DEF Recorded, ChangesOf, SingleChanges, SingleChange, Shows, Call, RowOf
  <2> QED BY <1>1, <2>1, <2>2, <2>3, <2>4 DEF Call, Op
<1> QED BY <1>2, <1>3

(* Both plugins keep an excluded field out and mask a redacted one. *)
LEMMA TagsObeyed ==
    ASSUME Consistent, NEW f \in Field, Recorded[f] # Absent
    PROVE  /\ ~LeftOut(f)
           /\ Masked(f) => \A i \in 1..2 : Recorded[f][i] \in {Null, Redacted}
<1>1. call \in Call /\ f \in Column
  BY CallsAssumption, FieldAssumption DEF Consistent
<1>2. CASE call.root
  <2>1. CASE call.op = "map"
    BY <1>1, <1>2, <2>1
       DEF Recorded, RootChangesOf, RootMapChanges, TagOf, Shown, LeftOut, Masked
  <2>2. CASE call.op \in {"struct", "save"}
    BY <1>1, <1>2, <2>2 DEF Recorded, RootChangesOf, RootChanges, Shown, LeftOut, Masked
  <2>3. CASE call.op \in {"create", "delete"}
    BY <1>1, <1>2, <2>3
       DEF Recorded, RootChangesOf, RootSingleChanges, SingleChange, LeftOut, Masked
  <2> QED BY <1>1, <2>1, <2>2, <2>3 DEF Call, Op
<1>3. CASE ~call.root
  <2> USE DEF IncludeField, Included, LeftOut, Masked
  <2>1. CASE call.op = "map"
    BY <1>1, <1>3, <2>1 DEF Recorded, ChangesOf, MapChanges, TagOf, Shown
  <2>2. CASE call.op \in {"struct", "save"}
    BY <1>1, <1>3, <2>2 DEF Recorded, ChangesOf, StructChanges, Shown
  <2>3. CASE call.op \in {"create", "delete"}
    BY <1>1, <1>3, <2>3 DEF Recorded, ChangesOf, SingleChanges, SingleChange
  <2> QED BY <1>1, <2>1, <2>2, <2>3 DEF Call, Op
<1> QED BY <1>2, <1>3

-----------------------------------------------------------------------------
(* The properties of the runs, for every instance. *)

(* The plugins load, execute and record well-formed rows and changes. *)
THEOREM GormDiffTypeCorrect == Spec => []TypeOK
<1>1. Consistent => TypeOK
  <2> SUFFICES ASSUME Consistent PROVE TypeOK
    OBVIOUS
  <2>1. call \in Call
    BY CallsAssumption DEF Consistent
  <2>2. row \in RowOf
    <3>1. call.row \in RowOf /\ call.model \in RowOf /\ call.struct \in RowOf
      BY <2>1 DEF Call
    <3>2. call.map \in [Column -> Value \cup {Absent}]
      BY <2>1 DEF Call
    <3>3. Executed(call) \in RowOf
      BY <3>1, <3>2, FieldAssumption, ValueAssumption DEF Executed, RowOf
    <3> QED BY <3>1, <3>3 DEF Consistent
  <2>3. audit = Absent \/ audit \in [Column -> (Shows \X Shows) \cup {Absent}]
    BY ChangesTyped DEF Consistent
  <2> QED BY <2>1, <2>2, <2>3 DEF Consistent, TypeOK, Call
<1> QED BY <1>1, AlwaysConsistent, PTL

(* No audit has a value of a redacted field or the name of an excluded     *)
(* one, whatever the statement and whichever plugin.                       *)
THEOREM TagsAreObeyed == Spec => []TaggedFieldsStayInside
<1>1. Consistent => TaggedFieldsStayInside
  <2> SUFFICES ASSUME Consistent, NEW f \in Field, Audits(f)
               PROVE  /\ ~LeftOut(f)
                      /\ Masked(f) => \A i \in 1..2 : audit[f][i] \in {Null, Redacted}
    BY DEF TaggedFieldsStayInside
  <2>1. audit = Recorded /\ Recorded[f] # Absent
    BY DEF Consistent, Audits
  <2> QED BY <2>1, TagsObeyed
<1> QED BY <1>1, AlwaysConsistent, PTL

-----------------------------------------------------------------------------
(* What is audited is what Recorded mentions. *)
LEMMA AuditsRecorded ==
    ASSUME Consistent, phase = "done", NEW f \in Field
    PROVE  /\ Audits(f) <=> Recorded[f] # Absent
           /\ Audits(f) => audit[f] = Recorded[f]
<1>1. f \in Column
  BY FieldAssumption
<1>2. Recorded # Absent
  BY ChangesTyped, AbsentAssumption
<1>3. CASE Mentioned(Recorded) = {}
  BY <1>1, <1>3 DEF Consistent, Audits, Mentioned
<1>4. CASE Mentioned(Recorded) # {}
  <2>1. audit = Recorded
    BY <1>4 DEF Consistent
  <2> QED BY <1>2, <2>1 DEF Audits
<1> QED BY <1>3, <1>4

(* The snapshot of a statement that reported nothing is the row it found.  *)
LEMMA SnapshotIsRow ==
    ASSUME Consistent, phase = "done", ~reported, ~call.root,
           call.op \in {"map", "struct", "save"}
    PROVE  snap = call.row /\ snap # Absent
BY CallsAssumption, AbsentAssumption DEF Consistent, Snapshots, Call

(* Create, Save and Updates(map): on every field an audit may show it      *)
(* leads from the row that was there to the row that is.                   *)
THEOREM AuditsReplay == Spec => []AuditReplaysRow
<1>1. Consistent => AuditReplaysRow
  <2> SUFFICES ASSUME Consistent, phase = "done", ~reported,
                      call.op \in (IF call.root THEN {"create", "map"}
                                                ELSE {"create", "save", "map"}),
                      NEW f \in Field \ Timestamp, ~Masked(f), ~LeftOut(f)
               PROVE  IF Audits(f)
                        THEN audit[f] = <<IF call.op = "create" \/ call.root
                                            THEN Null ELSE call.row[f], row[f]>>
                        ELSE call.row[f] = row[f]
    BY DEF AuditReplaysRow
  <2>1. call \in Call /\ f \in Column /\ row = Executed(call)
    BY CallsAssumption, FieldAssumption DEF Consistent
  <2>2. /\ Audits(f) <=> Recorded[f] # Absent
        /\ Audits(f) => audit[f] = Recorded[f]
    BY AuditsRecorded
  <2>3. CASE call.op = "create"
    <3>1. Recorded[f] = <<Null, row[f]>>
      <4>1. SingleChange(call, f) = <<Null, row[f]>>
        BY <2>1, <2>3 DEF SingleChange, Masked, Executed
      <4>2. CASE call.root
        BY <2>1, <2>3, <4>1, <4>2
           DEF Recorded, RootChangesOf, RootSingleChanges, LeftOut
      <4>3. CASE ~call.root
        <5>1. Included(call, f)
          BY <2>1, <4>3 DEF LeftOut, Included, IncludeField, Call
        <5> QED BY <2>1, <2>3, <4>1, <4>3, <5>1 DEF Recorded, ChangesOf, SingleChanges
      <4> QED BY <4>2, <4>3
    <3>2. Recorded[f] # Absent
      <4>1. row[f] \in Shows /\ Null \in Shows
        BY <2>1, <2>3 DEF Executed, Call, RowOf, Shows
      <4> QED BY <3>1, <4>1, AbsentAssumption
    <3> QED BY <2>2, <2>3, <3>1, <3>2
  <2>4. CASE call.op = "map" /\ call.root
    BY <2>1, <2>2, <2>4, AbsentAssumption
       DEF Recorded, RootChangesOf, RootMapChanges, TagOf, Shown, Masked, LeftOut, Executed,
           Call, RowOf, Shows
  <2>5. CASE call.op = "map" /\ ~call.root
    <3>1. snap = call.row /\ snap # Absent
      BY <2>5, SnapshotIsRow
    <3>2. IncludeField(call.tags[f], OnlyMode(call.tags))
      BY <2>1, <2>5 DEF LeftOut, IncludeField, Call
    <3>3. Recorded[f] = IF call.map[f] = Absent THEN Absent
                        ELSE <<call.row[f], call.map[f]>>
      BY <2>1, <2>5, <3>1, <3>2 DEF Recorded, ChangesOf, MapChanges, TagOf, Shown, Masked
    <3>4. row[f] = IF call.map[f] = Absent THEN call.row[f] ELSE call.map[f]
      BY <2>1, <2>5 DEF Executed
    <3>5. call.map[f] # Absent => <<call.row[f], call.map[f]>> # Absent
      BY <2>1, AbsentAssumption DEF Call, RowOf, Shows
    <3> QED BY <2>2, <2>5, <3>3, <3>4, <3>5
  <2>6. CASE call.op = "save" /\ ~call.root
    <3>1. snap = call.row /\ snap # Absent
      BY <2>6, SnapshotIsRow
    <3>2. Included(call, f)
      BY <2>1, <2>6 DEF LeftOut, Included, IncludeField, Call
    <3>3. row[f] = call.model[f]
      BY <2>1, <2>6 DEF Executed
    <3>4. Recorded[f] = IF Differs(call, call.model, snap, f)
                          THEN <<call.row[f], row[f]>> ELSE Absent
      BY <2>1, <2>6, <3>1, <3>2, <3>3
         DEF Recorded, ChangesOf, StructChanges, Shown, Masked
    <3>5. <<call.row[f], row[f]>> # Absent
      BY <2>1, <3>3, AbsentAssumption DEF Call, RowOf, Shows
    <3> QED BY <2>2, <2>6, <3>1, <3>3, <3>4, <3>5 DEF Differs
  <2> QED BY <2>3, <2>4, <2>5, <2>6
<1> QED BY <1>1, AlwaysConsistent, PTL

(* A statement that changed an audited field and reported nothing has the  *)
(* change in its audit.                                                    *)
THEOREM ChangesReachAudits == Spec => []ChangesAreAudited
<1>1. Consistent => ChangesAreAudited
  <2> SUFFICES ASSUME Consistent, phase = "done", ~reported,
                      NEW f \in Field \ Timestamp,
                      call.row[f] # row[f], ~LeftOut(f),
                      call.root /\ call.op \in {"struct", "save"} => f \in call.changed
               PROVE  Audits(f)
    BY DEF ChangesAreAudited
  <2>1. call \in Call /\ f \in Column /\ row = Executed(call)
    BY CallsAssumption, FieldAssumption DEF Consistent
  <2>2. \A x, y : Shown(call.tags[f], x, y) \in {<<x, y>>, <<Redacted, Redacted>>}
    BY DEF Shown
  <2>3. \A x, y \in Shows : Shown(call.tags[f], x, y) # Absent
    <3>1. Redacted \in Shows
      BY DEF Shows
    <3> QED BY <2>2, <3>1, AbsentAssumption
  <2>4. Null \in Shows /\ call.row[f] \in Shows /\ call.model[f] \in Shows
        /\ call.struct[f] \in Shows /\ (call.map[f] # Absent => call.map[f] \in Shows)
    BY <2>1 DEF Call, RowOf, Shows
  <2>5. SUFFICES Recorded[f] # Absent
    BY AuditsRecorded
  <2>6. ~call.root => Included(call, f) /\ IncludeField(call.tags[f], OnlyMode(call.tags))
    BY <2>1 DEF LeftOut, Included, IncludeField, Call
  <2>7. CASE call.op \in {"create", "delete"}
    <3>1. SingleChange(call, f) # Absent
      BY <2>4, AbsentAssumption DEF SingleChange, Shows
    <3>2. CASE call.root
      BY <2>1, <2>7, <3>1, <3>2 DEF Recorded, RootChangesOf, RootSingleChanges, LeftOut
    <3>3. CASE ~call.root
      BY <2>1, <2>6, <2>7, <3>1, <3>3 DEF Recorded, ChangesOf, SingleChanges
    <3> QED BY <3>2, <3>3
  <2>8. CASE call.op = "map"
    <3>1. call.map[f] # Absent
      BY <2>1, <2>8 DEF Executed
    <3>2. CASE call.root
      BY <2>1, <2>3, <2>4, <2>8, <3>1, <3>2
         DEF Recorded, RootChangesOf, RootMapChanges, TagOf, LeftOut
    <3>3. CASE ~call.root
      BY <2>1, <2>3, <2>4, <2>6, <2>8, <3>1, <3>3, SnapshotIsRow
         DEF Recorded, ChangesOf, MapChanges, TagOf
    <3> QED BY <3>2, <3>3
  <2>9. CASE call.op \in {"struct", "save"} /\ call.root
    BY <2>1, <2>3, <2>4, <2>9 DEF Recorded, RootChangesOf, RootChanges, LeftOut
  <2>10. CASE call.op = "struct" /\ ~call.root
    <3>1. snap = call.row /\ snap # Absent
      BY <2>10, SnapshotIsRow
    <3>2. row[f] = call.struct[f]
      BY <2>1, <2>10 DEF Executed
    <3>3. Differs(call, call.struct, snap, f)
      BY <3>1, <3>2 DEF Differs
    <3> QED BY <2>1, <2>3, <2>4, <2>6, <2>10, <3>1, <3>3
            DEF Recorded, ChangesOf, StructChanges
  <2>11. CASE call.op = "save" /\ ~call.root
    <3>1. snap = call.row /\ snap # Absent
      BY <2>11, SnapshotIsRow
    <3>2. row[f] = call.model[f]
      BY <2>1, <2>11 DEF Executed
    <3>3. Differs(call, call.model, snap, f)
      BY <3>1, <3>2 DEF Differs
    <3> QED BY <2>1, <2>3, <2>4, <2>6, <2>11, <3>1, <3>3
            DEF Recorded, ChangesOf, StructChanges
  <2> QED BY <2>1, <2>7, <2>8, <2>9, <2>10, <2>11 DEF Call, Op
<1> QED BY <1>1, AlwaysConsistent, PTL

-----------------------------------------------------------------------------
(* A field that the audit of Updates(struct) names although neither GORM   *)
(* reported it nor the statement changed it is one that the statement does *)
(* not write, because the struct has it zero and the row does not.         *)
PhantomsAreZero ==
    phase = "done" /\ call.op = "struct" /\ ~call.root =>
      \A f \in Field : Audits(f) /\ f \notin call.changed /\ call.row[f] = row[f] =>
        /\ call.struct[f] = Zero /\ row[f] # Zero
        /\ audit[f] \in {<<row[f], Zero>>, <<Redacted, Redacted>>}

(* The fields an audit of Updates(struct) names without a change are those *)
(* of auditFromChangedCols falling back on the snapshot, and no others.    *)
THEOREM OnlyZeroFieldsAreNamedUnchanged == Spec => []PhantomsAreZero
<1>1. Consistent => PhantomsAreZero
  <2> SUFFICES ASSUME Consistent, phase = "done", call.op = "struct", ~call.root,
                      NEW f \in Field,
                      Audits(f), f \notin call.changed, call.row[f] = row[f]
               PROVE  /\ call.struct[f] = Zero /\ row[f] # Zero
                      /\ audit[f] \in {<<row[f], Zero>>, <<Redacted, Redacted>>}
    BY DEF PhantomsAreZero
  <2>1. call \in Call /\ f \in Column /\ row = Executed(call)
    BY CallsAssumption, FieldAssumption DEF Consistent
  <2>2. audit = Recorded
    BY DEF Consistent, Audits
  <2>3. Recorded = StructChanges(call, call.struct, snap)
    BY DEF Recorded, ChangesOf
  <2>4. Differs(call, call.struct, snap, f)
    BY <2>1, <2>2, <2>3 DEF StructChanges, Audits
  <2>5. snap = call.row /\ snap # Absent /\ call.struct[f] # call.row[f]
    BY <2>4 DEF Differs, Consistent
  <2>6. call.struct[f] = Zero
    BY <2>1, <2>5 DEF Executed
  <2>7. audit[f] = Shown(call.tags[f], call.row[f], Zero)
    BY <2>1, <2>2, <2>3, <2>4, <2>5, <2>6 DEF StructChanges, Audits
  <2> QED BY <2>5, <2>6, <2>7 DEF Shown
<1> QED BY <1>1, AlwaysConsistent, PTL
=============================================================================
