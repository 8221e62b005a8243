------------------------- MODULE GormSelfAuditProofs -------------------------
(***************************************************************************)
(* Proofs about the plugins of GORM writing their own rows: what a batch   *)
(* of the application is owed is written or reported, and the callbacks    *)
(* do not call each other without end when the tables of the library are   *)
(* skipped.                                                                *)
(***************************************************************************)
EXTENDS GormSelfAudit, SequenceTheorems, TLAPS

-----------------------------------------------------------------------------
(* The invariant *)

(* The callbacks of a row of the library go on only when the tables for it *)
(* exist, or in the plugin of the module root.                             *)
Writable(schema) ==
    /\ schema \in {AuditSchema, VersionSchema}
    /\ config.plugin = "postgres-gorm" => config.versionTable \in config.migrated
    /\ config.plugin = "postgres-gorm" /\ schema = AuditSchema =>
         config.tableName \in config.migrated
    /\ schema = VersionSchema => config.plugin = "postgres-gorm"

(* A statement of the library that is not skipped and has still to audit   *)
(* its row: it never returns, as auditing executes another one.            *)
Endless(f) ==
    /\ Writable(f.schema) /\ ~Skipped(f.schema)
    /\ f.left = 1
    /\ f.schema = VersionSchema => ~f.numbered

(* The goroutine is lost: such a statement is innermost, or it has just    *)
(* taken a number by a statement that is skipped.                          *)
Doomed ==
    /\ Len(stack) >= 2
    /\ \/ Endless(Top)
       \/ Len(stack) >= 3 /\ Skipped(Top.schema) /\ Endless(stack[2])

(* The statement of the application goes on, at most one deeper is nested  *)
(* in its callback, and that returns.                                      *)
App == stack[Len(stack)]
Sound ==
    stack # <<>> =>
      /\ Len(stack) \in {1, 2} /\ App.schema \in AppTable
      /\ App.numbered =>
           /\ App.left > 0 /\ ~Skipped(App.schema)
           /\ config.plugin = "postgres-gorm" => config.versionTable \in config.migrated
      /\ Len(stack) = 2 => Skipped(Top.schema) /\ ~Skipped(App.schema) /\ ~ReportsTwice

(* What was created in table t has its audit, was reported or is left; the *)
(* plugin of the module root, without an audit table, has reported half of *)
(* what it reports of an element that has its number.                      *)
Settled(t, a, r, o, left, half) ==
    IF t \notin AppTable \/ Skipped(t) THEN a = 0 /\ r = 0
    ELSE IF ReportsTwice THEN a = 0 /\ r + 2 * left = 2 * o + half
    ELSE a + r + left = o

Due(t, f) == IF f.schema = t THEN f.left ELSE 0
Half(t, f) == IF f.schema = t /\ f.numbered THEN 1 ELSE 0
Balanced(t) ==
    Settled(t, audits[t], reported[t], owed[t],
            IF stack = <<>> THEN 0 ELSE Due(t, App), IF stack = <<>> THEN 0 ELSE Half(t, App))

Sane == Sound /\ \A t \in Schema : Balanced(t)

IInv ==
    /\ TypeOK
    /\ crashed => stack = <<>>
    /\ crashed \/ Doomed \/ Sane

-----------------------------------------------------------------------------
(* The stack *)

(* A stack that is not empty, and what is under its top. *)
LEMMA StackFacts ==
    ASSUME NEW s \in Seq(Frame), s # <<>>
    PROVE  /\ Len(s) \in Nat /\ Len(s) >= 1
           /\ \A i \in 1..Len(s) : s[i] \in Frame
           /\ Tail(s) \in Seq(Frame) /\ Len(Tail(s)) = Len(s) - 1
           /\ \A i \in 1..(Len(s) - 1) : Tail(s)[i] = s[i + 1]
           /\ Tail(s) = <<>> <=> Len(s) = 1
<1>1. Len(s) \in Nat /\ Len(s) >= 1 /\ \A i \in 1..Len(s) : s[i] \in Frame
  BY EmptySeq, LenProperties, ElementOfSeq
<1>2. /\ Tail(s) \in Seq(Frame) /\ Len(Tail(s)) = Len(s) - 1
      /\ \A i \in 1..Len(Tail(s)) : Tail(s)[i] = s[i + 1]
  BY HeadTailProperties
<1>3. Tail(s) = <<>> <=> Len(Tail(s)) = 0
  BY <1>2, EmptySeq
<1>4. 1..Len(Tail(s)) = 1..(Len(s) - 1)
  BY <1>2
<1>5. Tail(s) = <<>> <=> Len(s) = 1
  BY <1>1, <1>2, <1>3
<1> QED BY <1>1, <1>2, <1>4, <1>5

(* The top is replaced. *)
LEMMA Replaced ==
    ASSUME NEW s \in Seq(Frame), s # <<>>, NEW f \in Frame
    PROVE  LET q == <<f>> \o Tail(s)
           IN /\ q \in Seq(Frame) /\ q # <<>> /\ Len(q) = Len(s)
              /\ q[1] = f
              /\ \A i \in 2..Len(s) : q[i] = s[i]
<1> DEFINE q == <<f>> \o Tail(s)
<1>1. <<f>> \in Seq(Frame) /\ Len(<<f>>) = 1 /\ <<f>>[1] = f
  OBVIOUS
<1>2. /\ q \in Seq(Frame) /\ Len(q) = 1 + Len(Tail(s))
      /\ \A i \in 1..Len(q) : q[i] = IF i <= 1 THEN <<f>>[i] ELSE Tail(s)[i - 1]
  BY <1>1, StackFacts, ConcatProperties
<1> HIDE DEF q
<1>3. Len(q) = Len(s) /\ q[1] = f /\ \A i \in 2..Len(s) : q[i] = s[i]
  BY <1>1, <1>2, StackFacts
<1>4. q # <<>>
  BY <1>2, <1>3, StackFacts, EmptySeq
<1> QED BY <1>2, <1>3, <1>4 DEF q

(* The top is replaced, and a statement is nested in it. *)
LEMMA Pushed ==
    ASSUME NEW s \in Seq(Frame), s # <<>>, NEW f \in Frame, NEW g \in Frame
    PROVE  LET q == <<f, g>> \o Tail(s)
           IN /\ q \in Seq(Frame) /\ q # <<>> /\ Len(q) = Len(s) + 1
              /\ q[1] = f /\ q[2] = g
              /\ \A i \in 2..Len(s) : q[i + 1] = s[i]
<1> DEFINE q == <<f, g>> \o Tail(s)
<1>1. <<f, g>> \in Seq(Frame) /\ Len(<<f, g>>) = 2 /\ <<f, g>>[1] = f /\ <<f, g>>[2] = g
  OBVIOUS
<1>2. /\ q \in Seq(Frame) /\ Len(q) = 2 + Len(Tail(s))
      /\ \A i \in 1..Len(q) : q[i] = IF i <= 2 THEN <<f, g>>[i] ELSE Tail(s)[i - 2]
  BY <1>1, StackFacts, ConcatProperties
<1> HIDE DEF q
<1>3. Len(q) = Len(s) + 1 /\ q[1] = f /\ q[2] = g
  BY <1>1, <1>2, StackFacts
<1>4. \A i \in 2..Len(s) : q[i + 1] = s[i]
  BY <1>2, <1>3, StackFacts
<1>5. q # <<>>
  BY <1>2, <1>3, StackFacts, EmptySeq
<1> QED BY <1>2, <1>3, <1>4, <1>5 DEF q

-----------------------------------------------------------------------------
(* Steps keep the types *)

(* The first element left has its number. *)
Numbered(f) == [f EXCEPT !.numbered = TRUE]

LEMMA FrameType ==
    /\ \A t \in Schema, n \in Nat :
         LET f == Created(t, n)
         IN f \in Frame /\ f.schema = t /\ f.left = n /\ f.numbered = FALSE
    /\ \A f \in Frame :
         /\ f.schema \in Schema /\ f.left \in Nat /\ f.numbered \in BOOLEAN
         /\ LET g == Numbered(f)
            IN g \in Frame /\ g.schema = f.schema /\ g.left = f.left /\ g.numbered = TRUE
         /\ f.left > 0 =>
              LET g == Advanced(f, 1)
              IN g \in Frame /\ g.schema = f.schema /\ g.left = f.left - 1 /\ g.numbered = FALSE
<1>1. ASSUME NEW t \in Schema, NEW n \in Nat
      PROVE  LET f == Created(t, n)
             IN f \in Frame /\ f.schema = t /\ f.left = n /\ f.numbered = FALSE
  BY <1>1 DEF Frame, Created
<1>2. ASSUME NEW f \in Frame
      PROVE  /\ f.schema \in Schema /\ f.left \in Nat /\ f.numbered \in BOOLEAN
             /\ LET g == Numbered(f)
                IN g \in Frame /\ g.schema = f.schema /\ g.left = f.left /\ g.numbered = TRUE
  BY <1>2 DEF Frame, Numbered
<1>3. ASSUME NEW f \in Frame, f.left > 0
      PROVE  LET g == Advanced(f, 1)
             IN g \in Frame /\ g.schema = f.schema /\ g.left = f.left - 1 /\ g.numbered = FALSE
  <2>2. f.schema \in Schema /\ f.left - 1 \in Nat
    BY <1>3 DEF Frame
  <2> QED BY <2>2 DEF Frame, Advanced
<1> QED BY <1>1, <1>2, <1>3

(* A row the store creates, as the plugin sees it. *)
LEMMA LibraryRow ==
    ASSUME NEW schema \in {AuditSchema, VersionSchema}
    PROVE  LET f == Created(schema, 1)
           IN f \in Frame /\ f.schema = schema /\ f.left = 1 /\ f.numbered = FALSE
<1>1. schema \in Schema /\ 1 \in Nat
  BY DEF Schema
<1> QED BY <1>1, FrameType

LEMMA LibraryRowEndless ==
    ASSUME NEW schema \in {AuditSchema, VersionSchema}, Writable(schema), ~Skipped(schema)
    PROVE  Endless(Created(schema, 1))
BY LibraryRow, Zenon DEF Endless

(* While a statement is executed, the steps are those of its callback. *)
LEMMA NestedSteps ==
    ASSUME Next, stack # <<>>
    PROVE  \/ Done /\ (Skipped(Top.schema) \/ Top.left = 0)
           \/ Auditing /\ (NextVersion \/ ReadMax \/ Persist)
<1>1. ASSUME NEW t, NEW n, Create(t, n) PROVE FALSE
  BY <1>1, Zenon DEF Create
<1>2. CASE Done
  BY <1>2, Zenon DEF Done
<1>3. CASE NextVersion
  BY <1>3, Zenon DEF NextVersion
<1>4. CASE ReadMax
  BY <1>4, Zenon DEF ReadMax
<1>5. CASE Persist
  BY <1>5, Zenon DEF Persist
<1> QED BY <1>1, <1>2, <1>3, <1>4, <1>5, Zenon DEF Next

(* A callback runs for a statement that is not empty. *)
LEMMA AuditingTop ==
    ASSUME TypeOK, stack # <<>>
    PROVE  stack \in Seq(Frame) /\ Top \in Frame
BY StackFacts DEF TypeOK, Top

(* What a nested statement, or the attempt, makes of the stack. *)
LEMMA NestedCases ==
    ASSUME NEW table, NEW schema, NEW frame, Nested(table, schema, frame)
    PROVE  \/ /\ table \notin config.migrated /\ FailureEnds(schema)
              /\ stack' = <<Advanced(Top, 1)>> \o Tail(stack)
              /\ reported' = [reported EXCEPT ![Top.schema] = @ + 1]
              /\ audits' = audits /\ crashed' = crashed
           \/ stack' = <<>> /\ crashed' = TRUE /\ audits' = audits /\ reported' = reported
           \/ /\ table \in config.migrated \/ ~FailureEnds(schema)
              /\ stack' = <<Created(schema, 1), frame>> \o Tail(stack)
              /\ audits' = IF schema = AuditSchema /\ table \in config.migrated
                             THEN [audits EXCEPT ![Top.schema] = @ + 1] ELSE audits
              /\ reported' = reported /\ crashed' = crashed
BY Zenon DEF Nested, HandleError

(* The statements of the store, with the stack they leave. *)
LEMMA NextVersionNests ==
    ASSUME NextVersion
    PROVE  /\ config.plugin = "postgres-gorm"
           /\ Auditing /\ ~Top.numbered
           /\ Nested(config.versionTable, VersionSchema, Numbered(Top))
           /\ config' = config /\ owed' = owed /\ statements' = statements
BY Zenon DEF NextVersion, Numbered

LEMMA PersistNests ==
    ASSUME Persist
    PROVE  /\ Auditing /\ Top.numbered
           /\ Nested(config.tableName, AuditSchema, Advanced(Top, 1))
           /\ config' = config /\ owed' = owed /\ statements' = statements
BY Zenon DEF Persist

LEMMA ReadMaxNumbers ==
    ASSUME ReadMax
    PROVE  /\ config.plugin = "root"
           /\ Auditing /\ ~Top.numbered
           /\ stack' = <<Numbered(Top)>> \o Tail(stack)
           /\ \/ config.tableName \in config.migrated /\ reported' = reported
              \/ /\ config.tableName \notin config.migrated
                 /\ reported' = [reported EXCEPT ![Top.schema] = @ + 1]
           /\ audits' = audits /\ crashed' = crashed
           /\ config' = config /\ owed' = owed /\ statements' = statements
BY Zenon DEF ReadMax, HandleError, Numbered

LEMMA NestedKeepsTypes ==
    ASSUME TypeOK, crashed => stack = <<>>, Auditing,
           NEW table, NEW schema \in {AuditSchema, VersionSchema},
           NEW frame \in Frame, Nested(table, schema, frame),
           config' = config, owed' = owed, statements' = statements
    PROVE  TypeOK' /\ (crashed' => stack' = <<>>)
<1>1. stack \in Seq(Frame) /\ stack # <<>> /\ Top \in Frame /\ Top.left > 0 /\ ~crashed
  BY AuditingTop DEF Auditing
<1>2. Top.schema \in Schema /\ Advanced(Top, 1) \in Frame
  BY <1>1, FrameType
<1>3. Created(schema, 1) \in Frame
  BY FrameType DEF Schema
<1>4. CASE /\ stack' = <<Advanced(Top, 1)>> \o Tail(stack)
           /\ reported' = [reported EXCEPT ![Top.schema] = @ + 1]
           /\ audits' = audits /\ crashed' = crashed
  <2>1. stack' \in Seq(Frame)
    BY <1>1, <1>2, <1>4, Replaced
  <2> QED BY <1>1, <1>2, <1>4, <2>1 DEF TypeOK
<1>5. CASE stack' = <<>> /\ crashed' = TRUE /\ audits' = audits /\ reported' = reported
  BY <1>5, EmptySeq DEF TypeOK
<1>6. CASE /\ stack' = <<Created(schema, 1), frame>> \o Tail(stack)
           /\ audits' = IF schema = AuditSchema /\ table \in config.migrated
                          THEN [audits EXCEPT ![Top.schema] = @ + 1] ELSE audits
           /\ reported' = reported /\ crashed' = crashed
  <2>1. stack' \in Seq(Frame)
    BY <1>1, <1>3, <1>6, Pushed
  <2>2. audits' \in [Schema -> Nat]
    BY <1>2, <1>6 DEF TypeOK
  <2> QED BY <1>1, <1>6, <2>1, <2>2 DEF TypeOK
<1>7. \/ /\ stack' = <<Advanced(Top, 1)>> \o Tail(stack)
         /\ reported' = [reported EXCEPT ![Top.schema] = @ + 1]
         /\ audits' = audits /\ crashed' = crashed
      \/ stack' = <<>> /\ crashed' = TRUE /\ audits' = audits /\ reported' = reported
      \/ /\ stack' = <<Created(schema, 1), frame>> \o Tail(stack)
         /\ audits' = IF schema = AuditSchema /\ table \in config.migrated
                        THEN [audits EXCEPT ![Top.schema] = @ + 1] ELSE audits
         /\ reported' = reported /\ crashed' = crashed
  BY NestedCases, Zenon
<1> QED BY <1>4, <1>5, <1>6, <1>7

LEMMA TypedStep ==
    ASSUME TypeOK, crashed => stack = <<>>, Next
    PROVE  TypeOK' /\ (crashed' => stack' = <<>>)
<1>1. CASE \E t \in AppTable, n \in Batch : Create(t, n)
  <2>1. PICK t \in AppTable, n \in Batch : Create(t, n)
    BY <1>1
  <2>2. n \in Nat /\ t \in Schema
    BY BatchAssumption DEF Schema
  <2>3. stack' \in Seq(Frame) /\ ~crashed /\ crashed' = crashed
    <3>1. Created(t, n) \in Frame
      BY <2>2, FrameType
    <3>2. <<Created(t, n)>> \in Seq(Frame)
      BY <3>1
    <3>3. stack' = <<Created(t, n)>> /\ ~crashed /\ crashed' = crashed
      BY <2>1, Zenon DEF Create
    <3> QED BY <3>2, <3>3
  <2>4. owed' \in [AppTable -> Nat] /\ statements' \in 0..MaxStatements
    BY <2>1, <2>2, BoundAssumption DEF Create, TypeOK
  <2> QED BY <2>1, <2>3, <2>4 DEF Create, TypeOK
<1>2. CASE Done
  <2>1. stack' \in Seq(Frame) /\ ~crashed
    BY <1>2, StackFacts DEF Done, TypeOK
  <2> QED BY <1>2, <2>1 DEF Done, TypeOK
<1>3. CASE NextVersion
  <2>1. Numbered(Top) \in Frame
    BY <1>3, NextVersionNests, AuditingTop, FrameType DEF Auditing
  <2> QED BY <1>3, <2>1, NextVersionNests, NestedKeepsTypes
<1>4. CASE ReadMax
  <2>1. stack # <<>> /\ Numbered(Top) \in Frame /\ Top.schema \in Schema
    BY <1>4, ReadMaxNumbers, AuditingTop, FrameType DEF Auditing
  <2>2. stack' \in Seq(Frame) /\ ~crashed
    BY <1>4, <2>1, ReadMaxNumbers, Replaced DEF TypeOK
  <2>3. reported' = reported \/ reported' = [reported EXCEPT ![Top.schema] = @ + 1]
    BY <1>4, ReadMaxNumbers
  <2>4. reported' \in [Schema -> Nat]
    BY <2>1, <2>3 DEF TypeOK
  <2> QED BY <1>4, <2>1, <2>2, <2>4, ReadMaxNumbers DEF TypeOK
<1>5. CASE Persist
  <2>1. Advanced(Top, 1) \in Frame
    BY <1>5, PersistNests, AuditingTop, FrameType DEF Auditing
  <2>2. Auditing /\ Nested(config.tableName, AuditSchema, Advanced(Top, 1))
    BY <1>5, PersistNests
  <2>3. config' = config /\ owed' = owed /\ statements' = statements
    BY <1>5, PersistNests
  <2> QED BY <2>1, <2>2, <2>3, NestedKeepsTypes
<1> QED BY <1>1, <1>2, <1>3, <1>4, <1>5 DEF Next

-----------------------------------------------------------------------------
(* A lost goroutine stays lost *)

(* Such a statement is innermost, or under a statement that is skipped. *)
LEMMA DoomedBy ==
    ASSUME stack' \in Seq(Frame), stack' # <<>>, config' = config,
           \/ Len(stack') >= 2 /\ Endless(stack'[1])
           \/ Len(stack') >= 3 /\ Skipped(stack'[1].schema) /\ Endless(stack'[2])
    PROVE  Doomed'
BY DEF Doomed, Endless, Writable, Skipped, SkipSet, Top

LEMMA DoomedStep ==
    ASSUME TypeOK, crashed => stack = <<>>, Doomed, Next
    PROVE  crashed' \/ Doomed'
<1>1. stack \in Seq(Frame) /\ stack # <<>> /\ Top \in Frame /\ Len(stack) >= 2
  BY AuditingTop, EmptySeq DEF TypeOK, Doomed
<1>2. CASE Len(stack) >= 3 /\ Skipped(Top.schema) /\ Endless(stack[2])
  <2>1. ~Auditing
    BY <1>2 DEF Auditing
  <2>2. Done
    BY <1>1, <2>1, NestedSteps
  <2>3. stack' = Tail(stack) /\ config' = config
    BY <2>2 DEF Done
  <2>4. stack' \in Seq(Frame) /\ Len(stack') >= 2 /\ stack'[1] = stack[2] /\ stack' # <<>>
    BY <1>1, <1>2, <2>3, StackFacts
  <2> QED BY <1>2, <2>3, <2>4, DoomedBy
<1>3. CASE Endless(Top)
  <2>1. ~Skipped(Top.schema) /\ Top.left = 1 /\ Writable(Top.schema)
    BY <1>3 DEF Endless
  <2>2. Created(VersionSchema, 1) \in Frame /\ Created(AuditSchema, 1) \in Frame
    BY LibraryRow
  <2>3. NextVersion \/ ReadMax \/ Persist
    BY <1>1, <2>1, NestedSteps
  <2>4. CASE NextVersion
    <3>1. /\ config.plugin = "postgres-gorm" /\ config.versionTable \in config.migrated
          /\ config' = config
      BY <2>1, <2>4, NextVersionNests DEF Writable
    <3>2. \/ crashed'
          \/ stack' = <<Created(VersionSchema, 1), Numbered(Top)>> \o Tail(stack)
      BY <2>4, <3>1, NextVersionNests, NestedCases
    <3>3. Numbered(Top) \in Frame
      BY <1>1, FrameType
    <3>4. ASSUME stack' = <<Created(VersionSchema, 1), Numbered(Top)>> \o Tail(stack)
          PROVE  Doomed'
      <4>1. /\ stack' \in Seq(Frame) /\ stack' # <<>> /\ Len(stack') >= 3
            /\ stack'[1] = Created(VersionSchema, 1) /\ stack'[2] = Numbered(Top)
        BY <1>1, <2>2, <3>3, <3>4, Pushed
      <4>2. CASE Skipped(VersionSchema)
        <5>1. Top.schema # VersionSchema
          BY <2>1, <4>2
        <5>2. Endless(Numbered(Top))
          BY <1>1, <1>3, <5>1, FrameType DEF Endless
        <5>3. Skipped(stack'[1].schema)
          BY <4>1, <4>2, LibraryRow
        <5> QED BY <3>1, <4>1, <5>2, <5>3, DoomedBy
      <4>3. CASE ~Skipped(VersionSchema)
        <5>1. Endless(Created(VersionSchema, 1))
          BY <3>1, <4>3, LibraryRowEndless DEF Writable, VersionSchema, AuditSchema
        <5> QED BY <3>1, <4>1, <5>1, DoomedBy
      <4> QED BY <4>2, <4>3
    <3> QED BY <3>2, <3>4
  <2>5. CASE ReadMax
    <3>1. /\ config.plugin = "root" /\ config' = config
          /\ stack' = <<Numbered(Top)>> \o Tail(stack)
      BY <2>5, ReadMaxNumbers
    <3>2. Top.schema # VersionSchema
      BY <2>1, <3>1 DEF Writable
    <3>3. Endless(Numbered(Top)) /\ Numbered(Top) \in Frame
      BY <1>1, <1>3, <3>2, FrameType DEF Endless
    <3>4. /\ stack' \in Seq(Frame) /\ stack' # <<>> /\ Len(stack') >= 2
          /\ stack'[1] = Numbered(Top)
      BY <1>1, <3>1, <3>3, Replaced
    <3> QED BY <3>1, <3>3, <3>4, DoomedBy
  <2>6. CASE Persist
    <3>1. Top.numbered /\ config' = config
      BY <2>6, PersistNests
    <3>2. Top.schema = AuditSchema
      BY <1>3, <2>1, <3>1 DEF Endless, Writable
    <3>3. config.tableName \in config.migrated \/ ~FailureEnds(AuditSchema)
      BY <2>1, <3>2 DEF Writable, FailureEnds
    <3>4. \/ crashed'
          \/ stack' = <<Created(AuditSchema, 1), Advanced(Top, 1)>> \o Tail(stack)
      BY <2>6, <3>3, PersistNests, NestedCases
    <3>5. Advanced(Top, 1) \in Frame
      BY <1>1, <2>1, FrameType
    <3>6. ASSUME stack' = <<Created(AuditSchema, 1), Advanced(Top, 1)>> \o Tail(stack)
          PROVE  Doomed'
      <4>1. /\ stack' \in Seq(Frame) /\ stack' # <<>> /\ Len(stack') >= 3
            /\ stack'[1] = Created(AuditSchema, 1)
        BY <1>1, <2>2, <3>5, <3>6, Pushed
      <4>2. Endless(Created(AuditSchema, 1))
        BY <2>1, <3>2, LibraryRowEndless
      <4> QED BY <3>1, <4>1, <4>2, DoomedBy
    <3> QED BY <3>4, <3>6
  <2> QED BY <2>3, <2>4, <2>5, <2>6
<1> QED BY <1>2, <1>3 DEF Doomed

-----------------------------------------------------------------------------
(* A sound goroutine stays sound, or is lost, or crashes *)

(* The statement of the application has become g, in a sound stack. *)
LEMMA SaneBy ==
    ASSUME stack' \in Seq(Frame), stack' # <<>>, Len(stack') \in {1, 2}, config' = config,
           NEW g \in Frame, stack'[Len(stack')] = g,
           g.schema \in AppTable,
           g.numbered => /\ g.left > 0 /\ ~Skipped(g.schema)
                         /\ config.plugin = "postgres-gorm" =>
                              config.versionTable \in config.migrated,
           Len(stack') = 2 => /\ Skipped(stack'[1].schema) /\ ~Skipped(g.schema)
                              /\ ~ReportsTwice,
           \A t \in Schema :
             Settled(t, audits'[t], reported'[t], owed'[t], Due(t, g), Half(t, g))
    PROVE  Sane'
<1>1. App' = g
  BY DEF App
<1>2. ReportsTwice' = ReportsTwice /\ \A t : Skipped(t)' = Skipped(t)
  BY DEF ReportsTwice, Skipped, SkipSet
<1>3. Sound'
  BY <1>1, <1>2 DEF Sound, Top
<1>4. \A t \in Schema : Balanced(t)'
  BY <1>1, <1>2 DEF Balanced, Settled, Due, Half
<1> QED BY <1>3, <1>4 DEF Sane

(* What the statement of the application, which has its callback, is. *)
LEMMA AuditingApp ==
    ASSUME TypeOK, Sane, Auditing
    PROVE  /\ stack \in Seq(Frame) /\ stack # <<>> /\ Len(stack) = 1 /\ Tail(stack) = <<>>
           /\ Top \in Frame /\ App = Top /\ Top.schema \in AppTable
           /\ ~Skipped(Top.schema) /\ Top.left > 0
<1>1. stack \in Seq(Frame) /\ stack # <<>> /\ Top \in Frame
  BY AuditingTop DEF Auditing
<1>2. ~Skipped(Top.schema) /\ Top.left > 0
  BY Zenon DEF Auditing
<1>3. Len(stack) = 1 /\ App.schema \in AppTable
  BY <1>1, <1>2 DEF Sane, Sound
<1>4. App = Top
  BY <1>3 DEF App, Top
<1>5. Tail(stack) = <<>>
  BY <1>1, <1>3, StackFacts
<1> QED BY <1>1, <1>2, <1>3, <1>4, <1>5

(* The balance before a step of its callback. *)
LEMMA BalanceOf ==
    ASSUME TypeOK, Sane, Auditing, NEW t \in Schema
    PROVE  Settled(t, audits[t], reported[t], owed[t], Due(t, Top), Half(t, Top))
<1>1. stack # <<>> /\ App = Top
  BY AuditingApp
<1>2. Balanced(t)
  BY DEF Sane
<1> QED BY <1>1, <1>2 DEF Balanced

LEMMA CreateSane ==
    ASSUME TypeOK, Sane, NEW t \in AppTable, NEW n \in Batch, Create(t, n)
    PROVE  Sane'
<1> DEFINE g == Created(t, n)
<1>1. g \in Frame /\ g.schema = t /\ g.left = n /\ g.numbered = FALSE /\ n \in Nat
  BY BatchAssumption, FrameType DEF Schema
<1> HIDE DEF g
<1>2. /\ stack = <<>> /\ config' = config /\ stack' = <<g>>
      /\ audits' = audits /\ reported' = reported
      /\ owed' = [owed EXCEPT ![t] = @ + (IF Skipped(t) THEN 0 ELSE n)]
  BY DEF Create, g
<1>3. /\ stack' \in Seq(Frame) /\ stack' # <<>> /\ Len(stack') = 1
      /\ stack'[Len(stack')] = g
  <2>1. /\ <<g>> \in Seq(Frame) /\ <<g>> # <<>> /\ Len(<<g>>) = 1 /\ <<g>>[1] = g
    BY <1>1
  <2> QED BY <1>2, <2>1
<1>4. ASSUME NEW u \in Schema
      PROVE  Settled(u, audits'[u], reported'[u], owed'[u], Due(u, g), Half(u, g))
  <2>1. Settled(u, audits[u], reported[u], owed[u], 0, 0)
    BY <1>2 DEF Sane, Balanced
  <2>2. audits[u] \in Nat /\ reported[u] \in Nat /\ (u \in AppTable => owed[u] \in Nat)
    BY DEF TypeOK
  <2>3. u \in AppTable => owed'[u] = owed[u] + (IF u = t /\ ~Skipped(u) THEN n ELSE 0)
    BY <1>1, <1>2, <2>2 DEF TypeOK
  <2> QED BY <1>1, <1>2, <2>1, <2>2, <2>3 DEF Settled, Due, Half
<1> QED BY <1>1, <1>2, <1>3, <1>4, SaneBy

LEMMA DoneSane ==
    ASSUME TypeOK, Sane, Done
    PROVE  Sane'
<1>1. /\ stack # <<>> /\ (Skipped(Top.schema) \/ Top.left = 0)
      /\ stack' = Tail(stack) /\ config' = config
      /\ audits' = audits /\ reported' = reported /\ owed' = owed
  BY Zenon DEF Done
<1>2. stack \in Seq(Frame) /\ Top \in Frame
  BY <1>1, AuditingTop
<1>3. ReportsTwice' = ReportsTwice /\ \A t : Skipped(t)' = Skipped(t)
  BY <1>1 DEF ReportsTwice, Skipped, SkipSet
<1>4. Sound /\ Len(stack) \in {1, 2}
  BY <1>1 DEF Sane, Sound
<1>5. CASE Len(stack) = 1
  <2>1. stack' = <<>>
    BY <1>1, <1>2, <1>5, StackFacts
  <2>2. App = Top
    BY <1>5 DEF App, Top
  <2>3. ASSUME NEW t \in Schema PROVE Balanced(t)'
    <3>1. Settled(t, audits[t], reported[t], owed[t], Due(t, Top), Half(t, Top))
      BY <1>1, <2>2 DEF Sane, Balanced
    <3>2. Top.schema = t => Skipped(t) \/ (Top.left = 0 /\ ~Top.numbered)
      BY <1>1, <1>4, <2>2 DEF Sound
    <3>3. Settled(t, audits[t], reported[t], owed[t], 0, 0)
      BY <3>1, <3>2 DEF Settled, Due, Half
    <3>4. (Settled(t, audits[t], reported[t], owed[t], 0, 0))'
      BY <1>1, <1>3, <3>3 DEF Settled
    <3> QED BY <2>1, <3>4 DEF Balanced
  <2> QED BY <2>1, <2>3 DEF Sane, Sound
<1>6. CASE Len(stack) = 2
  <2>1. /\ stack' \in Seq(Frame) /\ Len(stack') = 1 /\ stack' # <<>>
        /\ stack'[1] = App
    <3>1. Tail(stack) \in Seq(Frame) /\ Len(Tail(stack)) = 1
      BY <1>1, <1>2, <1>6, StackFacts
    <3>2. 1 \in 1..(Len(stack) - 1) /\ 1 + 1 = 2
      BY <1>6
    <3>3. Tail(stack)[1] = stack[2]
      <4>1. \A i \in 1..(Len(stack) - 1) : Tail(stack)[i] = stack[i + 1]
        BY <1>1, <1>2, StackFacts
      <4> QED BY <3>2, <4>1
    <3>4. Tail(stack) # <<>>
      BY <1>1, <1>2, <1>6, StackFacts
    <3>5. App = stack[2]
      BY <1>6 DEF App
    <3> QED BY <1>1, <3>1, <3>3, <3>4, <3>5
  <2>2. App' = App
    BY <2>1 DEF App
  <2>3. Sound'
    BY <1>1, <1>3, <1>4, <2>1, <2>2 DEF Sound
  <2>4. ASSUME NEW t \in Schema PROVE Balanced(t)'
    <3>1. Balanced(t)
      BY DEF Sane
    <3> QED BY <1>1, <1>3, <2>1, <2>2, <3>1 DEF Balanced, Settled, Due, Half
  <2> QED BY <2>3, <2>4 DEF Sane
<1> QED BY <1>4, <1>5, <1>6

LEMMA SettledReported ==
    ASSUME NEW t \in AppTable, ~Skipped(t),
           NEW a \in Nat, NEW r \in Nat, NEW o \in Nat, NEW left \in Nat, NEW half,
           ReportsTwice => half = 1, Settled(t, a, r, o, left, half)
    PROVE  Settled(t, a, r + 1, o, left - 1, 0)
BY DEF Settled

(* The statement of the store failed: the element is reported. *)
LEMMA ReportedSane ==
    ASSUME TypeOK, Sane, Auditing,
           ReportsTwice => Half(Top.schema, Top) = 1,
           stack' = <<Advanced(Top, 1)>> \o Tail(stack),
           reported' = [reported EXCEPT ![Top.schema] = @ + 1],
           audits' = audits, owed' = owed, config' = config
    PROVE  Sane'
<1> DEFINE g == Advanced(Top, 1)
<1>1. /\ stack \in Seq(Frame) /\ stack # <<>> /\ Len(stack) = 1 /\ Top \in Frame
      /\ Top.schema \in AppTable /\ ~Skipped(Top.schema) /\ Top.left > 0
  BY AuditingApp
<1>2. /\ g \in Frame /\ g.schema = Top.schema /\ g.left = Top.left - 1
      /\ g.numbered = FALSE /\ Top.left \in Nat
  BY <1>1, FrameType
<1> HIDE DEF g
<1>3. /\ stack' \in Seq(Frame) /\ stack' # <<>> /\ Len(stack') = 1
      /\ stack'[Len(stack')] = g
  <2>1. stack' = <<g>> \o Tail(stack)
    BY DEF g
  <2> QED BY <1>1, <1>2, <2>1, Replaced
<1>4. ASSUME NEW t \in Schema
      PROVE  Settled(t, audits'[t], reported'[t], owed'[t], Due(t, g), Half(t, g))
  <2>1. audits[t] \in Nat /\ reported[t] \in Nat /\ (t \in AppTable => owed[t] \in Nat)
    BY DEF TypeOK
  <2>2. reported'[t] = IF t = Top.schema THEN reported[t] + 1 ELSE reported[t]
    BY <2>1 DEF TypeOK
  <2>3. Settled(t, audits[t], reported[t], owed[t], Due(t, Top), Half(t, Top))
    BY BalanceOf
  <2>4. CASE t # Top.schema
    BY <1>2, <2>2, <2>3, <2>4 DEF Settled, Due, Half
  <2>5. CASE t = Top.schema
    <3>1. /\ t \in AppTable /\ ~Skipped(t)
          /\ Due(t, Top) = Top.left /\ Due(t, g) = Top.left - 1 /\ Half(t, g) = 0
          /\ ReportsTwice => Half(t, Top) = 1
      BY <1>1, <1>2, <2>5 DEF Due, Half
    <3>2. /\ reported'[t] = reported[t] + 1 /\ audits'[t] = audits[t]
          /\ owed'[t] = owed[t] /\ owed[t] \in Nat
      BY <2>1, <2>2, <2>5, <3>1
    <3>3. Settled(t, audits[t], reported[t] + 1, owed[t], Top.left - 1, 0)
      BY <1>2, <2>1, <2>3, <2>5, <3>1, <3>2, SettledReported
    <3> QED BY <3>1, <3>2, <3>3
  <2> QED BY <2>4, <2>5
<1> QED BY <1>1, <1>2, <1>3, <1>4, SaneBy

LEMMA NextVersionSane ==
    ASSUME TypeOK, Sane, NextVersion
    PROVE  crashed' \/ Doomed' \/ Sane'
<1> DEFINE g == Numbered(Top)
           r == Created(VersionSchema, 1)
<1>1. /\ config.plugin = "postgres-gorm" /\ Auditing /\ ~Top.numbered
      /\ Nested(config.versionTable, VersionSchema, g)
      /\ config' = config /\ owed' = owed
  BY NextVersionNests
<1>2. /\ stack \in Seq(Frame) /\ stack # <<>> /\ Len(stack) = 1 /\ Top \in Frame
      /\ Top.schema \in AppTable /\ ~Skipped(Top.schema) /\ Top.left > 0
  BY <1>1, AuditingApp
<1>3. /\ g \in Frame /\ g.schema = Top.schema /\ g.left = Top.left /\ g.numbered = TRUE
  BY <1>2, FrameType
<1>4. r \in Frame /\ r.schema = VersionSchema
  BY LibraryRow
<1>5. ~ReportsTwice
  BY <1>1 DEF ReportsTwice
<1> HIDE DEF g, r
<1>6. \/ /\ stack' = <<Advanced(Top, 1)>> \o Tail(stack)
         /\ reported' = [reported EXCEPT ![Top.schema] = @ + 1]
         /\ audits' = audits
      \/ crashed'
      \/ /\ config.versionTable \in config.migrated
         /\ stack' = <<r, g>> \o Tail(stack)
         /\ audits' = audits /\ reported' = reported
  <2>1. AuditSchema # VersionSchema
    BY DEF AuditSchema, VersionSchema
  <2>2. \/ /\ config.versionTable \notin config.migrated /\ FailureEnds(VersionSchema)
           /\ stack' = <<Advanced(Top, 1)>> \o Tail(stack)
           /\ reported' = [reported EXCEPT ![Top.schema] = @ + 1]
           /\ audits' = audits /\ crashed' = crashed
        \/ stack' = <<>> /\ crashed' = TRUE /\ audits' = audits /\ reported' = reported
        \/ /\ config.versionTable \in config.migrated \/ ~FailureEnds(VersionSchema)
           /\ stack' = <<r, g>> \o Tail(stack)
           /\ audits' = IF VersionSchema = AuditSchema /\ config.versionTable \in config.migrated
                          THEN [audits EXCEPT ![Top.schema] = @ + 1] ELSE audits
           /\ reported' = reported /\ crashed' = crashed
    BY <1>1, NestedCases, Zenon DEF r
  <2>3. FailureEnds(VersionSchema)
    BY <1>1 DEF FailureEnds
  <2> QED BY <2>1, <2>2, <2>3, Zenon
<1>7. CASE /\ stack' = <<Advanced(Top, 1)>> \o Tail(stack)
           /\ reported' = [reported EXCEPT ![Top.schema] = @ + 1]
           /\ audits' = audits
  BY <1>1, <1>5, <1>7, ReportedSane
<1>8. CASE /\ config.versionTable \in config.migrated
           /\ stack' = <<r, g>> \o Tail(stack)
           /\ audits' = audits /\ reported' = reported
  <2>1. /\ stack' \in Seq(Frame) /\ stack' # <<>> /\ Len(stack') = 2
        /\ stack'[1] = r /\ stack'[2] = g
    BY <1>2, <1>3, <1>4, <1>8, Pushed
  <2>2. CASE Skipped(VersionSchema)
    <3>1. \A t \in Schema :
             Settled(t, audits'[t], reported'[t], owed'[t], Due(t, g), Half(t, g))
      <4>1. \A t \in Schema :
              Settled(t, audits[t], reported[t], owed[t], Due(t, Top), Half(t, Top))
        BY <1>1, BalanceOf
      <4> QED BY <1>1, <1>3, <1>5, <1>8, <4>1 DEF Settled, Due
    <3> QED BY <1>1, <1>2, <1>3, <1>4, <1>5, <1>8, <2>1, <2>2, <3>1, SaneBy
  <2>3. CASE ~Skipped(VersionSchema)
    <3>1. Endless(r)
      BY <1>1, <1>8, <2>3, LibraryRowEndless DEF Writable, VersionSchema, AuditSchema, r
    <3> QED BY <1>1, <2>1, <3>1, DoomedBy
  <2> QED BY <2>2, <2>3
<1> QED BY <1>6, <1>7, <1>8

LEMMA ReadMaxSane ==
    ASSUME TypeOK, Sane, ReadMax
    PROVE  Sane'
<1> DEFINE g == Numbered(Top)
<1>1. /\ config.plugin = "root" /\ Auditing /\ ~Top.numbered
      /\ stack' = <<g>> \o Tail(stack)
      /\ \/ config.tableName \in config.migrated /\ reported' = reported
         \/ /\ config.tableName \notin config.migrated
            /\ reported' = [reported EXCEPT ![Top.schema] = @ + 1]
      /\ audits' = audits /\ config' = config /\ owed' = owed
  BY ReadMaxNumbers
<1>2. /\ stack \in Seq(Frame) /\ stack # <<>> /\ Len(stack) = 1 /\ Top \in Frame
      /\ Top.schema \in AppTable /\ ~Skipped(Top.schema) /\ Top.left > 0
  BY <1>1, AuditingApp
<1>3. /\ g \in Frame /\ g.schema = Top.schema /\ g.left = Top.left /\ g.numbered = TRUE
      /\ Top.left \in Nat
  BY <1>2, FrameType
<1> HIDE DEF g
<1>4. /\ stack' \in Seq(Frame) /\ stack' # <<>> /\ Len(stack') = 1
      /\ stack'[Len(stack')] = g
  BY <1>1, <1>2, <1>3, Replaced
<1>5. ASSUME NEW t \in Schema
      PROVE  Settled(t, audits'[t], reported'[t], owed'[t], Due(t, g), Half(t, g))
  <2>1. audits[t] \in Nat /\ reported[t] \in Nat /\ (t \in AppTable => owed[t] \in Nat)
    BY DEF TypeOK
  <2>2. reported'[t] = IF ReportsTwice /\ t = Top.schema THEN reported[t] + 1 ELSE reported[t]
    BY <1>1, <2>1 DEF TypeOK, ReportsTwice
  <2>3. Settled(t, audits[t], reported[t], owed[t], Due(t, Top), Half(t, Top))
    BY <1>1, BalanceOf
  <2>4. CASE t # Top.schema
    BY <1>1, <1>3, <2>2, <2>3, <2>4 DEF Settled, Due, Half
  <2>5. CASE t = Top.schema
    <3>1. /\ t \in AppTable /\ ~Skipped(t)
          /\ Due(t, Top) = Top.left /\ Due(t, g) = Top.left
          /\ Half(t, Top) = 0 /\ Half(t, g) = 1
      BY <1>1, <1>2, <1>3, <2>5 DEF Due, Half
    <3>2. reported'[t] = IF ReportsTwice THEN reported[t] + 1 ELSE reported[t]
      BY <2>2, <2>5
    <3> QED BY <1>1, <1>3, <2>1, <2>3, <3>1, <3>2 DEF Settled
  <2> QED BY <2>4, <2>5
<1>6. config.plugin # "postgres-gorm"
  BY <1>1
<1> QED BY <1>1, <1>2, <1>3, <1>4, <1>5, <1>6, SaneBy

LEMMA PersistSane ==
    ASSUME TypeOK, Sane, Persist
    PROVE  crashed' \/ Doomed' \/ Sane'
<1> DEFINE g == Advanced(Top, 1)
           r == Created(AuditSchema, 1)
<1>1. /\ Auditing /\ Top.numbered
      /\ Nested(config.tableName, AuditSchema, g)
      /\ config' = config /\ owed' = owed
  BY PersistNests
<1>2. /\ stack \in Seq(Frame) /\ stack # <<>> /\ Len(stack) = 1 /\ Top \in Frame
      /\ Top.schema \in AppTable /\ ~Skipped(Top.schema) /\ Top.left > 0 /\ App = Top
  BY <1>1, AuditingApp
<1>3. /\ g \in Frame /\ g.schema = Top.schema /\ g.left = Top.left - 1
      /\ g.numbered = FALSE /\ Top.left \in Nat
  BY <1>2, FrameType
<1>4. r \in Frame /\ r.schema = AuditSchema
  BY LibraryRow
<1> HIDE DEF r
<1>5. \/ /\ stack' = <<g>> \o Tail(stack)
         /\ reported' = [reported EXCEPT ![Top.schema] = @ + 1]
         /\ audits' = audits
      \/ crashed'
      \/ /\ config.tableName \in config.migrated \/ ~FailureEnds(AuditSchema)
         /\ stack' = <<r, g>> \o Tail(stack)
         /\ config.tableName \in config.migrated =>
              audits' = [audits EXCEPT ![Top.schema] = @ + 1]
         /\ reported' = reported
  BY <1>1, NestedCases, Zenon DEF r
<1>6. CASE /\ stack' = <<g>> \o Tail(stack)
           /\ reported' = [reported EXCEPT ![Top.schema] = @ + 1]
           /\ audits' = audits
  BY <1>1, <1>6, ReportedSane DEF Half
<1> HIDE DEF g
<1>7. CASE /\ config.tableName \in config.migrated \/ ~FailureEnds(AuditSchema)
           /\ stack' = <<r, g>> \o Tail(stack)
           /\ config.tableName \in config.migrated =>
                audits' = [audits EXCEPT ![Top.schema] = @ + 1]
           /\ reported' = reported
  <2>1. /\ stack' \in Seq(Frame) /\ stack' # <<>> /\ Len(stack') = 2
        /\ stack'[1] = r /\ stack'[2] = g
    BY <1>2, <1>3, <1>4, <1>7, Pushed
  <2>2. CASE Skipped(AuditSchema)
    <3>1. /\ config.tableName \in config.migrated /\ ~ReportsTwice
          /\ audits' = [audits EXCEPT ![Top.schema] = @ + 1]
      BY <1>7, <2>2 DEF FailureEnds, ReportsTwice
    <3>2. ASSUME NEW t \in Schema
          PROVE  Settled(t, audits'[t], reported'[t], owed'[t], Due(t, g), Half(t, g))
      <4>1. audits[t] \in Nat /\ reported[t] \in Nat /\ (t \in AppTable => owed[t] \in Nat)
        BY DEF TypeOK
      <4>2. audits'[t] = IF t = Top.schema THEN audits[t] + 1 ELSE audits[t]
        BY <3>1, <4>1 DEF TypeOK
      <4>3. Settled(t, audits[t], reported[t], owed[t], Due(t, Top), Half(t, Top))
        BY <1>1, BalanceOf
      <4>4. CASE t # Top.schema
        BY <1>1, <1>3, <1>7, <3>1, <4>2, <4>3, <4>4 DEF Settled, Due
      <4>5. CASE t = Top.schema
        <5>1. /\ t \in AppTable /\ ~Skipped(t)
              /\ Due(t, Top) = Top.left /\ Due(t, g) = Top.left - 1
          BY <1>2, <1>3, <4>5 DEF Due
        <5>2. /\ reported'[t] = reported[t] /\ audits'[t] = audits[t] + 1
              /\ owed'[t] = owed[t] /\ owed[t] \in Nat
          BY <1>1, <1>7, <4>1, <4>2, <4>5, <5>1
        <5>3. audits[t] + reported[t] + Top.left = owed[t]
          BY <3>1, <4>3, <5>1 DEF Settled
        <5>4. (audits[t] + 1) + reported[t] + (Top.left - 1) = owed[t]
          BY <1>3, <4>1, <5>2, <5>3
        <5> QED BY <3>1, <5>1, <5>2, <5>4 DEF Settled
      <4> QED BY <4>4, <4>5
    <3>3. Skipped(stack'[1].schema)
      BY <1>4, <2>1, <2>2
    <3>4. Len(stack') \in {1, 2} /\ stack'[Len(stack')] = g
      BY <2>1
    <3> QED BY <1>1, <1>2, <1>3, <2>1, <3>1, <3>2, <3>3, <3>4, SaneBy
  <2>3. CASE ~Skipped(AuditSchema)
    <3>1. config.plugin = "postgres-gorm" => config.versionTable \in config.migrated
      BY <1>1, <1>2 DEF Sane, Sound
    <3>2. config.plugin = "postgres-gorm" => config.tableName \in config.migrated
      BY <1>7 DEF FailureEnds
    <3>3. Endless(r)
      BY <2>3, <3>1, <3>2, LibraryRowEndless DEF Writable, VersionSchema, AuditSchema, r
    <3> QED BY <1>1, <2>1, <3>3, DoomedBy
  <2> QED BY <2>2, <2>3
<1> QED BY <1>5, <1>6, <1>7

-----------------------------------------------------------------------------
(* The theorems *)

LEMMA InitIInv == Init => IInv
<1> SUFFICES ASSUME Init PROVE IInv
  OBVIOUS
<1>1. stack \in Seq(Frame) /\ stack = <<>> /\ crashed = FALSE
  BY EmptySeq DEF Init
<1>2. TypeOK
  <2>1. audits \in [Schema -> Nat] /\ owed \in [AppTable -> Nat] /\ reported \in [Schema -> Nat]
    BY DEF Init
  <2>2. statements \in 0..MaxStatements /\ config \in Configs
    BY BoundAssumption DEF Init
  <2> QED BY <1>1, <2>1, <2>2 DEF TypeOK
<1>3. ASSUME NEW t \in Schema PROVE Balanced(t)
  BY <1>1 DEF Init, Balanced, Settled
<1>4. Sane
  BY <1>1, <1>3 DEF Sane, Sound
<1> QED BY <1>1, <1>2, <1>4 DEF IInv

LEMMA NextIInv == IInv /\ [Next]_vars => IInv'
<1> SUFFICES ASSUME IInv, [Next]_vars PROVE IInv'
  OBVIOUS
<1>1. CASE UNCHANGED vars
  <2>1. \A t \in Schema : Balanced(t)' = Balanced(t)
    BY <1>1 DEF vars, Balanced, Settled, Due, Half, App, Skipped, SkipSet, ReportsTwice
  <2>2. Sound' = Sound
    BY <1>1 DEF vars, Sound, App, Top, Skipped, SkipSet, ReportsTwice
  <2>3. Doomed' = Doomed
    BY <1>1 DEF vars, Doomed, Endless, Writable, Top, Skipped, SkipSet
  <2>4. TypeOK'
    BY <1>1 DEF IInv, vars, TypeOK
  <2>5. crashed' = crashed /\ stack' = stack
    BY <1>1 DEF vars
  <2> QED BY <2>1, <2>2, <2>3, <2>4, <2>5 DEF IInv, Sane
<1>2. CASE Next
  <2>1. TypeOK' /\ (crashed' => stack' = <<>>)
    BY <1>2, TypedStep DEF IInv
  <2>2. ~crashed
    <3>1. ASSUME stack # <<>> PROVE ~crashed
      BY <3>1 DEF IInv
    <3>2. ASSUME NEW t, NEW n, Create(t, n) PROVE ~crashed
      BY <3>2, Zenon DEF Create
    <3> QED BY <1>2, <3>1, <3>2, Zenon DEF Next, Done, NextVersion, ReadMax, Persist, Auditing
  <2>3. CASE Doomed
    BY <1>2, <2>1, <2>3, DoomedStep DEF IInv
  <2>4. CASE Sane
    <3>1. TypeOK
      BY DEF IInv
    <3>2. crashed' \/ Doomed' \/ Sane'
      BY <1>2, <2>4, <3>1, CreateSane, DoneSane, NextVersionSane, ReadMaxSane, PersistSane
         DEF Next
    <3> QED BY <2>1, <3>2 DEF IInv
  <2> QED BY <2>2, <2>3, <2>4 DEF IInv
<1> QED BY <1>1, <1>2

(* The goroutine runs statements of the application whose callbacks nest   *)
(* at most one statement that is skipped, or is lost in callbacks that     *)
(* call each other, or has crashed.                                        *)
THEOREM Invariance == Spec => []IInv
<1> QED BY InitIInv, NextIInv, PTL DEF Spec

(* The stack holds statements of known tables, and what is written or      *)
(* reported is counted.                                                    *)
THEOREM TypeCorrect == Spec => []TypeOK
<1>1. IInv => TypeOK
  BY DEF IInv
<1> QED BY Invariance, <1>1, PTL

(* Between statements each element the application created has its audit   *)
(* or was reported, table by table, for every configuration of either      *)
(* plugin: callbacks that nest neither lose nor add one.                   *)
THEOREM ElementsAccounted == Spec => []OneAuditPerElement
<1>1. IInv => OneAuditPerElement
  <2> SUFFICES ASSUME IInv, stack = <<>>, ~crashed, NEW t \in Schema
               PROVE  IF t \notin AppTable \/ Skipped(t)
                        THEN audits[t] = 0 /\ reported[t] = 0
                      ELSE IF ReportsTwice
                        THEN audits[t] = 0 /\ reported[t] = 2 * owed[t]
                      ELSE audits[t] + reported[t] = owed[t]
    BY DEF OneAuditPerElement
  <2>1. Len(stack) = 0
    BY EmptySeq DEF IInv
  <2>2. Sane
    BY <2>1 DEF IInv, Doomed
  <2>3. Settled(t, audits[t], reported[t], owed[t], 0, 0)
    BY <2>2 DEF Sane, Balanced
  <2>4. audits[t] \in Nat /\ reported[t] \in Nat /\ (t \in AppTable => owed[t] \in Nat)
    BY DEF IInv, TypeOK
  <2> QED BY <2>3, <2>4 DEF Settled
<1> QED BY Invariance, <1>1, PTL

-----------------------------------------------------------------------------
(* Configurations the plugin survives *)

(* The schema names of the tables the plugin writes to are skipped. *)
SkipsOwnTables ==
    \A c \in Configs :
      /\ AuditSchema \in {c.tableName} \cup c.skipTables
      /\ c.plugin = "postgres-gorm" => VersionSchema \in {c.tableName} \cup c.skipTables

LEMMA NotDoomed ==
    ASSUME SkipsOwnTables, TypeOK
    PROVE  ~Doomed
<1>1. /\ Skipped(AuditSchema)
      /\ config.plugin = "postgres-gorm" => Skipped(VersionSchema)
  BY DEF SkipsOwnTables, TypeOK, Skipped, SkipSet
<1>2. ASSUME NEW f, Endless(f) PROVE FALSE
  BY <1>1, <1>2 DEF Endless, Writable
<1> QED BY <1>2 DEF Doomed

(* From a statement of the application one more can be nested. *)
LEMMA NestedFits ==
    ASSUME MaxDepth >= 2, TypeOK, Sane, Auditing, ~crashed,
           NEW table, NEW schema, NEW frame, Nested(table, schema, frame)
    PROVE  ~crashed'
<1>1. Len(stack) # MaxDepth
  BY AuditingApp, BoundAssumption
<1> QED BY <1>1, Zenon DEF Nested

(* A plugin that skips the tables it writes to does not call itself: with  *)
(* room for one nested statement the goroutine's stack never overflows.    *)
THEOREM SurvivesItself ==
    ASSUME SkipsOwnTables, MaxDepth >= 2
    PROVE  Spec => []PluginSurvivesItself
<1> DEFINE Inv == IInv /\ ~crashed
<1>1. Init => Inv
  BY InitIInv DEF Init
<1>2. Inv /\ [Next]_vars => Inv'
  <2> SUFFICES ASSUME Inv, [Next]_vars PROVE ~crashed'
    BY NextIInv
  <2>1. TypeOK /\ Sane /\ ~crashed
    BY NotDoomed DEF IInv
  <2>2. CASE UNCHANGED vars
    BY <2>2 DEF vars
  <2>3. ASSUME NEW t, NEW n, Create(t, n) PROVE ~crashed'
    BY <2>3, Zenon DEF Create
  <2>4. CASE Done
    BY <2>1, <2>4, Zenon DEF Done
  <2>5. CASE NextVersion
    BY <2>1, <2>5, NextVersionNests, NestedFits
  <2>6. CASE ReadMax
    BY <2>1, <2>6, ReadMaxNumbers
  <2>7. CASE Persist
    BY <2>1, <2>7, PersistNests, NestedFits
  <2> QED BY <2>2, <2>3, <2>4, <2>5, <2>6, <2>7, Zenon DEF Next
<1>3. Inv => PluginSurvivesItself
  BY DEF PluginSurvivesItself
<1> QED BY <1>1, <1>2, <1>3, PTL DEF Spec

-----------------------------------------------------------------------------
(* Configurations whose tables are there *)

(* The tables that the store or the plugin names have been created. *)
TablesMigrated ==
    \A c \in Configs :
      /\ c.tableName \in c.migrated
      /\ c.plugin = "postgres-gorm" => c.versionTable \in c.migrated

(* A statement of the library whose table exists reports nothing. *)
LEMMA NestedReportsNothing ==
    ASSUME NEW table, NEW schema, NEW frame, Nested(table, schema, frame),
           table \in config.migrated
    PROVE  reported' = reported
BY Zenon DEF Nested

(* Only a missing table makes a create go to Config.OnError, also for the  *)
(* rows the library nests: with the tables that the store names, and not   *)
(* those Migrate creates, nothing is reported, in any configuration.       *)
THEOREM MigratedTablesSuffice ==
    ASSUME TablesMigrated
    PROVE  Spec => []MigratedStoreWorks
<1> DEFINE Inv == config \in Configs /\ MigratedStoreWorks
<1>1. Init => Inv
  BY DEF Init, MigratedStoreWorks
<1>2. Inv /\ [Next]_vars => Inv'
  <2> SUFFICES ASSUME Inv, [Next]_vars PROVE config' = config /\ reported' = reported
    BY DEF MigratedStoreWorks
  <2>1. /\ config.tableName \in config.migrated
        /\ config.plugin = "postgres-gorm" => config.versionTable \in config.migrated
    BY DEF TablesMigrated
  <2>2. CASE UNCHANGED vars
    BY <2>2 DEF vars
  <2>3. ASSUME NEW t, NEW n, Create(t, n)
        PROVE  config' = config /\ reported' = reported
    BY <2>3, Zenon DEF Create
  <2>4. CASE Done
    BY <2>4, Zenon DEF Done
  <2>5. CASE NextVersion
    BY <2>1, <2>5, NextVersionNests, NestedReportsNothing
  <2>6. CASE ReadMax
    BY <2>1, <2>6, ReadMaxNumbers
  <2>7. CASE Persist
    BY <2>1, <2>7, PersistNests, NestedReportsNothing
  <2> QED BY <2>2, <2>3, <2>4, <2>5, <2>6, <2>7, Zenon DEF Next
<1>3. Inv => MigratedStoreWorks
  OBVIOUS
<1> QED BY <1>1, <1>2, <1>3, PTL DEF Spec
=============================================================================
