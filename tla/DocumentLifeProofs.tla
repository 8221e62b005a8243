-------------------------- MODULE DocumentLifeProofs --------------------------
(***************************************************************************)
(* The trail tells the document or the operator that changed it, for every *)
(* set of fields and values, every policy, and any sequence of the calls   *)
(* of DocumentLife.                                                        *)
(***************************************************************************)
EXTENDS DocumentLife, TLAPS

StoredDocument == [Field -> StoredValue \cup {Absent}]
LiveUpdate == [Field -> (Operator \X Value) \cup {Absent}]
TrailDocument == [Field -> StoredValue \cup Intents \cup {Redacted, Absent}]

(* What the server gives back is a stored value, and is given back as it is. *)
LEMMA StoredFacts ==
    /\ StoredValue \subseteq Value /\ Absent \notin StoredValue
    /\ Redacted \notin StoredValue
    /\ \A v \in StoredValue : Decoded[v] = v
    /\ \A v \in Value : Decoded[v] \in StoredValue
    /\ DocId \cup Time \cup {Null} \subseteq StoredValue
BY DecodedAssumption, ValueAssumption, LifeAssumption DEF StoredValue

(* Storing an object makes a stored document of it. *)
LEMMA StoredTyped ==
    ASSUME NEW doc \in Document
    PROVE  /\ Stored(doc) \in StoredDocument
           /\ \A d \in DocId : WithId(Stored(doc), d) \in StoredDocument
BY StoredFacts, FieldAssumption DEF Document, Stored, WithId, StoredDocument

(* The updates of the wrapper are updates. *)
LEMMA UpdateTyped ==
    /\ \A u \in Updates : u \in LiveUpdate
    /\ \A now \in Time : Deletion(now) \in LiveUpdate
    /\ Restoration \in LiveUpdate
<1>1. Time \cup {Null} \subseteq Value
  BY LifeAssumption, ValueAssumption
<1> QED
  BY <1>1, InputAssumption DEF LiveUpdate, Deletion, Restoration, Operator

(* A stored document stays one under an update. *)
LEMMA AppliedTyped ==
    ASSUME NEW doc \in StoredDocument, NEW u \in LiveUpdate
    PROVE  AppliedTo(doc, u) \in StoredDocument
<1> SUFFICES ASSUME NEW f \in Field
             PROVE  AppliedTo(doc, u)[f] \in StoredValue \cup {Absent}
  BY DEF AppliedTo, StoredDocument
<1>1. CASE u[f] = Absent
  BY <1>1 DEF AppliedTo, StoredDocument
<1>2. CASE u[f] # Absent
  <2>1. u[f] \in Operator \X Value /\ doc[f] \in StoredValue \cup {Absent}
    BY <1>2 DEF LiveUpdate, StoredDocument
  <2>2. Operated[doc[f]][u[f][2]] \in StoredValue \cup {Absent}
    BY <2>1, OperatorAssumption
  <2>3. Result(doc[f], u[f]) \in StoredValue \cup {Absent}
    BY <2>1, <2>2, StoredFacts DEF Result
  <2> QED
    BY <1>2, <2>3 DEF AppliedTo
<1> QED
  BY <1>1, <1>2

-----------------------------------------------------------------------------
(* What the computers record of a field no policy hides. *)

(* The audit's new value of a field, if it has one, and the value the      *)
(* document has got, tell a reader the same, or the audit has an operator. *)
Tells(change, old, new) ==
    IF change = Absent THEN OrNull(old) = OrNull(new)
    ELSE \/ change[2] \in Intents
         \/ change[2] \in Value /\ Decoded[change[2]] = OrNull(new)

Shows(f, p) == f # IdField /\ Visible(f, p) /\ f \notin p.redact

(* The audit of an insert tells a reader each field that shows. *)
LEMMA CreateTells ==
    ASSUME NEW doc \in Document, NEW f \in Field, NEW p, Shows(f, p)
    PROVE  Tells(CreateChanges(doc, p)[f], Absent, Stored(doc)[f])
<1>1. doc[f] = Absent \/ doc[f] \in Value
  BY DEF Document
<1>2. CreateChanges(doc, p)[f] = IF doc[f] = Absent THEN Absent ELSE <<Null, doc[f]>>
  BY DEF CreateChanges, Audited, Shows, Shown
<1>3. doc[f] \in Value => <<Null, doc[f]>> # Absent /\ Decoded[doc[f]] # Absent
  BY AbsentAssumption, ValueAssumption, StoredFacts
<1> QED
  BY <1>1, <1>2, <1>3, ValueAssumption DEF Tells, OrNull, Stored

(* The audit of a deletion tells that the fields are gone. *)
LEMMA DeleteTells ==
    ASSUME NEW doc \in StoredDocument, NEW f \in Field, NEW p, Shows(f, p)
    PROVE  Tells(DeleteChanges(doc, p)[f], doc[f], Absent)
<1>1. doc[f] = Absent \/ doc[f] \in Value
  BY StoredFacts DEF StoredDocument
<1>2. DeleteChanges(doc, p)[f] = IF doc[f] = Absent THEN Absent ELSE <<doc[f], Null>>
  BY DEF DeleteChanges, Audited, Shows, Shown
<1>3. doc[f] \in Value => <<doc[f], Null>> # Absent
  BY AbsentAssumption, ValueAssumption
<1> QED
  BY <1>1, <1>2, <1>3, ValueAssumption, DecodedAssumption DEF Tells, OrNull

(* The replacement may be in Go values: where it has the very value the    *)
(* old document has, that is what is stored.                               *)
LEMMA ReplaceTells ==
    ASSUME NEW old \in StoredDocument, NEW doc \in Document, NEW b \in BOOLEAN,
           NEW d \in DocId, NEW f \in Field, NEW p, Shows(f, p)
    PROVE  Tells(DiffDocs(old, WithId(ToMap(doc, b), d), p)[f], old[f], Stored(doc)[f])
<1> DEFINE new == WithId(ToMap(doc, b), d)[f]
<1>1. old[f] = Absent \/ (old[f] \in StoredValue /\ Decoded[old[f]] = old[f])
  BY StoredFacts DEF StoredDocument
<1>2. doc[f] = Absent \/ doc[f] \in Value
  BY DEF Document
<1>3. new = IF b THEN doc[f] ELSE Stored(doc)[f]
  BY DEF WithId, ToMap, Shows, Document, Stored
<1>4. Stored(doc)[f] = IF doc[f] = Absent THEN Absent ELSE Decoded[doc[f]]
  BY DEF Stored
<1>5. /\ new = Absent <=> doc[f] = Absent
      /\ new # Absent => new \in Value /\ Decoded[new] = Stored(doc)[f]
  BY <1>2, <1>3, <1>4, StoredFacts, ValueAssumption
<1> HIDE DEF new
<1>6. DiffDocs(old, WithId(ToMap(doc, b), d), p)[f] =
        IF old[f] = Absent /\ new = Absent THEN Absent
        ELSE IF new = Absent THEN <<old[f], Null>>
        ELSE IF old[f] = Absent THEN <<Null, new>>
        ELSE IF old[f] = new THEN Absent ELSE <<old[f], new>>
  BY DEF DiffDocs, Audited, Shows, Shown, new
<1>7. \A x, y \in Value : <<x, y>> # Absent
  BY AbsentAssumption
<1>8. Null \in Value /\ StoredValue \subseteq Value /\ Absent \notin Value
      /\ Decoded[Null] = Null
  BY ValueAssumption, StoredFacts, DecodedAssumption
<1>9. CASE new = Absent
  BY <1>1, <1>4, <1>5, <1>6, <1>7, <1>8, <1>9 DEF Tells, OrNull
<1>10. CASE new # Absent
  <2>1. new \in Value /\ Decoded[new] = Stored(doc)[f] /\ Stored(doc)[f] # Absent
    BY <1>2, <1>4, <1>5, <1>10, StoredFacts
  <2>2. CASE old[f] = Absent
    BY <1>6, <1>7, <1>8, <1>10, <2>1, <2>2 DEF Tells, OrNull
  <2>3. CASE old[f] # Absent /\ old[f] = new
    BY <1>1, <1>6, <1>10, <2>1, <2>3 DEF Tells, OrNull
  <2>4. CASE old[f] # Absent /\ old[f] # new
    BY <1>1, <1>6, <1>7, <1>8, <1>10, <2>1, <2>4 DEF Tells, OrNull
  <2> QED BY <2>2, <2>3, <2>4
<1> QED
  BY <1>9, <1>10

(* The audit of an update tells what the update made of the fields that show. *)
LEMMA UpdateTells ==
    ASSUME NEW doc \in StoredDocument, NEW u \in LiveUpdate, NEW f \in Field,
           NEW p, Shows(f, p)
    PROVE  Tells(ExtractUpdateChanges(u, p)[f], doc[f], AppliedTo(doc, u)[f])
<1>1. CASE u[f] = Absent
  BY <1>1 DEF ExtractUpdateChanges, AppliedTo, Tells
<1>2. CASE u[f] # Absent
  <2>1. u[f] \in Operator \X Value
    BY <1>2 DEF LiveUpdate
  <2>2. ExtractUpdateChanges(u, p)[f] = <<Null, Operand(u[f])>>
    BY <1>2, <2>1 DEF ExtractUpdateChanges, Shows
  <2>3. AppliedTo(doc, u)[f] = Result(doc[f], u[f])
    BY <1>2 DEF AppliedTo
  <2>4. \A y \in Value : <<Null, y>> # Absent /\ Decoded[y] # Absent
    BY AbsentAssumption, ValueAssumption, StoredFacts
  <2>5. CASE u[f][1] = "$unset"
    <3>1. Operand(u[f]) = Null /\ Result(doc[f], u[f]) = Absent
      BY <2>5 DEF Operand, Result
    <3> QED
      BY <2>2, <2>3, <2>4, <3>1, ValueAssumption, DecodedAssumption DEF Tells, OrNull
  <2>6. CASE u[f][1] = "$set"
    <3>1. Operand(u[f]) = u[f][2] /\ Result(doc[f], u[f]) = Decoded[u[f][2]]
      BY <2>6 DEF Operand, Result
    <3> QED
      BY <2>1, <2>2, <2>3, <2>4, <3>1 DEF Tells, OrNull
  <2>7. CASE u[f][1] = "$inc"
    <3>1. Operand(u[f]) = u[f]
      BY <2>7 DEF Operand
    <3>2. u[f] \in Intents
      BY <2>1, <2>7 DEF Intents
    <3> QED
      BY <2>2, <3>1, <3>2, OperatorAssumption DEF Tells
  <2> QED
    BY <2>1, <2>5, <2>6, <2>7 DEF Operator
<1> QED
  BY <1>1, <1>2

-----------------------------------------------------------------------------
(* Type correctness. *)

(* The pairs of an audit, as far as a replay reads them. *)
Readable(changes) ==
    \A f \in Field : changes[f] # Absent => changes[f][2] \in Value \cup Intents \cup {Redacted}

(* The objects of a caller, what is stored of them and what toMap makes of them. *)
LEMMA CallerTyped ==
    ASSUME TypeOK, NEW o \in Object
    PROVE  /\ objects[o].kind \in {"map", "struct", "pointer"}
           /\ objects[o].doc \in Document
           /\ objects[o].doc[IdField] \in DocId \cup {Absent}
           /\ Stored(objects[o].doc) \in StoredDocument
           /\ \A b \in BOOLEAN : ToMap(objects[o].doc, b) \in Document
<1>1. objects[o] \in GoValue
  BY DEF TypeOK
<1>2. objects[o].doc \in Document
  BY <1>1 DEF GoValue
<1>3. Stored(objects[o].doc) \in StoredDocument
  BY <1>2, StoredTyped
<1>4. StoredDocument \subseteq Document
  BY StoredFacts DEF StoredDocument, Document
<1> QED
  BY <1>1, <1>2, <1>3, <1>4 DEF GoValue, ToMap

(* What the caller or the wrapper puts into an object is still an object. *)
LEMMA FieldSet ==
    ASSUME TypeOK, NEW o \in Object, NEW doc \in Document,
           doc[IdField] \in DocId \cup {Absent}
    PROVE  [objects EXCEPT ![o].doc = doc] \in [Object -> GoValue]
<1>1. objects \in [Object -> GoValue]
  BY DEF TypeOK
<1>2. \A x \in GoValue : [x EXCEPT !.doc = doc] \in GoValue
  BY DEF GoValue
<1> QED
  BY <1>1, <1>2

(* A reader who takes over an audit still has stored values. *)
LEMMA AuditTyped ==
    ASSUME TypeOK, NEW D \in SUBSET DocId, NEW mode, NEW changes, Readable(changes),
           Audit(D, mode, changes)
    PROVE  told' \in [DocId -> TrailDocument]
<1>1. told \in [DocId -> TrailDocument]
  BY DEF TypeOK, TrailDocument
<1>2. \A f \in Field : changes[f] # Absent =>
        (IF changes[f][2] \in Value THEN Decoded[changes[f][2]] ELSE changes[f][2])
          \in StoredValue \cup Intents \cup {Redacted, Absent}
  BY StoredFacts DEF Readable
<1> QED
  BY <1>1, <1>2 DEF Audit, TrailDocument

(* What the computers record is a value a reader can take over. *)
LEMMA ComputersReadable ==
    ASSUME NEW p
    PROVE  /\ \A doc \in Document : Readable(CreateChanges(doc, p))
           /\ \A doc \in Document : Readable(DeleteChanges(doc, p))
           /\ \A old, new \in Document : Readable(DiffDocs(old, new, p))
           /\ \A u \in LiveUpdate : Readable(ExtractUpdateChanges(u, p))
<1>1. ASSUME NEW doc \in Document PROVE Readable(CreateChanges(doc, p))
  BY DEF Readable, CreateChanges, Document, Shown
<1>2. ASSUME NEW doc \in Document PROVE Readable(DeleteChanges(doc, p))
  BY ValueAssumption DEF Readable, DeleteChanges
<1>3. ASSUME NEW old \in Document, NEW new \in Document
      PROVE  Readable(DiffDocs(old, new, p))
  BY ValueAssumption DEF Readable, DiffDocs, Document
<1>4. ASSUME NEW u \in LiveUpdate PROVE Readable(ExtractUpdateChanges(u, p))
  <2> SUFFICES ASSUME NEW f \in Field, ExtractUpdateChanges(u, p)[f] # Absent
               PROVE  ExtractUpdateChanges(u, p)[f][2] \in Value \cup Intents \cup {Redacted}
    BY DEF Readable
  <2>1. u[f] # Absent
    BY DEF ExtractUpdateChanges
  <2>2. u[f] \in Operator \X Value
    BY <2>1 DEF LiveUpdate
  <2>3. Operand(u[f]) \in Value \cup Intents
    BY <2>2, ValueAssumption DEF Operand, Operator, Intents
  <2> QED
    BY <2>1, <2>3 DEF ExtractUpdateChanges
<1> QED
  BY <1>1, <1>2, <1>3, <1>4

(* Timestamps leave an object an object. *)
LEMMA StampedTyped ==
    ASSUME TypeOK, NEW o \in Object, NEW now \in Time
    PROVE  /\ Stamped(objects[o], now) \in Document
           /\ Stamped(objects[o], now)[IdField] \in DocId \cup {Absent}
<1>1. /\ objects[o].doc \in Document
      /\ objects[o].doc[IdField] \in DocId \cup {Absent}
  BY CallerTyped
<1>2. IdField \in Field /\ IdField \notin Stamps /\ Time \subseteq Value
  BY LifeAssumption, FieldAssumption
<1> QED
  BY <1>1, <1>2 DEF Stamped, Document

(* So does the _id. *)
LEMMA WithIdTyped ==
    ASSUME NEW doc \in Document, NEW d \in DocId
    PROVE  WithId(doc, d) \in Document /\ WithId(doc, d)[IdField] = d
BY LifeAssumption, FieldAssumption DEF WithId, Document

(* The initial states are well typed. *)
LEMMA LifeInit == Init => TypeOK
<1> SUFFICES ASSUME Init PROVE TypeOK
  OBVIOUS
<1>1. NoDocument \in TrailDocument
      /\ NoDocument \in StoredDocument
  BY DEF NoDocument, StoredDocument, TrailDocument
<1>2. 0 \in 0..MaxCalls
  BY LifeAssumption
<1> QED
  BY <1>1, <1>2, InputAssumption DEF Init, TypeOK, StoredDocument, TrailDocument

(* A call is counted and leaves the setup. *)
LEMMA CallCounted == ASSUME TypeOK, Begin PROVE calls' \in 0..MaxCalls /\ setup' \in Setups
BY LifeAssumption DEF TypeOK, Begin

(* Updates keep the types, ... *)
LEMMA UpdateDocsTyped ==
    ASSUME TypeOK, NEW D \in SUBSET DocId, NEW u \in LiveUpdate, UpdateDocs(D, u)
    PROVE  TypeOK'
<1>1. coll \in [DocId -> StoredDocument]
  BY DEF TypeOK, StoredDocument
<1>2. coll' \in [DocId -> StoredDocument]
  BY <1>1, AppliedTyped DEF UpdateDocs
<1>3. Readable(ExtractUpdateChanges(u, CallPolicy))
  BY ComputersReadable
<1>4. told' \in [DocId -> TrailDocument]
  BY <1>3, AuditTyped DEF UpdateDocs
<1> QED
  BY <1>2, <1>4, CallCounted DEF UpdateDocs, TypeOK, StoredDocument, TrailDocument

(* ... inserts do, ... *)
LEMMA InsertOneTyped ==
    ASSUME TypeOK, NEW o \in Object, NEW now \in Time, InsertOne(o, now)
    PROVE  TypeOK'
<1> DEFINE doc == Stamped(objects[o], now)
           ids == IF doc[IdField] = Absent THEN DocId \ used ELSE {doc[IdField]}
           changes == CreateChanges(ToMap(doc, objects[o].kind = "map"), PolicyOf(objects[o]))
<1>1. doc \in Document /\ doc[IdField] \in DocId \cup {Absent}
  BY StampedTyped
<1>2. ids \subseteq DocId
  BY <1>1
<1>3. objects' \in [Object -> GoValue]
  BY <1>1, FieldSet DEF InsertOne
<1>4. Readable(changes)
  <2>1. ToMap(doc, objects[o].kind = "map") \in Document
    BY <1>1, StoredTyped, StoredFacts DEF ToMap, StoredDocument, Document
  <2> QED
    BY <2>1, ComputersReadable
<1>5. PICK d \in ids :
        \/ UNCHANGED <<coll, used, told>>
        \/ /\ coll' = [coll EXCEPT ![d] = WithId(Stored(doc), d)]
           /\ used' = used \cup {d}
           /\ Audit({d}, "create", changes)
  BY DEF InsertOne
<1>6. d \in DocId
  BY <1>2
<1>7. Begin /\ UNCHANGED dark
  BY DEF InsertOne
<1>8. CASE UNCHANGED <<coll, used, told>>
  BY <1>3, <1>7, <1>8, CallCounted DEF TypeOK
<1>9. CASE /\ coll' = [coll EXCEPT ![d] = WithId(Stored(doc), d)]
           /\ used' = used \cup {d}
           /\ Audit({d}, "create", changes)
  <2>1. WithId(Stored(doc), d) \in StoredDocument
    BY <1>1, <1>6, StoredTyped
  <2>2. coll' \in [DocId -> StoredDocument]
    BY <1>9, <2>1 DEF TypeOK, StoredDocument
  <2>3. told' \in [DocId -> TrailDocument]
    <3> HIDE DEF changes
    <3> QED BY <1>4, <1>6, <1>9, AuditTyped
  <2>4. used' \in SUBSET DocId
    BY <1>6, <1>9 DEF TypeOK
  <2> QED
    BY <1>3, <1>7, <2>2, <2>3, <2>4, CallCounted DEF TypeOK, StoredDocument, TrailDocument
<1> QED
  BY <1>5, <1>8, <1>9

(* ... and replacements. *)
LEMMA ReplaceOneTyped ==
    ASSUME TypeOK, NEW d \in DocId, NEW o \in Object, ReplaceOne(d, o)
    PROVE  TypeOK'
<1> DEFINE obj == objects[o]
           changes == DiffDocs(coll[d], WithId(ToMap(obj.doc, obj.kind = "map"), d), PolicyOf(obj))
<1>1. obj.doc \in Document
  BY CallerTyped
<1>2. Begin /\ UNCHANGED <<used, dark>>
  BY DEF ReplaceOne
<1>3. CASE UNCHANGED <<objects, coll, told>>
  BY <1>2, <1>3, CallCounted DEF TypeOK
<1>4. CASE /\ coll' = [coll EXCEPT ![d] = WithId(Stored(obj.doc), d)]
           /\ objects' = IF obj.kind = "map" THEN [objects EXCEPT ![o].doc = WithId(@, d)]
                                             ELSE objects
           /\ Audit({d}, "replace", changes)
  <2>1. coll' \in [DocId -> StoredDocument]
    BY <1>1, <1>4, StoredTyped DEF TypeOK, StoredDocument
  <2>2. objects' \in [Object -> GoValue]
    <3>1. [objects EXCEPT ![o].doc = WithId(obj.doc, d)] \in [Object -> GoValue]
      BY <1>1, WithIdTyped, FieldSet
    <3> QED BY <1>4, <3>1 DEF TypeOK
  <2>3. Readable(changes)
    <3>1. coll[d] \in Document
      BY StoredFacts DEF TypeOK, Document
    <3>2. WithId(ToMap(obj.doc, obj.kind = "map"), d) \in Document
      BY CallerTyped, WithIdTyped
    <3> QED BY <3>1, <3>2, ComputersReadable
  <2>4. told' \in [DocId -> TrailDocument]
    <3> HIDE DEF changes
    <3> QED BY <1>4, <2>3, AuditTyped
  <2> QED
    BY <1>2, <2>1, <2>2, <2>4, CallCounted DEF TypeOK, StoredDocument, TrailDocument
<1> QED
  BY <1>3, <1>4 DEF ReplaceOne

(* Every step keeps the types. *)
LEMMA LifeNext == TypeOK /\ [Next]_vars => TypeOK'
<1> SUFFICES ASSUME TypeOK, [Next]_vars PROVE TypeOK'
  OBVIOUS
<1>1. ASSUME NEW a \in Assignments, Assign(a[1], a[2], a[3]) PROVE TypeOK'
  <2>1. a[1] \in Object /\ a[2] \in Field /\ a[3] \in Value \cup {Absent}
        /\ (a[2] = IdField => a[3] \in DocId \cup {Absent})
    BY InputAssumption
  <2> DEFINE doc == [objects[a[1]].doc EXCEPT ![a[2]] = a[3]]
  <2>2. doc \in Document /\ doc[IdField] \in DocId \cup {Absent}
    BY <2>1, CallerTyped, FieldAssumption DEF Document
  <2>3. objects' = [objects EXCEPT ![a[1]].doc = doc]
    BY <1>1 DEF Assign
  <2>4. objects' \in [Object -> GoValue]
    BY <2>1, <2>2, <2>3, FieldSet
  <2> QED
    BY <1>1, <2>4 DEF Assign, TypeOK
<1>2. ASSUME NEW d \in DocId, NEW o \in Object, ReplaceUpserts(d, o) PROVE TypeOK'
  <2>1. WithId(Stored(objects[o].doc), d) \in StoredDocument
    BY CallerTyped, StoredTyped
  <2> QED
    BY <1>2, <2>1, CallCounted DEF ReplaceUpserts, Unaudited, TypeOK, StoredDocument
<1>3. ASSUME NEW d \in DocId, NEW u \in LiveUpdate,
             UpdateByPipeline(d, u) \/ UpdateUpserts(d, u)
      PROVE  TypeOK'
  <2>1. coll \in [DocId -> StoredDocument] /\ StoredDocument \subseteq Document
    BY StoredFacts DEF TypeOK, StoredDocument, Document
  <2>2. AppliedTo(coll[d], u) \in StoredDocument
    BY <2>1, AppliedTyped
  <2>3. WithId(AppliedTo(coll[d], u), d) \in StoredDocument
    BY <2>2, StoredFacts, FieldAssumption DEF WithId, StoredDocument
  <2>4. coll' \in [DocId -> StoredDocument]
    BY <1>3, <2>1, <2>2, <2>3 DEF UpdateByPipeline, UpdateUpserts
  <2> QED
    BY <1>3, <2>4, CallCounted
    DEF UpdateByPipeline, UpdateUpserts, Unaudited, TypeOK, StoredDocument
<1>4. ASSUME NEW D \in SUBSET DocId, NEW live \in BOOLEAN, NEW now \in Time,
             SoftDelete(D, live, now)
      PROVE  TypeOK'
  BY <1>4, UpdateDocsTyped, UpdateTyped DEF SoftDelete
<1>5. ASSUME NEW d \in DocId, Restore(d) PROVE TypeOK'
  BY <1>5, UpdateDocsTyped, UpdateTyped DEF Restore
<1>6. ASSUME NEW d \in DocId, DeleteOne(d) PROVE TypeOK'
  <2>1. coll[d] \in Document /\ NoDocument \in StoredDocument
    BY StoredFacts DEF TypeOK, Document, NoDocument, StoredDocument
  <2>2. Readable(DeleteChanges(coll[d], CallPolicy))
    BY <2>1, ComputersReadable
  <2>3. told' \in [DocId -> TrailDocument]
    BY <1>6, <2>2, AuditTyped DEF DeleteOne
  <2>4. coll' \in [DocId -> StoredDocument]
    BY <1>6, <2>1 DEF DeleteOne, TypeOK, StoredDocument
  <2> QED
    BY <1>6, <2>3, <2>4, CallCounted DEF DeleteOne, TypeOK, StoredDocument, TrailDocument
<1>7. CASE UNCHANGED vars
  BY <1>7 DEF vars, TypeOK
<1> QED
  BY <1>1, <1>2, <1>3, <1>4, <1>5, <1>6, <1>7, UpdateTyped, UpdateDocsTyped,
     InsertOneTyped, ReplaceOneTyped
  DEF Next

(* The state of documents, objects and trails stays in its types: what is  *)
(* stored is what a decode gives back, and no trail invents a value.       *)
THEOREM LifeTypeCorrect == Spec => []TypeOK
BY LifeInit, LifeNext, PTL DEF Spec

-----------------------------------------------------------------------------
(* The trail tells the document.                                           *)

(* What TrailTellsDocument says of one document and field. *)
SameOrIntent(x, new) == x \in Intents \/ OrNull(x) = OrNull(new)
Told(d, f) == SameOrIntent(told[d][f], coll[d][f])

(* Both policies of a setup show an open field. *)
LEMMA OpenShows ==
    ASSUME NEW f \in Field \ {IdField}, Open(f)
    PROVE  /\ Shows(f, CallPolicy)
           /\ \A o \in Object : Shows(f, PolicyOf(objects[o]))
BY DEF Open, Shows, PolicyOf

(* A replay of an audit that tells the step from the old value to the new  *)
(* one has the new value, if it had the old one, or an operator.           *)
LEMMA AuditTells ==
    ASSUME TypeOK, NEW D \in SUBSET DocId, NEW mode, NEW changes, Audit(D, mode, changes),
           NEW d \in D, NEW f \in Field, NEW new, Told(d, f),
           Tells(changes[f], coll[d][f], new)
    PROVE  SameOrIntent(told'[d][f], new)
<1>1. told \in [DocId -> TrailDocument]
  BY DEF TypeOK, TrailDocument
<1>2. CASE changes[f] = Absent
  <2>1. told'[d][f] = told[d][f]
    BY <1>1, <1>2 DEF Audit, TrailDocument
  <2> QED
    BY <1>2, <2>1 DEF Tells, Told, SameOrIntent
<1>3. CASE changes[f] # Absent
  <2>1. f \in Changed(changes)
    BY <1>3 DEF Changed
  <2>2. told'[d][f] = IF changes[f][2] \in Value THEN Decoded[changes[f][2]]
                                                 ELSE changes[f][2]
    BY <1>1, <1>3, <2>1 DEF Audit, TrailDocument
  <2>3. CASE changes[f][2] \in Intents
    BY <2>2, <2>3, OperatorAssumption DEF SameOrIntent
  <2>4. CASE changes[f][2] \notin Intents
    <3>1. told'[d][f] = OrNull(new)
      BY <1>3, <2>2, <2>4 DEF Tells
    <3> QED
      BY <3>1, ValueAssumption DEF OrNull, SameOrIntent
  <2> QED
    BY <2>3, <2>4
<1> QED
  BY <1>2, <1>3

(* The other documents' trails stay as they are. *)
LEMMA AuditKeeps ==
    ASSUME TypeOK, NEW D \in SUBSET DocId, NEW mode, NEW changes, Audit(D, mode, changes),
           NEW d \in DocId \ D
    PROVE  told'[d] = told[d]
BY DEF Audit, TypeOK

(* The policies do not change. *)
LEMMA OpenStays ==
    ASSUME setup' = setup, NEW f
    PROVE  Open(f)' <=> Open(f)
BY DEF Open, CallPolicy, Config

(* After an update the trails tell the documents, ... *)
LEMMA UpdateDocsTells ==
    ASSUME TypeOK, NEW D \in SUBSET DocId, NEW u \in LiveUpdate, UpdateDocs(D, u),
           NEW d \in DocId, NEW f \in Field \ {IdField}, Open(f), Told(d, f)
    PROVE  Told(d, f)'
<1> DEFINE changes == ExtractUpdateChanges(u, CallPolicy)
<1>1. Audit(D, "operators", changes)
  BY DEF UpdateDocs
<1>2. coll'[d] = IF d \in D THEN AppliedTo(coll[d], u) ELSE coll[d]
  BY DEF UpdateDocs
<1>3. CASE d \in D
  <2>1. coll[d] \in StoredDocument
    BY DEF TypeOK, StoredDocument
  <2>2. Tells(changes[f], coll[d][f], AppliedTo(coll[d], u)[f])
    BY <2>1, UpdateTells, OpenShows
  <2>3. SameOrIntent(told'[d][f], AppliedTo(coll[d], u)[f])
    <3> HIDE DEF changes
    <3> QED BY <1>1, <1>3, <2>2, AuditTells
  <2> QED
    BY <1>2, <1>3, <2>3 DEF Told, SameOrIntent, OrNull
<1>4. CASE d \notin D
  <2>1. told'[d] = told[d]
    <3> HIDE DEF changes
    <3> QED BY <1>1, <1>4, AuditKeeps
  <2> QED
    BY <1>2, <1>4, <2>1 DEF Told, SameOrIntent, OrNull
<1> QED
  BY <1>3, <1>4

(* ... after an insert, ... *)
LEMMA InsertOneTells ==
    ASSUME TypeOK, NEW o \in Object, NEW now \in Time, InsertOne(o, now),
           NEW e \in DocId, NEW f \in Field \ {IdField}, Open(f), Told(e, f)
    PROVE  Told(e, f)'
<1> DEFINE doc == Stamped(objects[o], now)
           isMap == objects[o].kind = "map"
           ids == IF doc[IdField] = Absent THEN DocId \ used ELSE {doc[IdField]}
           changes == CreateChanges(ToMap(doc, isMap), PolicyOf(objects[o]))
<1>1. doc \in Document /\ doc[IdField] \in DocId \cup {Absent}
  BY StampedTyped
<1>2. PICK d \in ids :
        \/ UNCHANGED <<coll, used, told>>
        \/ /\ ~Exists(d)
           /\ coll' = [coll EXCEPT ![d] = WithId(Stored(doc), d)]
           /\ used' = used \cup {d}
           /\ Audit({d}, "create", changes)
  BY DEF InsertOne
<1>3. d \in DocId
  BY <1>1
<1>4. CASE UNCHANGED <<coll, used, told>>
  BY <1>4 DEF Told, SameOrIntent, OrNull
<1>5. CASE /\ ~Exists(d)
           /\ coll' = [coll EXCEPT ![d] = WithId(Stored(doc), d)]
           /\ used' = used \cup {d}
           /\ Audit({d}, "create", changes)
  <2>1. CASE e # d
    <3>1. coll'[e] = coll[e]
      BY <1>5, <2>1 DEF TypeOK
    <3>2. told'[e] = told[e]
      <4> HIDE DEF changes
      <4> QED BY <1>3, <1>5, <2>1, AuditKeeps
    <3> QED
      BY <3>1, <3>2 DEF Told, SameOrIntent, OrNull
  <2>2. CASE e = d
    <3>1. coll[e][f] = Absent
      BY <1>5, <2>2 DEF Exists, NoDocument
    <3>2. coll'[e][f] = Stored(doc)[f]
      BY <1>3, <1>5, <2>2 DEF TypeOK, WithId, Stored
    <3>3. /\ ToMap(doc, isMap) \in Document
          /\ Stored(ToMap(doc, isMap))[f] = Stored(doc)[f]
      BY <1>1, StoredTyped, StoredFacts DEF ToMap, StoredDocument, Document, Stored
    <3>4. Tells(changes[f], Absent, Stored(ToMap(doc, isMap))[f])
      BY <3>3, CreateTells, OpenShows
    <3>5. Tells(changes[f], coll[e][f], Stored(doc)[f])
      <4> HIDE DEF changes, doc
      <4> QED BY <3>1, <3>3, <3>4
    <3>6. SameOrIntent(told'[e][f], Stored(doc)[f])
      <4> HIDE DEF changes, doc
      <4>2. {e} \in SUBSET DocId /\ e \in {e} /\ f \in Field
        OBVIOUS
      <4>3. Audit({e}, "create", changes)
        BY <1>5, <2>2
      <4> DEFINE stored == Stored(doc)[f]
      <4>4. Tells(changes[f], coll[e][f], stored)
        BY <3>5
      <4> HIDE DEF stored
      <4>5. SameOrIntent(told'[e][f], stored)
        BY <4>2, <4>3, <4>4, AuditTells
      <4> QED BY <4>5 DEF stored
    <3> QED
      BY <3>2, <3>6 DEF Told, SameOrIntent, OrNull
  <2> QED
    BY <2>1, <2>2
<1> QED
  BY <1>2, <1>4, <1>5

(* ... after a replacement, an upsert included, ... *)
LEMMA ReplaceOneTells ==
    ASSUME TypeOK, NEW d \in DocId, NEW o \in Object, ReplaceOne(d, o),
           NEW e \in DocId, NEW f \in Field \ {IdField}, Open(f), Told(e, f)
    PROVE  Told(e, f)'
<1> DEFINE obj == objects[o]
           isMap == obj.kind = "map"
           changes == DiffDocs(coll[d], WithId(ToMap(obj.doc, isMap), d), PolicyOf(obj))
<1>1. CASE UNCHANGED <<coll, told>>
  BY <1>1 DEF Told, SameOrIntent, OrNull
<1>2. CASE /\ coll' = [coll EXCEPT ![d] = WithId(Stored(obj.doc), d)]
           /\ Audit({d}, "replace", changes)
  <2>1. CASE e # d
    <3>1. coll'[e] = coll[e]
      BY <1>2, <2>1 DEF TypeOK
    <3>2. told'[e] = told[e]
      <4> HIDE DEF changes
      <4> QED BY <1>2, <2>1, AuditKeeps
    <3> QED
      BY <3>1, <3>2 DEF Told, SameOrIntent, OrNull
  <2>2. CASE e = d
    <3>1. coll'[e][f] = Stored(obj.doc)[f]
      BY <1>2, <2>2 DEF TypeOK, WithId, Stored
    <3>2. obj.doc \in Document /\ coll[d] \in StoredDocument
      BY CallerTyped DEF TypeOK, StoredDocument
    <3>3. Tells(changes[f], coll[d][f], Stored(obj.doc)[f])
      BY <3>2, ReplaceTells, OpenShows
    <3>4. SameOrIntent(told'[e][f], Stored(obj.doc)[f])
      <4> HIDE DEF changes, obj
      <4> QED BY <1>2, <2>2, <3>3, AuditTells
    <3> QED
      BY <3>1, <3>4 DEF Told, SameOrIntent, OrNull
  <2> QED
    BY <2>1, <2>2
<1> QED
  BY <1>1, <1>2 DEF ReplaceOne

(* ... and after a deletion. *)
LEMMA DeleteOneTells ==
    ASSUME TypeOK, NEW d \in DocId, DeleteOne(d),
           NEW e \in DocId, NEW f \in Field \ {IdField}, Open(f), Told(e, f)
    PROVE  Told(e, f)'
<1> DEFINE changes == DeleteChanges(coll[d], CallPolicy)
<1>1. Audit({d}, "delete", changes) /\ coll' = [coll EXCEPT ![d] = NoDocument]
  BY DEF DeleteOne
<1>2. CASE e # d
  <2>1. coll'[e] = coll[e]
    BY <1>1, <1>2 DEF TypeOK
  <2>2. told'[e] = told[e]
    <3> HIDE DEF changes
    <3> QED BY <1>1, <1>2, AuditKeeps
  <2> QED
    BY <2>1, <2>2 DEF Told, SameOrIntent, OrNull
<1>3. CASE e = d
  <2>1. coll'[e][f] = Absent
    BY <1>1, <1>3 DEF TypeOK, NoDocument
  <2>2. coll[d] \in StoredDocument
    BY DEF TypeOK, StoredDocument
  <2>3. Tells(changes[f], coll[d][f], Absent)
    BY <2>2, DeleteTells, OpenShows
  <2>4. SameOrIntent(told'[e][f], Absent)
    <3> HIDE DEF changes
    <3> QED BY <1>1, <1>3, <2>3, AuditTells
  <2> QED
    BY <2>1, <2>4 DEF Told, SameOrIntent, OrNull
<1> QED
  BY <1>2, <1>3

(* At first there is nothing to tell. *)
LEMMA TellsInit == Init => TrailTellsDocument
BY DEF Init, TrailTellsDocument

(* Every step keeps trail and document together. *)
LEMMA TellsNext == TypeOK /\ TrailTellsDocument /\ [Next]_vars => TrailTellsDocument'
<1> SUFFICES ASSUME TypeOK, TrailTellsDocument, [Next]_vars,
                    NEW e \in DocId \ dark', NEW f \in Field \ {IdField}, Open(f)'
             PROVE  Told(e, f)'
  BY DEF TrailTellsDocument, Told, SameOrIntent
<1>1. setup' = setup /\ dark \subseteq dark'
  BY DEF Next, vars, Begin, Assign, InsertOne, ReplaceOne, ReplaceUpserts, UpdateDocs,
         UpdateByPipeline, UpdateUpserts, SoftDelete, Restore, DeleteOne, Unaudited
<1>2. Open(f) /\ Told(e, f)
  <2>1. Open(f)
    BY <1>1, OpenStays
  <2> QED
    BY <1>1, <2>1 DEF TrailTellsDocument, Told, SameOrIntent
<1>3. ASSUME UNCHANGED <<coll, told>> PROVE Told(e, f)'
  BY <1>2, <1>3 DEF Told, SameOrIntent, OrNull
<1>4. ASSUME NEW d \in DocId, dark' = dark \cup {d}, UNCHANGED told,
             \A x \in DocId \ {d} : coll'[x] = coll[x]
      PROVE  Told(e, f)'
  BY <1>2, <1>4 DEF Told, SameOrIntent, OrNull
<1>5. ASSUME NEW d \in DocId, NEW o \in Object, ReplaceUpserts(d, o) PROVE Told(e, f)'
  <2>1. \A x \in DocId \ {d} : coll'[x] = coll[x]
    BY <1>5 DEF ReplaceUpserts, TypeOK
  <2> QED
    BY <1>4, <1>5, <2>1 DEF ReplaceUpserts, Unaudited
<1>6. ASSUME NEW d \in DocId, NEW u, UpdateByPipeline(d, u) \/ UpdateUpserts(d, u)
      PROVE  Told(e, f)'
  <2>1. \A x \in DocId \ {d} : coll'[x] = coll[x]
    BY <1>6 DEF UpdateByPipeline, UpdateUpserts, TypeOK
  <2> QED
    BY <1>4, <1>6, <2>1 DEF UpdateByPipeline, UpdateUpserts, Unaudited
<1>7. ASSUME NEW D \in SUBSET DocId, NEW u \in LiveUpdate, UpdateDocs(D, u)
      PROVE  Told(e, f)'
  BY <1>2, <1>7, UpdateDocsTells
<1>8. ASSUME NEW D \in SUBSET DocId, NEW live \in BOOLEAN, NEW now \in Time,
             SoftDelete(D, live, now)
      PROVE  Told(e, f)'
  BY <1>7, <1>8, UpdateTyped DEF SoftDelete
<1>9. ASSUME NEW d \in DocId, Restore(d) PROVE Told(e, f)'
  BY <1>7, <1>9, UpdateTyped DEF Restore
<1> QED
  BY <1>2, <1>3, <1>5, <1>6, <1>7, <1>8, <1>9, UpdateTyped, InsertOneTells,
     ReplaceOneTells, DeleteOneTells
  DEF Next, vars, Assign

(* Whoever replays the trail of a document has, on every field no policy   *)
(* hides, the document, or the operator other than $set and $unset that    *)
(* the last recorded change of the field was: for every policy, and        *)
(* whatever sequence of inserts, replacements, updates of top-level        *)
(* fields, soft deletions, restorations and deletions.                     *)
THEOREM TrailTells == Spec => []TrailTellsDocument
<1>1. Init => TypeOK /\ TrailTellsDocument
  BY LifeInit, TellsInit
<1>2. TypeOK /\ TrailTellsDocument /\ [Next]_vars => (TypeOK /\ TrailTellsDocument)'
  BY LifeNext, TellsNext
<1> QED
  BY <1>1, <1>2, PTL DEF Spec

-----------------------------------------------------------------------------
(* What a call leaves of the caller's objects. *)

(* An insert sets only the stamps of its object, ... *)
LEMMA InsertOneKeeps ==
    ASSUME TypeOK, NEW o \in Object, NEW now \in Time, InsertOne(o, now),
           NEW x \in Object, NEW f \in Field
    PROVE  Kept(x, f)
<1>1. objects' = [objects EXCEPT ![o].doc = Stamped(objects[o], now)]
  BY DEF InsertOne
<1>2. CASE x # o
  BY <1>1, <1>2 DEF TypeOK, Kept
<1>3. CASE x = o
  <2>1. objects'[x].doc = Stamped(objects[x], now)
    BY <1>1, <1>3 DEF TypeOK, GoValue
  <2>2. objects[x].doc \in Document
    BY CallerTyped
  <2> QED
    BY <2>1, <2>2 DEF Stamped, Kept, Document
<1> QED
  BY <1>2, <1>3

(* ... a replacement only the _id of a map. *)
LEMMA ReplaceOneKeeps ==
    ASSUME TypeOK, NEW d \in DocId, NEW o \in Object, ReplaceOne(d, o),
           NEW x \in Object, NEW f \in Field
    PROVE  Kept(x, f)
<1>1. CASE objects' = objects
  BY <1>1 DEF Kept
<1>2. CASE objects' # objects
  <2>1. /\ objects[o].doc[IdField] \in {Absent, d}
        /\ objects[o].kind = "map"
        /\ objects' = [objects EXCEPT ![o].doc = WithId(@, d)]
        /\ coll' = [coll EXCEPT ![d] = WithId(Stored(objects[o].doc), d)]
    BY <1>2 DEF ReplaceOne
  <2>2. CASE x # o
    BY <2>1, <2>2 DEF TypeOK, Kept
  <2>3. CASE x = o
    <3>1. objects'[x].doc = WithId(objects[x].doc, d)
      BY <2>1, <2>3 DEF TypeOK, GoValue
    <3>2. objects[x].doc \in Document
      BY CallerTyped
    <3>3. coll'[d] = WithId(Stored(objects[x].doc), d)
      BY <2>1, <2>3 DEF TypeOK
    <3>4. CASE f # IdField
      BY <3>1, <3>2, <3>4 DEF WithId, Document, Kept
    <3>5. CASE f = IdField
      <4>1. objects'[x].doc[f] = d
        BY <3>1, <3>2, <3>5, WithIdTyped
      <4> QED
        BY <2>1, <2>3, <3>3, <3>5, <4>1 DEF Kept
    <3> QED
      BY <3>4, <3>5
  <2> QED
    BY <2>2, <2>3
<1> QED
  BY <1>1, <1>2

(* No call touches an object otherwise. *)
LEMMA NextKeeps ==
    ASSUME TypeOK, [Next]_vars, calls' # calls, NEW x \in Object, NEW f \in Field
    PROVE  Kept(x, f)
<1>1. ASSUME UNCHANGED objects PROVE Kept(x, f)
  BY <1>1 DEF Kept
<1> QED
  BY <1>1, InsertOneKeeps, ReplaceOneKeeps
  DEF Next, vars, Assign, ReplaceUpserts, UpdateDocs, UpdateByPipeline, UpdateUpserts,
      SoftDelete, Restore, DeleteOne

(* A call changes no object of its caller but for the stamps of an insert  *)
(* and the _id of a replacement's map.                                     *)
THEOREM ObjectsKept == Spec => CallerObjectsKept
<1>1. TypeOK /\ [Next]_vars
        => [calls' # calls => \A o \in Object, f \in Field : Kept(o, f)]_vars
  BY NextKeeps
<1> QED
  BY <1>1, LifeTypeCorrect, PTL DEF Spec, CallerObjectsKept
=============================================================================
