----------------------------- MODULE DocumentLife -----------------------------
(***************************************************************************)
(* mongodbv2/collection.go over the life of documents: a caller fills Go   *)
(* objects and inserts, replaces, updates, soft-deletes, restores and      *)
(* deletes documents with them.  The wrapper writes into those objects: it *)
(* stamps what it inserts, and the map of a replacement gets an _id.       *)
(*                                                                         *)
(* One goroutine and no failure; AuditableCollection has the others.  The  *)
(* trail is represented by what it tells a reader who replays it.  Bound:  *)
(* MaxCalls calls of the wrapper.                                          *)
(***************************************************************************)
EXTENDS ChangeComputers

CONSTANTS
    DocId,          \* _id values
    Time,           \* times
    Zero,           \* the zero time.Time
    Stamps,         \* created_at and updated_at, the fields skipped by default
    DeletedAt,      \* deleted_at
    Objects,        \* initial objects of the caller, by name
    Assignments,    \* what the caller may put into them: <<object, field, value>>
    Updates,        \* operator updates
    Operated,       \* what the server makes of a field and the operand of an
                    \* operator other than $set and $unset
    Setups,         \* policies: configuration, example and struct type
    MaxCalls

ASSUME LifeAssumption ==
    /\ DeletedAt \in Field /\ Stamps \subseteq Field \ {IdField, DeletedAt}
    /\ DocId \cup Time \cup {Zero} \subseteq Value
    /\ \A v \in DocId \cup Time \cup {Zero} : Decoded[v] = v
    /\ MaxCalls \in Nat

Object == DOMAIN Objects
GoValue == [kind : {"map", "struct", "pointer"},
            doc : {doc \in Document : doc[IdField] \in DocId \cup {Absent}}]
StoredValue == {Decoded[v] : v \in Value}

(* What an audit says of a field under such an operator: {"$op": operand}. *)
Intents == {"$inc"} \X Value

ASSUME InputAssumption ==
    /\ Objects \in [Object -> GoValue]
    /\ Assignments \subseteq Object \X Field \X (Value \cup {Absent})
    /\ \A a \in Assignments : a[2] = IdField => a[3] \in DocId \cup {Absent}
    /\ Updates \subseteq [Field -> (Operator \X Value) \cup {Absent}]
    /\ \A u \in Updates : u[IdField] = Absent   \* the server refuses the others

ASSUME OperatorAssumption ==
    /\ Operated \in [StoredValue \cup {Absent} -> [Value -> StoredValue \cup {Absent}]]
    /\ Intents \cap (Value \cup {Redacted}) = {}
    /\ \A u \in Intents : <<Null, u>> # Absent

VARIABLES
    setup,      \* the policies of this behaviour
    objects,    \* the caller's objects: a bson.M, a struct or a pointer to one
    coll,       \* the wrapped collection
    used,       \* _ids there have been
    told,       \* the documents as their audits, replayed, tell them
    dark,       \* documents changed by what is documented not to be audited
    calls

vars == <<setup, objects, coll, used, told, dark, calls>>

TypeOK ==
    /\ setup \in Setups
    /\ objects \in [Object -> GoValue]
    /\ coll \in [DocId -> [Field -> StoredValue \cup {Absent}]]
    /\ used \in SUBSET DocId
    /\ told \in [DocId -> [Field -> StoredValue \cup Intents \cup {Redacted, Absent}]]
    /\ dark \in SUBSET DocId
    /\ calls \in 0..MaxCalls

Init ==
    /\ setup \in Setups
    /\ objects = Objects
    /\ coll = [d \in DocId |-> NoDocument]
    /\ used = {}
    /\ told = [d \in DocId |-> NoDocument]
    /\ dark = {}
    /\ calls = 0

-----------------------------------------------------------------------------
(* Helpers *)

(* normalizeConfig adds the stamps to the skipped fields; operator updates *)
(* and deletes have no struct type, nor has a bson.M.                      *)
Config == [setup.config EXCEPT !.skip = @ \cup Stamps]
NoTags == [skip |-> {}, redact |-> {}, only |-> NoWhitelist]
CallPolicy == FieldPolicy(Config, setup.example, NoTags)
PolicyOf(obj) == IF obj.kind = "map" THEN CallPolicy
                 ELSE FieldPolicy(Config, setup.example, setup.struct)

Exists(d) == coll[d] # NoDocument
NotDeleted(d) == coll[d][DeletedAt] = Absent

(* Mutant of Stamped: times the caller has set are overwritten. *)
StampedAlways(obj, now) ==
    IF obj.kind # "pointer" THEN obj.doc
    ELSE [f \in Field |-> IF f \in Stamps THEN now ELSE obj.doc[f]]

(* setDocumentTimestamps *)
Stamped(obj, now) ==
    IF obj.kind # "pointer" THEN obj.doc
    ELSE [f \in Field |-> IF f \in Stamps /\ obj.doc[f] = Zero THEN now ELSE obj.doc[f]]

WithId(doc, d) == [doc EXCEPT ![IdField] = d]

Begin == calls < MaxCalls /\ calls' = calls + 1 /\ UNCHANGED setup

(* writeAudit for each of the documents D; what their trails tell then: a  *)
(* value, or a mask or an operator as it is recorded.                      *)
Audit(D, mode, changes) ==
    told' = IF ActionOf(mode) = "update" /\ Changed(changes) = {} THEN told
            ELSE [d \in DocId |->
                    IF d \notin D THEN told[d]
                    ELSE [f \in Field |->
                            IF changes[f] = Absent THEN told[d][f]
                            ELSE IF changes[f][2] \in Value THEN Decoded[changes[f][2]]
                            ELSE changes[f][2]]]

Unaudited(D) == dark' = dark \cup D /\ UNCHANGED told

-----------------------------------------------------------------------------
(* The caller works on an object between calls. *)
Assign(o, f, v) ==
    /\ objects' = [objects EXCEPT ![o].doc[f] = v]
    /\ UNCHANGED <<setup, coll, used, told, dark, calls>>

(* The object is stamped whether or not the insert succeeds.  Without an   *)
(* _id in it the driver makes a new one, which the object does not get.    *)
InsertOne(o, now) ==
    LET doc == Stamped(objects[o], now)
        ids == IF doc[IdField] = Absent THEN DocId \ used ELSE {doc[IdField]}
    IN /\ Begin
       /\ objects' = [objects EXCEPT ![o].doc = doc]
       /\ \E d \in ids :
            IF Exists(d) THEN UNCHANGED <<coll, used, told>>
            ELSE /\ coll' = [coll EXCEPT ![d] = WithId(Stored(doc), d)]
                 /\ used' = used \cup {d}
                 /\ Audit({d}, "create",
                          CreateChanges(ToMap(doc, objects[o].kind = "map"),
                                        PolicyOf(objects[o])))
       /\ UNCHANGED dark

(* A replacement by _id.  The server refuses another _id in it; toMap      *)
(* returns a bson.M itself, so that the caller's map gets the _id, too.    *)
ReplaceOne(d, o) ==
    LET obj == objects[o]
        isMap == obj.kind = "map"
    IN /\ Begin
       /\ Exists(d)
       /\ IF obj.doc[IdField] \notin {Absent, d} THEN UNCHANGED <<objects, coll, told>>
          ELSE /\ coll' = [coll EXCEPT ![d] = WithId(Stored(obj.doc), d)]
               /\ objects' = IF isMap THEN [objects EXCEPT ![o].doc = WithId(@, d)]
                                      ELSE objects
               /\ Audit({d}, "replace",
                        DiffDocs(coll[d], WithId(ToMap(obj.doc, isMap), d), PolicyOf(obj)))
       /\ UNCHANGED <<used, dark>>

(* With upsert and nothing matched the server inserts; MatchedCount is 0   *)
(* and the call returns there.                                             *)
ReplaceUpserts(d, o) ==
    LET doc == objects[o].doc
    IN /\ Begin
       /\ ~Exists(d)
       /\ doc[IdField] \in {Absent, d}
       /\ coll' = [coll EXCEPT ![d] = WithId(Stored(doc), d)]
       /\ used' = used \cup {d}
       /\ Unaudited({d})
       /\ UNCHANGED objects

Result(old, u) ==
    CASE u[1] = "$set"   -> Decoded[u[2]]
      [] u[1] = "$unset" -> Absent
      [] OTHER           -> Operated[old][u[2]]

AppliedTo(doc, update) ==
    [f \in Field |-> IF update[f] = Absent THEN doc[f] ELSE Result(doc[f], update[f])]

(* UpdateOne and UpdateMany. *)
UpdateDocs(D, update) ==
    /\ Begin
    /\ D # {} /\ \A d \in D : Exists(d)
    /\ coll' = [d \in DocId |-> IF d \in D THEN AppliedTo(coll[d], update) ELSE coll[d]]
    /\ Audit(D, "operators", ExtractUpdateChanges(update, CallPolicy))
    /\ UNCHANGED <<objects, used, dark>>

(* An update by an aggregation pipeline is no document: toMap fails, the   *)
(* error is dropped, and no changes means no audit.                        *)
UpdateByPipeline(d, update) ==
    /\ Begin
    /\ Exists(d)
    /\ coll' = [coll EXCEPT ![d] = AppliedTo(@, update)]
    /\ Unaudited({d})
    /\ UNCHANGED <<objects, used>>

UpdateUpserts(d, update) ==
    /\ Begin
    /\ ~Exists(d)
    /\ coll' = [coll EXCEPT ![d] = WithId(AppliedTo(@, update), d)]
    /\ used' = used \cup {d}
    /\ Unaudited({d})
    /\ UNCHANGED objects

Deletion(now) == [f \in Field |-> IF f = DeletedAt THEN <<"$set", now>> ELSE Absent]
Restoration == [f \in Field |-> IF f = DeletedAt THEN <<"$unset", Null>> ELSE Absent]

(* SoftDelete and SoftDeleteMany of all documents, or of those that        *)
(* NotDeleted leaves of them.                                              *)
SoftDelete(D, live, now) ==
    UpdateDocs({d \in D : live => NotDeleted(d)}, Deletion(now))

Restore(d) == UpdateDocs({d}, Restoration)

DeleteOne(d) ==
    /\ Begin
    /\ Exists(d)
    /\ coll' = [coll EXCEPT ![d] = NoDocument]
    /\ Audit({d}, "delete", DeleteChanges(coll[d], CallPolicy))
    /\ UNCHANGED <<objects, used, dark>>

Next ==
    \/ \E a \in Assignments : Assign(a[1], a[2], a[3])
    \/ \E o \in Object, now \in Time : InsertOne(o, now)
    \/ \E d \in DocId, o \in Object : ReplaceOne(d, o) \/ ReplaceUpserts(d, o)
    \/ \E D \in SUBSET DocId, u \in Updates : UpdateDocs(D, u)
    \/ \E d \in DocId, u \in Updates : UpdateByPipeline(d, u)
    \/ \E d \in DocId, u \in Updates \cup {Deletion(now) : now \in Time} : UpdateUpserts(d, u)
    \/ \E D \in SUBSET DocId, live \in BOOLEAN, now \in Time : SoftDelete(D, live, now)
    \/ \E d \in DocId : Restore(d) \/ DeleteOne(d)

Spec == Init /\ [][Next]_vars

-----------------------------------------------------------------------------
(* Properties *)

(* Fields no policy of the setup hides. *)
Open(f) == \A p \in {CallPolicy, FieldPolicy(Config, setup.example, setup.struct)} :
             Visible(f, p) /\ f \notin p.redact

OrNull(x) == IF x = Absent THEN Null ELSE x

(* Whoever replays the trail of a document, from creations through         *)
(* replacements, updates, soft deletions, restorations and deletions under *)
(* an _id used again, has the document on every field that no policy       *)
(* hides, null and missing being the same, or knows that he has not: an    *)
(* operator other than $set and $unset is recorded with its operand        *)
(* (docs/how-it-works.md:173, "requested intent, not resulting value") and *)
(* leaves him without the value until the field's next recorded change.    *)
(* He knows when a document was soft-deleted; a null that a caller stores  *)
(* as deleted_at, which NotDeleted takes for a deletion, he cannot tell    *)
(* from a missing field.  Upserts that insert and pipelines are documented *)
(* not to be audited.                                                      *)
TrailTellsDocument ==
    \A d \in DocId \ dark, f \in Field \ {IdField} :
      Open(f) /\ told[d][f] \notin Intents => OrNull(told[d][f]) = OrNull(coll[d][f])

(* The field f of the object o is as it was before a call, or stamped, or  *)
(* the _id of the document the object replaced.                            *)
Kept(o, f) ==
    LET obj == objects[o]
        new == objects'[o].doc[f]
    IN \/ new = obj.doc[f]
       \/ obj.kind = "pointer" /\ f \in Stamps /\ obj.doc[f] = Zero /\ new \in Time
       \/ /\ obj.kind = "map" /\ f = IdField /\ obj.doc[f] = Absent
          /\ new \in DocId /\ coll'[new] = WithId(Stored(obj.doc), new)

(* A call leaves the caller's objects as they were, except that an insert  *)
(* sets zero stamps behind a pointer, and a replacement gives its map the  *)
(* _id of the document it replaced when it had none: no map changes from   *)
(* one document's _id to another's.                                        *)
CallerObjectsKept == [][calls' # calls => \A o \in Object, f \in Field : Kept(o, f)]_vars
=============================================================================
