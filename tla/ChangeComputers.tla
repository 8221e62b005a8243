--------------------------- MODULE ChangeComputers ---------------------------
(***************************************************************************)
(* mongodbv2: field policies, struct tags, the four default change         *)
(* computers, the limits and the sanitizer of deferred requests, as        *)
(* operators.  No state.                                                   *)
(*                                                                         *)
(* A document is a function from Field to a value, Absent where it has no  *)
(* such field.  Changes are a function from Field to an <<old, new>> pair, *)
(* Absent where the field did not change.                                  *)
(***************************************************************************)
EXTENDS Naturals, FiniteSets

CONSTANTS
    Field,              \* top-level field names
    IdField,            \* "_id"
    Value,              \* values of a field, as the driver decodes or as Go has them
    Decoded,            \* what each value is once stored and read back
    Null,               \* Go's nil, and the BSON null a field may hold
    Absent,             \* no such field
    NoWhitelist,        \* a nil whitelist
    Redacted,           \* Config.RedactedValue
    Huge                \* values that push a document over DiffLimits

ASSUME FieldAssumption == IdField \in Field /\ IsFiniteSet(Field)
ASSUME ValueAssumption ==
    /\ Null \in Value /\ Huge \subseteq Value
    /\ Absent \notin Value /\ Redacted \notin Value \cup {Absent}
ASSUME AbsentAssumption ==
    /\ \A S \in SUBSET Field : S # NoWhitelist
    /\ \A x, y \in {"$set", "$unset", "$inc"} \cup Value \cup {Redacted} : <<x, y>> # Absent
ASSUME DecodedAssumption ==
    /\ Decoded \in [Value -> Value]
    /\ Decoded[Null] = Null
    /\ \A v \in Value : Decoded[Decoded[v]] = Decoded[v]

Document == [Field -> Value \cup {Absent}]
MaskedDocument == [Field -> Value \cup {Redacted, Absent}]
NoDocument == [f \in Field |-> Absent]

(* An operator update names a field under at most one operator: the server *)
(* refuses others.  "$inc" stands for every operator that is neither $set  *)
(* nor $unset.                                                             *)
Operator == {"$set", "$unset", "$inc"}
Update == [Field -> (Operator \X (Value \cup {Redacted})) \cup {Absent}]

Policy == [skip : SUBSET Field, redact : SUBSET Field,
           only : {NoWhitelist} \cup SUBSET Field]

(* The auditable tag of a struct field; "-" stands for "false" too, "only" *)
(* for "true", and "" for a tag the wrapper does not know.                 *)
Tag == {"", "-", "redact", "only"}

Mode == {"create", "operators", "replace", "delete"}
Request == [mode : Mode, before : MaskedDocument, after : MaskedDocument, update : Update,
            policy : Policy]

Action == {"create", "update", "delete"}
ActionOf(mode) == IF mode \in {"operators", "replace"} THEN "update" ELSE mode

-----------------------------------------------------------------------------
(* Field policy *)

Tagged(tags, tag) == {f \in Field : tags[f] = tag}

(* collectStructTags: one tagged field makes a whitelist. *)
AuditTagsFromStruct(tags) ==
    [skip   |-> Tagged(tags, "-"),
     redact |-> Tagged(tags, "redact"),
     only   |-> IF Tagged(tags, "only") = {} THEN NoWhitelist ELSE Tagged(tags, "only")]

(* parseOpsTag: the tags of the embedded structs together; no known        *)
(* operation among them means all.                                         *)
OpsOf(embeds) ==
    IF (UNION embeds) \cap Action = {} THEN Action ELSE (UNION embeds) \cap Action

(* Mutant of FieldPolicy: the tags of the example are forgotten. *)
FieldPolicyOfStruct(config, example, struct) ==
    [skip   |-> config.skip \cup struct.skip,
     redact |-> config.redact \cup struct.redact,
     only   |-> struct.only]

(* normalizeConfig, fieldPolicy: skipped and redacted fields of the        *)
(* configuration, of the collection's example and of the document's struct *)
(* type add up; the type's whitelist replaces the example's.               *)
FieldPolicy(config, example, struct) ==
    [skip   |-> config.skip \cup example.skip \cup struct.skip,
     redact |-> config.redact \cup example.redact \cup struct.redact,
     only   |-> IF struct.only # NoWhitelist THEN struct.only ELSE example.only]

(* Mutant of IncludedField: the whitelist hides redacted fields. *)
IncludedFieldStrict(f, p) == p.only = NoWhitelist \/ f \in p.only

(* A redacted field is let through a whitelist that does not name it. *)
IncludedField(f, p) ==
    p.only = NoWhitelist \/ f \in p.only \/ f \in p.redact

Visible(f, p) == f \notin p.skip /\ IncludedField(f, p)

(* The fields of documents the computers look at. *)
Audited(f, p) == f # IdField /\ Visible(f, p)

-----------------------------------------------------------------------------
(* The change computers *)

(* Mutant of Stored: the server keeps what Go has. *)
StoredAsIs(doc) == doc

(* What the server keeps of a document, and what toMap makes of one: a     *)
(* struct goes through the codec, a bson.M is taken as it is.              *)
Stored(doc) == [f \in Field |-> IF doc[f] = Absent THEN Absent ELSE Decoded[doc[f]]]
ToMap(doc, isMap) == IF isMap THEN doc ELSE Stored(doc)

Shown(f, v, p) == IF f \in p.redact THEN Redacted ELSE v

CreateChanges(doc, p) ==
    [f \in Field |-> IF doc[f] # Absent /\ Audited(f, p)
                       THEN <<Null, Shown(f, doc[f], p)>> ELSE Absent]

DeleteChanges(doc, p) ==
    [f \in Field |-> IF doc[f] # Absent /\ Audited(f, p)
                       THEN <<Shown(f, doc[f], p), Null>> ELSE Absent]

(* Mutant of DiffDocs: removed fields are not looked for. *)
DiffDocsOfNew(old, new, p) ==
    [f \in Field |->
       IF ~Audited(f, p) \/ new[f] = Absent \/ (f \notin p.redact /\ old[f] = new[f])
         THEN Absent
         ELSE <<Shown(f, IF old[f] = Absent THEN Null ELSE old[f], p), Shown(f, new[f], p)>>]

(* A redacted field of the new document counts as changed, whatever it was *)
(* before.                                                                 *)
DiffDocs(old, new, p) ==
    [f \in Field |->
       IF ~Audited(f, p) \/ (old[f] = Absent /\ new[f] = Absent) THEN Absent
       ELSE IF new[f] = Absent THEN <<Shown(f, old[f], p), Null>>
       ELSE IF f \in p.redact THEN <<Redacted, Redacted>>
       ELSE IF old[f] = Absent THEN <<Null, new[f]>>
       ELSE IF old[f] = new[f] THEN Absent
       ELSE <<old[f], new[f]>>]

(* Mutant of Operand: the operand is recorded without its operator. *)
OperandAlone(u) == IF u[1] = "$unset" THEN Null ELSE u[2]

(* The value a change records for an operator: $unset nil, $set its        *)
(* operand, any other the operator with its operand.                       *)
Operand(u) == IF u[1] = "$unset" THEN Null ELSE IF u[1] = "$set" THEN u[2] ELSE u

ExtractUpdateChanges(update, p) ==
    [f \in Field |->
       IF update[f] = Absent \/ ~Visible(f, p) THEN Absent
       ELSE IF f \in p.redact THEN <<Redacted, Redacted>>
       ELSE <<Null, Operand(update[f])>>]

Compute(r) ==
    CASE r.mode = "create"    -> CreateChanges(r.after, r.policy)
      [] r.mode = "operators" -> ExtractUpdateChanges(r.update, r.policy)
      [] r.mode = "replace"   -> DiffDocs(r.before, r.after, r.policy)
      [] r.mode = "delete"    -> DeleteChanges(r.before, r.policy)

Changed(changes) == {f \in Field : changes[f] # Absent}

-----------------------------------------------------------------------------
(* Limits and the deferred handler *)

(* Mutant of TooComplex: the old document is not measured. *)
TooComplexAfter(r) == \E f \in Field : r.after[f] \in Huge

(* requestComplexity: the update document is not measured. *)
TooComplex(r) == \E f \in Field : r.before[f] \in Huge \/ r.after[f] \in Huge

(* Mutant of SanitizeDocument: redacted fields are dropped, not masked. *)
SanitizeByDropping(doc, p) ==
    [f \in Field |-> IF f \in p.redact \/ ~Visible(f, p) THEN Absent ELSE doc[f]]

SanitizeDocument(doc, p) ==
    [f \in Field |-> IF doc[f] = Absent \/ ~Visible(f, p) THEN Absent
                     ELSE Shown(f, doc[f], p)]

(* Mutant of SanitizeUpdate: the operator is masked with its operand. *)
SanitizeOperator(update, p) ==
    [f \in Field |-> IF update[f] = Absent \/ ~Visible(f, p) THEN Absent
                     ELSE Shown(f, update[f], p)]

SanitizeUpdate(update, p) ==
    [f \in Field |-> IF update[f] = Absent \/ ~Visible(f, p) THEN Absent
                     ELSE <<update[f][1], Shown(f, update[f][2], p)>>]

SanitizeDeferredRequest(r) ==
    [r EXCEPT !.before = SanitizeDocument(@, r.policy),
              !.after  = SanitizeDocument(@, r.policy),
              !.update = SanitizeUpdate(@, r.policy)]
=============================================================================
