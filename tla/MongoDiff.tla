------------------------------ MODULE MongoDiff ------------------------------
(***************************************************************************)
(* mongodbv2: how one mutation becomes the audited_changes of an audit.    *)
(* allowsOp lets it through; computeChanges checks the size of the         *)
(* request, runs the change computer under a timeout and falls back on the *)
(* deferred handler.                                                       *)
(***************************************************************************)
EXTENDS ChangeComputers

CONSTANTS
    MaxChangedFields,   \* DiffLimits.MaxChangedFields
    Calls               \* the mutations explored

ASSUME LimitAssumption == MaxChangedFields \in Nat

(* A mutation: the document read before it, the one it writes (a bson.M    *)
(* when map, as the caller built it) or its operators, and the three       *)
(* sources of its policy, the configuration, the tags of the example       *)
(* CollectionFor was given and those of the document's struct type.        *)
(* embeds are the tags of the structs embedded in the example.             *)
Call == [mode : Mode, before : Document, after : Document, update : Update,
         config : [skip : SUBSET Field, redact : SUBSET Field],
         example : [Field -> Tag], struct : [Field -> Tag],
         embeds : SUBSET SUBSET (Tag \cup Action), map : BOOLEAN]

ASSUME CallsAssumption == Calls \subseteq Call
ASSUME OperandAssumption ==
    \A op \in Operator, v \in Value \cup {Redacted} : <<Null, <<op, v>>>> # Absent
(* A document is of the type of the example, or of one with no whitelist   *)
(* of its own, which would replace that of the example.                    *)
ASSUME WhitelistAssumption ==
    \A c \in Calls :
      Tagged(c.struct, "only") = {} \/ Tagged(c.struct, "only") = Tagged(c.example, "only")

-----------------------------------------------------------------------------
(* computeChanges and the early return of writeAudit, step by step *)

VARIABLES
    call,       \* the mutation
    req,        \* the request made of it
    phase,      \* the next step
    handed,     \* what the deferred handler was given, Absent before
    outcome     \* audit, skip or error, and the changes and status to record

vars == <<call, req, phase, handed, outcome>>

Pending == [kind |-> "pending", status |-> "", changes |-> NoDocument]
Inline(changes) == [kind |-> "audit", status |-> "inline", changes |-> changes]
Deferred == [kind |-> "audit", status |-> "deferred", changes |-> NoDocument]
Skipped == [kind |-> "skip", status |-> "", changes |-> NoDocument]
Failed == [kind |-> "error", status |-> "", changes |-> NoDocument]

BuildRequest(c) ==
    [mode |-> c.mode, before |-> c.before, after |-> ToMap(c.after, c.map),
     update |-> c.update,
     policy |-> FieldPolicy(c.config, AuditTagsFromStruct(c.example),
                            AuditTagsFromStruct(c.struct))]

Init ==
    /\ call \in Calls
    /\ req = BuildRequest(call)
    /\ phase = "gate"
    /\ handed = Absent
    /\ outcome = Pending

(* CollectionFor took the operations from the example; those of the        *)
(* document's own type are not looked at.                                  *)
AllowsOp == ActionOf(call.mode) \in OpsOf(call.embeds)

Gate ==
    /\ phase = "gate"
    /\ IF AllowsOp THEN phase' = "check" /\ UNCHANGED outcome
                   ELSE phase' = "done" /\ outcome' = Skipped
    /\ UNCHANGED <<call, req, handed>>

Check ==
    /\ phase = "check"
    /\ phase' = IF TooComplex(req) THEN "defer" ELSE "compute"
    /\ UNCHANGED <<call, req, handed, outcome>>

(* The computer answers in time.  An update without changes is not         *)
(* audited.                                                                *)
ComputeInline ==
    LET changes == Compute(req)
    IN /\ phase = "compute"
       /\ IF Cardinality(Changed(changes)) > MaxChangedFields
            THEN phase' = "defer" /\ UNCHANGED outcome
            ELSE /\ phase' = "done"
                 /\ outcome' = IF req.mode \in {"operators", "replace"} /\ Changed(changes) = {}
                                 THEN Skipped ELSE Inline(changes)
       /\ UNCHANGED <<call, req, handed>>

(* It exceeds ComputeTimeout. *)
ComputeTimeout ==
    /\ phase = "compute"
    /\ phase' = "defer"
    /\ UNCHANGED <<call, req, handed, outcome>>

(* deferChanges: a handler that answers with a reference, with an error or *)
(* with an empty reference, or none.                                       *)
DeferChanges ==
    /\ phase = "defer"
    /\ phase' = "done"
    /\ \/ handed' = SanitizeDeferredRequest(req) /\ outcome' \in {Deferred, Failed}
       \/ outcome' = Failed /\ UNCHANGED handed
    /\ UNCHANGED <<call, req>>

Next == Gate \/ Check \/ ComputeInline \/ ComputeTimeout \/ DeferChanges

Spec == Init /\ [][Next]_vars

-----------------------------------------------------------------------------
(* Properties *)

TypeOK ==
    /\ call \in Call
    /\ req \in Request
    /\ phase \in {"gate", "check", "compute", "defer", "done"}
    /\ handed = Absent \/ handed \in Request
    /\ outcome.kind \in {"pending", "audit", "skip", "error"}

(* What the configuration and the example of CollectionFor say of a field: *)
(* to be masked, to be left out.                                           *)
Masked(f) == f \in call.config.redact \/ call.example[f] = "redact"
LeftOut(f) ==
    \/ f \in call.config.skip \/ call.example[f] = "-"
    \/ (\E g \in Field : call.example[g] = "only") /\ call.example[f] # "only" /\ ~Masked(f)

Discloses(x) == x \notin {Absent, Redacted, Null}

(* A value of a masked or left out field reaches neither the audit nor the *)
(* deferred handler, whatever the operation and whether or not its         *)
(* document has a struct type.  _id is the audit's own key and exempt.     *)
ProtectedFieldsStayInside ==
    \A f \in Field \ {IdField} : Masked(f) \/ LeftOut(f) =>
      /\ outcome.changes[f] # Absent => \A i \in 1..2 : ~Discloses(outcome.changes[f][i])
      /\ handed # Absent =>
           /\ ~Discloses(handed.before[f]) /\ ~Discloses(handed.after[f])
           /\ handed.update[f] # Absent => ~Discloses(handed.update[f][2])

(* A worker that computes the changes of the sanitized request later gets  *)
(* what the wrapper would have recorded inline.                            *)
DeferredEqualsInline == handed # Absent => Compute(handed) = Compute(req)

(* The changes of a replacement turn the old document into the new one on  *)
(* every field they may show, and mention no field that stayed the same,   *)
(* unless a bson.M holds the same value in another Go type (collection.go: *)
(* 896 promises that identical fields are omitted in any case).            *)
ReplacementReplays ==
    req.mode = "replace" /\ outcome.status = "inline" =>
      \A f \in Field \ {IdField} : ~Masked(f) /\ ~LeftOut(f) =>
        LET old == call.before[f]
            new == Stored(call.after)[f]
            change == outcome.changes[f]
        IN IF change = Absent THEN old = new
           ELSE /\ call.map \/ old # new
                /\ change[1] = IF old = Absent THEN Null ELSE old
                /\ Decoded[change[2]] = IF new = Absent THEN Null ELSE new

(* A mutation that is not audited is of a kind the example rules out by    *)
(* naming others, or it is an update that touched left out fields only; a  *)
(* masked field alone is enough to audit.                                  *)
SkippedTouchesNothing ==
    outcome.kind = "skip" =>
      \/ /\ (UNION call.embeds) \cap {"create", "update", "delete"} # {}
         /\ ActionOf(call.mode) \notin UNION call.embeds
      \/ /\ call.mode \in {"operators", "replace"}
         /\ \A f \in Field \ {IdField} : ~LeftOut(f) =>
              IF req.mode = "operators" THEN req.update[f] = Absent
              ELSE req.before[f] = Stored(req.after)[f]

(* An inline audit is within the limits; for one without its changes the   *)
(* request, sanitized, has been handed over.                               *)
WithinLimits ==
    /\ outcome.status = "inline" =>
         /\ \A f \in Field : {req.before[f], req.after[f]} \cap Huge = {}
         /\ Cardinality(Changed(outcome.changes)) <= MaxChangedFields
    /\ outcome.status = "deferred" => handed = SanitizeDeferredRequest(req)
=============================================================================
