--------------------------- MODULE MongoDiffProofs ---------------------------
(***************************************************************************)
(* What computeChanges records, defers and discloses, for every set of     *)
(* fields, values, policies and mutations.                                 *)
(***************************************************************************)
EXTENDS MongoDiff, FiniteSetTheorems, TLAPS

(* The merged policy is a policy. *)
LEMMA PolicyTyped ==
    ASSUME NEW c \in Call
    PROVE  FieldPolicy(c.config, AuditTagsFromStruct(c.example),
                       AuditTagsFromStruct(c.struct)) \in Policy
BY DEF Call, FieldPolicy, AuditTagsFromStruct, Tagged, Policy

(* The request of a call is a request, ... *)
LEMMA RequestTyped ==
    ASSUME NEW c \in Call
    PROVE  BuildRequest(c) \in Request
<1>1. ToMap(c.after, c.map) \in MaskedDocument
  BY DecodedAssumption DEF Call, Document, MaskedDocument, ToMap, Stored
<1>2. c.before \in MaskedDocument
  BY DEF Call, Document, MaskedDocument
<1> QED
  BY <1>1, <1>2, PolicyTyped DEF BuildRequest, Request, Call

(* ... and stays one when sanitized. *)
LEMMA SanitizedTyped ==
    ASSUME NEW r \in Request
    PROVE  SanitizeDeferredRequest(r) \in Request
<1>1. \A doc \in MaskedDocument : SanitizeDocument(doc, r.policy) \in MaskedDocument
  BY DEF MaskedDocument, SanitizeDocument, Shown
<1>2. \A u \in Update : SanitizeUpdate(u, r.policy) \in Update
  BY DEF Update, SanitizeUpdate, Shown
<1> QED
  BY <1>1, <1>2 DEF Request, SanitizeDeferredRequest

-----------------------------------------------------------------------------
(* The four computers on sanitized documents. *)

(* Sanitizing does not change what is computed of an insert, ... *)
LEMMA SanitizedCreate ==
    ASSUME NEW doc \in MaskedDocument, NEW p \in Policy
    PROVE  CreateChanges(SanitizeDocument(doc, p), p) = CreateChanges(doc, p)
BY ValueAssumption DEF CreateChanges, SanitizeDocument, Shown, Audited, MaskedDocument

(* ... of a deletion, ... *)
LEMMA SanitizedDelete ==
    ASSUME NEW doc \in MaskedDocument, NEW p \in Policy
    PROVE  DeleteChanges(SanitizeDocument(doc, p), p) = DeleteChanges(doc, p)
BY ValueAssumption DEF DeleteChanges, SanitizeDocument, Shown, Audited, MaskedDocument

(* ... of a replacement ... *)
LEMMA SanitizedReplace ==
    ASSUME NEW old \in MaskedDocument, NEW new \in MaskedDocument, NEW p \in Policy
    PROVE  DiffDocs(SanitizeDocument(old, p), SanitizeDocument(new, p), p)
             = DiffDocs(old, new, p)
BY ValueAssumption DEF DiffDocs, SanitizeDocument, Shown, Audited, MaskedDocument

(* ... or of an update. *)
LEMMA SanitizedUpdate ==
    ASSUME NEW u \in Update, NEW p \in Policy
    PROVE  ExtractUpdateChanges(SanitizeUpdate(u, p), p) = ExtractUpdateChanges(u, p)
<1> SUFFICES ASSUME NEW f \in Field
             PROVE  ExtractUpdateChanges(SanitizeUpdate(u, p), p)[f]
                      = ExtractUpdateChanges(u, p)[f]
  BY DEF ExtractUpdateChanges
<1>1. CASE u[f] = Absent \/ ~Visible(f, p)
  BY <1>1 DEF ExtractUpdateChanges, SanitizeUpdate
<1>2. CASE u[f] # Absent /\ Visible(f, p)
  <2>1. u[f] \in Operator \X (Value \cup {Redacted})
    BY <1>2 DEF Update
  <2>2. SanitizeUpdate(u, p)[f] = <<u[f][1], Shown(f, u[f][2], p)>>
    BY <1>2 DEF SanitizeUpdate
  <2>3. SanitizeUpdate(u, p)[f] # Absent
    BY <2>1, <2>2, AbsentAssumption DEF Shown, Operator
  <2>4. CASE f \in p.redact
    BY <1>2, <2>3, <2>4 DEF ExtractUpdateChanges
  <2>5. CASE f \notin p.redact
    <3>1. SanitizeUpdate(u, p)[f] = u[f]
      BY <2>1, <2>2, <2>5 DEF Shown
    <3> QED BY <3>1, <2>5 DEF ExtractUpdateChanges
  <2> QED BY <2>4, <2>5
<1> QED BY <1>1, <1>2

(* The deferred handler's worker computes what the wrapper would have      *)
(* recorded: sanitizing a request changes no computer's result.            *)
THEOREM SanitizingKeepsChanges ==
    ASSUME NEW r \in Request
    PROVE  Compute(SanitizeDeferredRequest(r)) = Compute(r)
<1> DEFINE s == SanitizeDeferredRequest(r)
<1>1. /\ s.mode = r.mode /\ s.policy = r.policy
      /\ s.before = SanitizeDocument(r.before, r.policy)
      /\ s.after = SanitizeDocument(r.after, r.policy)
      /\ s.update = SanitizeUpdate(r.update, r.policy)
  BY DEF SanitizeDeferredRequest, Request
<1>2. /\ r.mode \in Mode /\ r.policy \in Policy /\ r.update \in Update
      /\ r.before \in MaskedDocument /\ r.after \in MaskedDocument
  BY DEF Request
<1> HIDE DEF s
<1>3. Compute(s) = Compute(r)
  <2>1. CASE r.mode = "create"
    BY <1>1, <1>2, <2>1, SanitizedCreate DEF Compute
  <2>2. CASE r.mode = "operators"
    BY <1>1, <1>2, <2>2, SanitizedUpdate DEF Compute
  <2>3. CASE r.mode = "replace"
    BY <1>1, <1>2, <2>3, SanitizedReplace DEF Compute
  <2>4. CASE r.mode = "delete"
    BY <1>1, <1>2, <2>4, SanitizedDelete DEF Compute
  <2> QED BY <1>2, <2>1, <2>2, <2>3, <2>4 DEF Mode
<1> QED BY <1>3 DEF s

-----------------------------------------------------------------------------
(* What the policy of the mutation hides. *)
LEMMA MaskedIsRedacted ==
    ASSUME call \in Calls, NEW f \in Field, Masked(f)
    PROVE  f \in BuildRequest(call).policy.redact
BY CallsAssumption
   DEF Masked, BuildRequest, FieldPolicy, AuditTagsFromStruct, Tagged, Call

(* A field that is left out is not visible, or it is redacted by the tags  *)
(* of its document's own type.                                             *)
LEMMA LeftOutIsHidden ==
    ASSUME call \in Calls, NEW f \in Field, LeftOut(f)
    PROVE  LET p == BuildRequest(call).policy IN ~Visible(f, p) \/ f \in p.redact
<1> DEFINE p == BuildRequest(call).policy
<1>1. call \in Call
  BY CallsAssumption
<1>2. CASE f \in call.config.skip \/ call.example[f] = "-"
  BY <1>1, <1>2 DEF BuildRequest, FieldPolicy, AuditTagsFromStruct, Tagged, Call, Visible
<1>3. CASE (\E g \in Field : call.example[g] = "only") /\ call.example[f] # "only"
  <2>1. /\ Tagged(call.example, "only") # {}
        /\ f \notin Tagged(call.example, "only")
        /\ Tagged(call.example, "only") \in SUBSET Field
    BY <1>3 DEF Tagged
  <2>2. p.only = Tagged(call.example, "only")
    BY <2>1, WhitelistAssumption, AbsentAssumption
       DEF BuildRequest, FieldPolicy, AuditTagsFromStruct
  <2>3. p.only # NoWhitelist
    BY <2>1, <2>2, AbsentAssumption
  <2> QED BY <2>1, <2>2, <2>3 DEF Visible, IncludedField
<1> QED BY <1>2, <1>3 DEF LeftOut

(* No computer shows a value of a field that the policy hides, ... *)
LEMMA HiddenIsNotComputed ==
    ASSUME NEW r \in Request, NEW f \in Field \ {IdField},
           ~Visible(f, r.policy) \/ f \in r.policy.redact,
           Compute(r)[f] # Absent, NEW i \in 1..2
    PROVE  Compute(r)[f][i] \in {Redacted, Null}
<1>1. CASE r.mode = "create"
  BY <1>1 DEF Compute, CreateChanges, Audited, Shown
<1>2. CASE r.mode = "operators"
  BY <1>2 DEF Compute, ExtractUpdateChanges
<1>3. CASE r.mode = "replace"
  BY <1>3 DEF Compute, DiffDocs, Audited, Shown
<1>4. CASE r.mode = "delete"
  BY <1>4 DEF Compute, DeleteChanges, Audited, Shown
<1> QED BY <1>1, <1>2, <1>3, <1>4 DEF Request, Mode

(* ... and none is left in a sanitized request. *)
LEMMA HiddenIsSanitized ==
    ASSUME NEW r \in Request, NEW f \in Field,
           ~Visible(f, r.policy) \/ f \in r.policy.redact
    PROVE  LET s == SanitizeDeferredRequest(r)
           IN /\ s.before[f] \in {Absent, Redacted}
              /\ s.after[f] \in {Absent, Redacted}
              /\ s.update[f] # Absent => s.update[f][2] = Redacted
BY DEF SanitizeDeferredRequest, SanitizeDocument, SanitizeUpdate, Shown, Request,
       MaskedDocument, Update

-----------------------------------------------------------------------------
(* The outcomes, field by field. *)
LEMMA OutcomeFields ==
    /\ Pending.kind = "pending" /\ Pending.status = "" /\ Pending.changes = NoDocument
    /\ Skipped.kind = "skip" /\ Skipped.status = "" /\ Skipped.changes = NoDocument
    /\ Failed.kind = "error" /\ Failed.status = "" /\ Failed.changes = NoDocument
    /\ Deferred.kind = "audit" /\ Deferred.status = "deferred"
    /\ Deferred.changes = NoDocument
    /\ \A x : /\ Inline(x).kind = "audit" /\ Inline(x).status = "inline"
              /\ Inline(x).changes = x
BY DEF Pending, Skipped, Failed, Deferred, Inline

(* An update that gets no audit. *)
ReportsNothing == req.mode \in {"operators", "replace"} /\ Changed(Compute(req)) = {}

(* The inductive invariant: the phases of computeChanges only ever hand on *)
(* what the computers and the sanitizer make of the one request.           *)
Consistent ==
    /\ call \in Calls
    /\ req = BuildRequest(call)
    /\ phase \in {"gate", "check", "compute", "defer", "done"}
    /\ phase = "compute" => ~TooComplex(req)
    /\ handed \in {Absent, SanitizeDeferredRequest(req)}
    /\ \/ outcome \in {Pending, Failed}
       \/ outcome = Skipped /\ (AllowsOp => ReportsNothing)
       \/ outcome = Deferred /\ handed = SanitizeDeferredRequest(req)
       \/ /\ outcome = Inline(Compute(req))
          /\ ~TooComplex(req)
          /\ Cardinality(Changed(Compute(req))) <= MaxChangedFields

(* The invariant holds at first, ... *)
LEMMA ConsistentInitially == Init => Consistent
BY DEF Init, Consistent

(* ... every step keeps it, ... *)
LEMMA ConsistentNext == Consistent /\ [Next]_vars => Consistent'
<1> SUFFICES ASSUME Consistent, [Next]_vars PROVE Consistent'
  OBVIOUS
<1> USE DEF Consistent
<1>1. CASE Gate
  BY <1>1 DEF Gate, AllowsOp, ReportsNothing, TooComplex
<1>2. CASE Check
  BY <1>2 DEF Check, AllowsOp, ReportsNothing, TooComplex
<1>3. CASE ComputeInline
  <2> DEFINE n == Cardinality(Changed(Compute(req)))
  <2>1. n \in Nat
    <3>1. IsFiniteSet(Changed(Compute(req)))
      BY FieldAssumption, FS_Subset DEF Changed
    <3> QED BY <3>1, FS_CardinalityType
  <2>2. CASE n > MaxChangedFields
    BY <1>3, <2>2 DEF ComputeInline, AllowsOp, ReportsNothing, TooComplex
  <2>3. CASE ~(n > MaxChangedFields)
    <3>1. n <= MaxChangedFields
      BY <2>1, <2>3, LimitAssumption
    <3> HIDE DEF n
    <3>2. \/ outcome' = Skipped /\ ReportsNothing
          \/ outcome' = Inline(Compute(req))
      BY <1>3, <2>3 DEF ComputeInline, ReportsNothing, n
    <3>3. UNCHANGED <<call, req, handed>> /\ phase' = "done" /\ ~TooComplex(req)
      BY <1>3, <2>3 DEF ComputeInline, n
    <3> QED BY <3>1, <3>2, <3>3 DEF ReportsNothing, AllowsOp, TooComplex, n
  <2> QED BY <2>2, <2>3
<1>4. CASE ComputeTimeout
  BY <1>4 DEF ComputeTimeout, AllowsOp, ReportsNothing, TooComplex
<1>5. CASE DeferChanges
  BY <1>5 DEF DeferChanges, AllowsOp, ReportsNothing, TooComplex
<1>6. CASE UNCHANGED vars
  BY <1>6 DEF vars, AllowsOp, ReportsNothing, TooComplex
<1> QED BY <1>1, <1>2, <1>3, <1>4, <1>5, <1>6 DEF Next

(* ... and it holds in every reachable state. *)
LEMMA AlwaysConsistent == Spec => []Consistent
BY ConsistentInitially, ConsistentNext, PTL DEF Spec

-----------------------------------------------------------------------------
(* The properties of the runs, for every instance. *)

(* computeChanges only makes, hands on and records well-formed values. *)
THEOREM DiffTypeCorrect == Spec => []TypeOK
<1>1. Consistent => TypeOK
  <2> SUFFICES ASSUME Consistent PROVE TypeOK
    OBVIOUS
  <2>1. call \in Call /\ req \in Request
    BY CallsAssumption, RequestTyped DEF Consistent
  <2>2. handed = Absent \/ handed \in Request
    BY <2>1, SanitizedTyped DEF Consistent
  <2>3. outcome.kind \in {"pending", "audit", "skip", "error"}
    BY OutcomeFields DEF Consistent
  <2> QED BY <2>1, <2>2, <2>3 DEF Consistent, TypeOK
<1> QED BY <1>1, AlwaysConsistent, PTL

(* A worker that computes a deferred request gets what the wrapper would   *)
(* have recorded inline.                                                   *)
THEOREM DeferredIsInline == Spec => []DeferredEqualsInline
<1>1. Consistent => DeferredEqualsInline
  <2> SUFFICES ASSUME Consistent, handed # Absent PROVE Compute(handed) = Compute(req)
    BY DEF DeferredEqualsInline
  <2>1. req \in Request
    BY CallsAssumption, RequestTyped DEF Consistent
  <2> QED BY <2>1, SanitizingKeepsChanges DEF Consistent
<1> QED BY <1>1, AlwaysConsistent, PTL

(* Neither an audit nor the deferred handler is given the value of a       *)
(* masked or left out field, by any computer, under any merged policy.     *)
THEOREM NothingProtectedLeaves == Spec => []ProtectedFieldsStayInside
<1>1. Consistent => ProtectedFieldsStayInside
  <2> SUFFICES ASSUME Consistent, NEW f \in Field \ {IdField}, Masked(f) \/ LeftOut(f)
               PROVE  /\ outcome.changes[f] # Absent =>
                           \A i \in 1..2 : ~Discloses(outcome.changes[f][i])
                      /\ handed # Absent =>
                           /\ ~Discloses(handed.before[f]) /\ ~Discloses(handed.after[f])
                           /\ handed.update[f] # Absent => ~Discloses(handed.update[f][2])
    BY DEF ProtectedFieldsStayInside
  <2>1. call \in Calls /\ req = BuildRequest(call) /\ req \in Request
    BY CallsAssumption, RequestTyped DEF Consistent
  <2>2. ~Visible(f, req.policy) \/ f \in req.policy.redact
    BY <2>1, MaskedIsRedacted, LeftOutIsHidden DEF LeftOut
  <2>3. ASSUME outcome.changes[f] # Absent, NEW i \in 1..2
        PROVE  ~Discloses(outcome.changes[f][i])
    <3>1. outcome = Inline(Compute(req))
      <4>1. NoDocument[f] = Absent
        BY DEF NoDocument
      <4>2. outcome \in {Pending, Skipped, Failed, Deferred} => outcome.changes = NoDocument
        BY OutcomeFields
      <4>3. outcome \notin {Pending, Skipped, Failed, Deferred}
        BY <2>3, <4>1, <4>2
      <4> QED BY <4>3 DEF Consistent
    <3>2. Compute(req)[f][i] \in {Redacted, Null}
      BY <2>1, <2>2, <2>3, <3>1, HiddenIsNotComputed DEF Inline
    <3> QED BY <3>1, <3>2 DEF Inline, Discloses
  <2>4. ASSUME handed # Absent
        PROVE  /\ ~Discloses(handed.before[f]) /\ ~Discloses(handed.after[f])
               /\ handed.update[f] # Absent => ~Discloses(handed.update[f][2])
    BY <2>1, <2>2, <2>4, HiddenIsSanitized DEF Consistent, Discloses
  <2> QED BY <2>3, <2>4
<1> QED BY <1>1, AlwaysConsistent, PTL

(* No inline audit is over DiffLimits, and none is deferred without its    *)
(* request having been handed over.                                        *)
THEOREM LimitsKept == Spec => []WithinLimits
<1>1. Consistent => WithinLimits
  <2> SUFFICES ASSUME Consistent PROVE WithinLimits
    OBVIOUS
  <2>1. CASE outcome \in {Pending, Skipped, Failed}
    BY <2>1, OutcomeFields DEF WithinLimits
  <2>2. CASE outcome = Deferred /\ handed = SanitizeDeferredRequest(req)
    BY <2>2, OutcomeFields DEF WithinLimits
  <2>3. CASE /\ outcome = Inline(Compute(req))
             /\ ~TooComplex(req)
             /\ Cardinality(Changed(Compute(req))) <= MaxChangedFields
    <3>1. outcome.status = "inline" /\ outcome.changes = Compute(req)
      BY <2>3, OutcomeFields
    <3> QED BY <2>3, <3>1 DEF WithinLimits, TooComplex
  <2> QED BY <2>1, <2>2, <2>3 DEF Consistent
<1> QED BY <1>1, AlwaysConsistent, PTL

-----------------------------------------------------------------------------
(* Completeness *)

(* A document has no type of its own, or that of the example; only a type  *)
(* with stricter tags could hide more than the example announces.          *)
StructOfExample ==
    \A c \in Calls : \A f \in Field :
      c.struct[f] \in {"-", "redact"} => c.struct[f] = c.example[f]

(* What was read before the mutation is what the server gives back. *)
ReadBack ==
    \A c \in Calls : \A f \in Field :
      c.before[f] # Absent => Decoded[c.before[f]] = c.before[f]

(* The policy hides no field but those the configuration and the example   *)
(* leave out or mask.                                                      *)
LEMMA NotLeftOutIsVisible ==
    ASSUME call \in Calls, StructOfExample, NEW f \in Field \ {IdField}, ~LeftOut(f)
    PROVE  LET p == BuildRequest(call).policy
           IN Audited(f, p) /\ (f \in p.redact => Masked(f))
<1> DEFINE p == BuildRequest(call).policy
           S == AuditTagsFromStruct(call.struct)
           E == AuditTagsFromStruct(call.example)
<1>1. call \in Call
  BY CallsAssumption
<1>2. /\ p.skip = call.config.skip \cup Tagged(call.example, "-") \cup Tagged(call.struct, "-")
      /\ p.redact = call.config.redact \cup Tagged(call.example, "redact")
                                      \cup Tagged(call.struct, "redact")
      /\ p.only = IF S.only # NoWhitelist THEN S.only ELSE E.only
  BY DEF BuildRequest, FieldPolicy, AuditTagsFromStruct
<1>3. f \notin p.skip /\ (f \in p.redact => Masked(f))
  BY <1>2 DEF StructOfExample, Tagged, LeftOut, Masked
<1>4. Masked(f) => f \in p.redact
  BY <1>2 DEF Masked, Tagged
<1>5. p.only # NoWhitelist => p.only = Tagged(call.example, "only")
                              /\ Tagged(call.example, "only") # {}
  BY <1>2, WhitelistAssumption DEF AuditTagsFromStruct
<1>6. (\E g \in Field : call.example[g] = "only") => call.example[f] = "only" \/ Masked(f)
  BY DEF LeftOut
<1>7. IncludedField(f, p)
  BY <1>4, <1>5, <1>6 DEF IncludedField, Tagged
<1> QED
  BY <1>3, <1>7 DEF Audited, Visible

(* Pairs are told from the absence of a change. *)
LEMMA PairsArePresent ==
    \A x, y \in Value \cup {Redacted} : <<x, y>> # Absent
BY AbsentAssumption

(* The documents of a request, field by field. *)
LEMMA RequestFields ==
    ASSUME call \in Calls, ReadBack, req = BuildRequest(call), NEW f \in Field
    PROVE  /\ req.mode = call.mode /\ req.update = call.update
           /\ req.policy = BuildRequest(call).policy
           /\ req.before[f] = call.before[f]
           /\ call.before[f] \in Value \cup {Absent}
           /\ call.before[f] # Absent => Decoded[call.before[f]] = call.before[f]
           /\ call.after[f] \in Value \cup {Absent}
           /\ req.after[f] = IF call.map THEN call.after[f] ELSE Stored(call.after)[f]
           /\ Stored(call.after)[f] = IF call.after[f] = Absent THEN Absent
                                      ELSE Decoded[call.after[f]]
           /\ Stored(req.after)[f] = IF req.after[f] = Absent THEN Absent
                                     ELSE Decoded[req.after[f]]
<1>1. call \in Call
  BY CallsAssumption
<1>2. /\ req.mode = call.mode /\ req.update = call.update /\ req.before = call.before
      /\ req.after = ToMap(call.after, call.map)
  BY DEF BuildRequest
<1>3. call.before \in Document /\ call.after \in Document /\ call.map \in BOOLEAN
  BY <1>1 DEF Call
<1> QED
  BY <1>2, <1>3 DEF ReadBack, ToMap, Stored, Document

(* The inline audit of a replacement turns the old document into the new   *)
(* one on every field it may show, when the document's own type hides no   *)
(* more than the example.                                                  *)
THEOREM ReplacementsReplay ==
    ASSUME StructOfExample, ReadBack
    PROVE  Spec => []ReplacementReplays
<1>1. Consistent => ReplacementReplays
  <2> SUFFICES ASSUME Consistent, req.mode = "replace", outcome.status = "inline",
                      NEW f \in Field \ {IdField}, ~Masked(f), ~LeftOut(f)
               PROVE  LET old == call.before[f]
                          new == Stored(call.after)[f]
                          change == outcome.changes[f]
                      IN IF change = Absent THEN old = new
                         ELSE /\ call.map \/ old # new
                              /\ change[1] = IF old = Absent THEN Null ELSE old
                              /\ Decoded[change[2]] = IF new = Absent THEN Null ELSE new
    BY DEF ReplacementReplays
  <2> DEFINE old == call.before[f]
             new == Stored(call.after)[f]
             given == req.after[f]
             change == outcome.changes[f]
  <2>1. outcome.changes = Compute(req)
    BY OutcomeFields DEF Consistent
  <2>2. Audited(f, req.policy) /\ f \notin req.policy.redact
    BY NotLeftOutIsVisible DEF Consistent
  <2>3. change = IF old = Absent /\ given = Absent THEN Absent
                 ELSE IF given = Absent THEN <<old, Null>>
                 ELSE IF old = Absent THEN <<Null, given>>
                 ELSE IF old = given THEN Absent ELSE <<old, given>>
    <3>1. change = DiffDocs(req.before, req.after, req.policy)[f]
      BY <2>1 DEF Compute
    <3>2. req.before[f] = old
      BY RequestFields DEF Consistent
    <3> QED BY <2>2, <3>1, <3>2 DEF DiffDocs, Shown
  <2>4. /\ old \in Value \cup {Absent} /\ (old # Absent => Decoded[old] = old)
        /\ given = Absent <=> new = Absent
        /\ given # Absent => given \in Value /\ new \in Value /\ Decoded[given] = new
        /\ ~call.map => given = new
    <3>1. /\ call.after[f] \in Value \cup {Absent}
          /\ given = IF call.map THEN call.after[f] ELSE new
          /\ new = IF call.after[f] = Absent THEN Absent ELSE Decoded[call.after[f]]
      BY RequestFields DEF Consistent
    <3>2. call.after[f] # Absent =>
            /\ Decoded[call.after[f]] \in Value
            /\ Decoded[Decoded[call.after[f]]] = Decoded[call.after[f]]
      BY <3>1, DecodedAssumption
    <3>3. old \in Value \cup {Absent} /\ (old # Absent => Decoded[old] = old)
      BY RequestFields DEF Consistent
    <3> HIDE DEF old, new, given
    <3> QED BY <3>1, <3>2, <3>3, ValueAssumption
  <2> HIDE DEF old, new, given, change
  <2>5. CASE given = Absent
    BY <2>3, <2>4, <2>5, PairsArePresent, ValueAssumption, DecodedAssumption DEF old, new, change
  <2>6. CASE given # Absent /\ old = Absent
    BY <2>3, <2>4, <2>6, PairsArePresent, ValueAssumption, DecodedAssumption DEF old, new, change
  <2>7. CASE given # Absent /\ old # Absent /\ old = given
    BY <2>3, <2>4, <2>7, ValueAssumption DEF old, new, change
  <2>8. CASE given # Absent /\ old # Absent /\ old # given
    BY <2>3, <2>4, <2>8, PairsArePresent, ValueAssumption DEF old, new, change
  <2> QED BY <2>5, <2>6, <2>7, <2>8
<1> QED BY <1>1, AlwaysConsistent, PTL

(* A mutation without an audit is of an operation the example leaves out,  *)
(* or changes nothing but what is left out.                                *)
THEOREM SkippedIsHarmless ==
    ASSUME StructOfExample, ReadBack
    PROVE  Spec => []SkippedTouchesNothing
<1>1. Consistent => SkippedTouchesNothing
  <2> SUFFICES ASSUME Consistent, outcome.kind = "skip"
               PROVE  \/ /\ (UNION call.embeds) \cap {"create", "update", "delete"} # {}
                         /\ ActionOf(call.mode) \notin UNION call.embeds
                      \/ /\ call.mode \in {"operators", "replace"}
                         /\ \A f \in Field \ {IdField} : ~LeftOut(f) =>
                              IF req.mode = "operators" THEN req.update[f] = Absent
                              ELSE req.before[f] = Stored(req.after)[f]
    BY DEF SkippedTouchesNothing
  <2>1. /\ call \in Calls /\ req = BuildRequest(call)
        /\ AllowsOp => ReportsNothing
    BY OutcomeFields DEF Consistent
  <2>2. call.mode \in Mode /\ req.mode = call.mode /\ req.update \in Update
    BY <2>1, CallsAssumption DEF Call, BuildRequest
  <2>3. CASE ~AllowsOp
    <3>1. ActionOf(call.mode) \in Action
      BY <2>2 DEF ActionOf, Action, Mode
    <3> QED BY <2>3, <3>1 DEF AllowsOp, OpsOf, Action
  <2>4. CASE ReportsNothing
    <3>1. ASSUME NEW f \in Field \ {IdField}, ~LeftOut(f), req.mode = "operators"
          PROVE  req.update[f] = Absent
      <4> SUFFICES ASSUME req.update[f] # Absent PROVE FALSE
        OBVIOUS
      <4>1. Visible(f, req.policy)
        BY <2>1, <3>1, NotLeftOutIsVisible DEF Audited
      <4>2. Compute(req)[f] = IF f \in req.policy.redact THEN <<Redacted, Redacted>>
                              ELSE <<Null, Operand(req.update[f])>>
        BY <3>1, <4>1 DEF Compute, ExtractUpdateChanges
      <4>3. PICK op \in Operator, v \in Value \cup {Redacted} : req.update[f] = <<op, v>>
        BY <2>2 DEF Update
      <4>4. Operand(req.update[f]) \in Value \cup {Redacted, <<op, v>>}
        BY <4>3, ValueAssumption DEF Operand
      <4>5. Compute(req)[f] # Absent
        BY <4>2, <4>3, <4>4, PairsArePresent, OperandAssumption, ValueAssumption
      <4> QED BY <2>4, <4>5 DEF ReportsNothing, Changed
    <3>2. ASSUME NEW f \in Field \ {IdField}, ~LeftOut(f), req.mode = "replace"
          PROVE  req.before[f] = Stored(req.after)[f]
      <4> DEFINE old == req.before[f]
                 given == req.after[f]
      <4>1. Audited(f, req.policy)
        BY <2>1, <3>2, NotLeftOutIsVisible
      <4>2. DiffDocs(req.before, req.after, req.policy)[f] = Absent
        BY <2>4, <3>2 DEF ReportsNothing, Changed, Compute
      <4>3. /\ old \in Value \cup {Absent} /\ (old # Absent => Decoded[old] = old)
            /\ given \in Value \cup {Absent}
            /\ Stored(req.after)[f] = IF given = Absent THEN Absent ELSE Decoded[given]
        <5>1. \A x \in Value : Decoded[x] \in Value
          BY DecodedAssumption
        <5> QED BY <2>1, <5>1, RequestFields
      <4>4. (old = Absent /\ given = Absent) \/ old = given
        BY <4>1, <4>2, <4>3, PairsArePresent, ValueAssumption DEF DiffDocs, Shown
      <4> QED BY <4>3, <4>4
    <3> QED BY <2>2, <2>4, <3>1, <3>2 DEF ReportsNothing
  <2> QED BY <2>1, <2>3, <2>4
<1> QED BY <1>1, AlwaysConsistent, PTL
=============================================================================
