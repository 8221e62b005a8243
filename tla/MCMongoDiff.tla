----------------------------- MODULE MCMongoDiff -----------------------------
(***************************************************************************)
(* All documents and operator updates over two fields besides _id, under   *)
(* representative policies.                                                *)
(***************************************************************************)
EXTENDS MongoDiff, TLC

CONSTANTS id, f, g, a, n, h, null, absent, redacted, all

MCField == {id, f, g}
MCValue == {a, n, h, null}
MCDecoded == (a :> a) @@ (n :> a) @@ (h :> h) @@ (null :> null)
MCHuge == {h}

Documents == {(id :> a) @@ (f :> x) @@ (g :> y) :
                x \in {a, h, null, absent}, y \in {a, h, absent}}
Operators == Operator \X {a, null}
Updates == {(id :> absent) @@ (f :> x) @@ (g :> y) : x, y \in Operators \cup {absent}}
NoUpdate == [x \in MCField |-> absent]

Tags(x, y) == (id :> "") @@ (f :> x) @@ (g :> y)
Untagged == Tags("", "")
TagSets == {Untagged, Tags("-", ""), Tags("redact", ""), Tags("", "only"),
            Tags("redact", "only"), Tags("redact", "-")}
Configs == {[skip |-> {}, redact |-> {}], [skip |-> {g}, redact |-> {}],
            [skip |-> {}, redact |-> {g}]}

(* The document has no struct type, or the one of the example. *)
Shape(mode, before, after, update) ==
    UNION {{[mode |-> mode, before |-> before, after |-> after, update |-> update,
             config |-> config, example |-> example, struct |-> struct,
             embeds |-> {}, map |-> FALSE] :
               struct \in {Untagged, example}} :
           config \in Configs, example \in TagSets}

(* A bson.M whose field holds n, which the driver would decode to a. *)
GoDocuments == {(id :> x) @@ (f :> n) @@ (g :> y) : x, y \in {a, absent}}
MapCalls ==
    {[c EXCEPT !.map = TRUE, !.struct = Untagged] :
       c \in UNION ({Shape("create", NoDocument, d, NoUpdate) : d \in GoDocuments}
                \cup {Shape("replace", d, e, NoUpdate) : d \in Documents, e \in GoDocuments})}

(* Tags of embedded structs: none, one operation, two structs, a field tag. *)
Embeds == {{}, {{"create"}}, {{"update"}, {"delete"}}, {{"redact"}, {"create", "update"}},
           {{"only"}}}
OneOf(mode, before, after, update) ==
    {[c EXCEPT !.embeds = e] : e \in Embeds, c \in Shape(mode, before, after, update)}
Full == (id :> a) @@ (f :> a) @@ (g :> a)
EmbedCalls ==
    OneOf("create", NoDocument, Full, NoUpdate) \cup OneOf("delete", Full, NoDocument, NoUpdate)
    \cup OneOf("replace", Full, [Full EXCEPT ![f] = null], NoUpdate)
    \cup OneOf("operators", NoDocument, NoDocument, [NoUpdate EXCEPT ![f] = <<"$inc", a>>])

MCCalls ==
    UNION ({Shape("create", NoDocument, d, NoUpdate) : d \in Documents}
      \cup {Shape("delete", d, NoDocument, NoUpdate) : d \in Documents}
      \cup {Shape("operators", NoDocument, NoDocument, u) : u \in Updates}
      \cup {Shape("replace", d, e, NoUpdate) : d, e \in Documents})
    \cup MapCalls \cup EmbedCalls
=============================================================================
