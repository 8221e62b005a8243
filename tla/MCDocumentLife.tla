---------------------------- MODULE MCDocumentLife ----------------------------
(***************************************************************************)
(* Two documents, a pointer to a struct that embeds Model and a bson.M.    *)
(***************************************************************************)
EXTENDS DocumentLife, TLC

CONSTANTS id, name, created, deleted, a, b, n, t1, t2, d1, d2, zero, null, absent, all

MCField == {id, name, created, deleted}
MCStamps == {created}
MCTime == {t1, t2}
MCDocId == {d1, d2}
MCValue == {a, b, n, zero, null} \cup MCTime \cup MCDocId
MCDecoded == [v \in MCValue |-> IF v = n THEN a ELSE v]
None == {}

Doc(i, x, c, d) == (id :> i) @@ (name :> x) @@ (created :> c) @@ (deleted :> d)
MCObjects ==
    ("pointer" :> [kind |-> "pointer", doc |-> Doc(absent, a, zero, absent)]) @@
    ("map"     :> [kind |-> "map", doc |-> Doc(absent, n, absent, absent)])
MCAssignments ==
    {<<"pointer", name, b>>, <<"pointer", created, zero>>, <<"map", name, absent>>,
     <<"map", deleted, null>>, <<"map", id, absent>>}
MCUpdates == {(name :> <<op, n>>) @@ [f \in MCField |-> absent] : op \in {"$set", "$inc"}}
(* The operator makes b of a field with a value, and a of one without.     *)
MCOperated ==
    [old \in {MCDecoded[v] : v \in MCValue} \cup {absent} |->
       [v \in MCValue |-> IF old \in {null, absent} THEN a ELSE b]]

Policies == [skip |-> {}, redact |-> {}, only |-> all]
Plain == [config |-> Policies, example |-> Policies, struct |-> Policies]
MCSetups ==
    {Plain, [Plain EXCEPT !.struct.only = {name}], [Plain EXCEPT !.config.redact = {name}],
     [Plain EXCEPT !.example.only = {name}, !.struct.only = {deleted}]}
=============================================================================
