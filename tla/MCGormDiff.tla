------------------------------ MODULE MCGormDiff ------------------------------
(***************************************************************************)
(* Statements on a row of two fields besides the key and a timestamp.      *)
(***************************************************************************)
EXTENDS GormDiff, TLC

CONSTANTS id, f, g, t, u, zero, a, b, null, absent, redacted, MCOps

MCField == {id, f, g, t}
MCColumn == MCField \cup {u}
MCTimestamp == {t}
MCValue == {zero, a, b}

Struct(key, x, y, z) == (id :> key) @@ (f :> x) @@ (g :> y) @@ (t :> z)
Rows == {Struct(a, x, y, a) : x \in MCValue, y \in {zero, a}}
Models == Rows \cup {Struct(a, zero, zero, zero)}
Maps == {Struct(absent, x, y, z) @@ (u :> w) :
           x \in {zero, a, b, absent}, y, z, w \in {b, absent}}
NoMap == [col \in MCColumn |-> absent]
Structs == {Struct(zero, x, y, zero) : x \in MCValue, y \in {zero, b}}
TagSets == {Struct("", x, y, "") : x \in Tag, y \in {"", "only"}}

Statements(ops, rows, models, maps, structs, loaded) ==
    [op : ops, tags : TagSets, row : rows, model : models, map : maps,
     struct : structs, loaded : loaded, changed : {{}}, root : BOOLEAN]

(* Statement.Changed sees the non-zero fields of the struct in which it    *)
(* differs from the model, or none once GORM has assigned them to it.      *)
Report(s) == [s EXCEPT !.changed = {x \in MCField : s.struct[x] \notin {zero, s.model[x]}}]

StructCalls ==
    Statements({"struct"}, Rows, Models, {NoMap}, Structs, BOOLEAN)

AllCalls ==
    Statements({"create"}, {NoRow}, Models, {NoMap}, {NoRow}, {TRUE})
    \cup Statements({"delete"}, Rows, Models, {NoMap}, {NoRow}, {TRUE})
    \cup Statements({"save"}, Rows, Models, {NoMap}, {NoRow}, BOOLEAN)
    \cup Statements({"map"}, Rows, {Struct(a, zero, zero, zero)}, Maps, {NoRow}, BOOLEAN)
    \cup StructCalls \cup {Report(s) : s \in StructCalls}

MCCalls == {s \in AllCalls : s.op \in MCOps}
=============================================================================
