----------------------------- MODULE MCGormPlugin -----------------------------
(***************************************************************************)
(* Instances of GormPlugin for TLC.                                        *)
(***************************************************************************)
EXTENDS GormPlugin, TLC

CONSTANTS c1, c2, v1, v2

MCClients == {c1, c2}
MCValues == {v1, v2}
Symmetry == Permutations({c1, c2})

MCIds == {"r1", "r2"}

(* A slice lists its rows in ascending order, or the other way round. *)
Statement(op, ids, val) ==
    [op |-> op, ids |-> ids, slice |-> Cardinality(ids) > 1, place |-> [x \in Row |-> x],
     match |-> Value, val |-> val]
Reversed(r) == [r EXCEPT !.place = [x \in Row |-> Cardinality(Row) - x]]
Where(r, match) == [r EXCEPT !.match = match]

(* Statements on one row each. *)
RowRequests ==
    {Statement("create", {1}, v1), Statement("update", {1}, v2),
     Statement("update", {1}, Nil), Statement("save", {1}, v1),
     Statement("delete", {1}, v1), Statement("update", {2}, v1)}
(* Batches, conditions and blank models. *)
BatchRequests ==
    {Statement("create", {1, 2}, v1), Statement("delete", {1, 2}, v2),
     Where(Statement("update", {1}, v2), {v1}), Statement("update", {}, v2),
     Statement("update", {1, 2}, v2), Statement("save", {1}, v2)}
SequentialRequests ==
    RowRequests \cup {Statement("create", {1, 2}, v2), Statement("save", {2}, v2),
                      Where(Statement("delete", {1, 2}, v2), {v1}),
                      Where(Statement("update", {1}, v2), {v1}),
                      Statement("delete", {}, Nil)}
(* Two batches that share both sequences, listed in one order or in        *)
(* opposite ones, and a single row of one of them.                         *)
PairRequests ==
    {Statement("create", {1, 2}, v1), Statement("create", {3, 4}, v1),
     Statement("update", {1}, v2)}
CrossRequests ==
    {Statement("create", {1, 2}, v1), Reversed(Statement("create", {3, 4}, v1)),
     Statement("update", {1}, v2)}

(* One key column; a composite key, whose rows share its first column.     *)
Distinct == [x \in Row |-> IF x = 1 THEN "r1" ELSE "r2"]
Shared == [x \in Row |-> "r1"]
Pairs == [x \in Row |-> IF x \in {1, 3} THEN "r1" ELSE "r2"]

(* GormStore in the transaction, failing closed, on a database that leaves *)
(* a transaction usable after an error.                                    *)
Closed ==
    [store |-> "gorm", inTx |-> TRUE, abortOnError |-> FALSE,
     failOnAuditError |-> TRUE, allowUnauditedBulk |-> FALSE, idString |-> Shared,
     requests |-> RowRequests, tables |-> [Row -> Content], oneCaller |-> FALSE,
     calls |-> 2, faults |-> 2]
(* Failing open on one that aborts it: three statements and no failure, or *)
(* batches with failures.                                                  *)
Open ==
    [Closed EXCEPT !.abortOnError = TRUE, !.failOnAuditError = FALSE,
                   !.allowUnauditedBulk = TRUE, !.idString = Distinct,
                   !.calls = 3, !.faults = 0]
Batches == [Open EXCEPT !.requests = BatchRequests, !.calls = 2, !.faults = 2]
(* Callbacks after the commit.                                             *)
Sequential ==
    [Open EXCEPT !.inTx = FALSE, !.allowUnauditedBulk = FALSE,
                 !.requests = SequentialRequests, !.oneCaller = TRUE]
(* The plugin of the module root, in the transaction and after the commit. *)
Root == [Batches EXCEPT !.store = "root", !.abortOnError = FALSE, !.idString = Shared,
                         !.faults = 1]
RootSequential ==
    [Sequential EXCEPT !.store = "root", !.allowUnauditedBulk = TRUE,
                       !.calls = 2, !.faults = 1]
TxSetups == {Closed, Open, Batches, Sequential, Root, RootSequential}

TwoRows == {t \in [Row -> Content] : \A x \in Row \ {1, 2} : t[x] = Nil}
Post ==
    [Closed EXCEPT !.inTx = FALSE, !.abortOnError = TRUE, !.requests = BatchRequests,
                   !.tables = TwoRows, !.faults = 1]
Mongo ==
    [Open EXCEPT !.store = "mongo", !.allowUnauditedBulk = FALSE, !.idString = Shared,
                 !.tables = TwoRows, !.calls = 2, !.faults = 1]
Waiting ==
    [Closed EXCEPT !.abortOnError = TRUE, !.idString = Pairs,
                   !.requests = PairRequests, !.tables = [Row -> {Nil, v1}], !.faults = 1]
Crossing == [Waiting EXCEPT !.requests = CrossRequests]
TrailSetups == {Post, Mongo, Waiting, Crossing}
=============================================================================
