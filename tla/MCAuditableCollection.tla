------------------------ MODULE MCAuditableCollection ------------------------
(***************************************************************************)
(* Instances of AuditableCollection for TLC.                               *)
(***************************************************************************)
EXTENDS AuditableCollection, TLC

CONSTANTS c1, c2, v1, v2

MCClients == {c1, c2}
MCOneClient == {c1}
MCValues == {v1, v2}
Symmetry == Permutations({c1, c2})

(* fmt.Sprint tells the two _ids apart ... *)
MCIds == {"d1", "d2", "<nil>"}
MCIdString == (0 :> "<nil>") @@ (1 :> "d1") @@ (2 :> "d2")
(* ... or does not: the number 7 and the string "7". *)
MCIdsClash == {"7", "<nil>"}
MCIdStringClash == (0 :> "<nil>") @@ (1 :> "7") @@ (2 :> "7")

Call1(op, ids, match, val) ==
    [op |-> op, ids |-> ids, match |-> match, plain |-> match, val |-> val,
     upsert |-> FALSE]

ById(op, d, val) == Call1(op, {d}, Value, val)

(* Operations on one document named by its _id, what point updates,        *)
(* SoftDelete and Restore do, and one that inserts two.                    *)
PointRequests ==
    {ById("InsertOne", 1, v1), ById("UpdateOne", 1, v2), ById("UpdateOne", 1, Nil),
     ById("ReplaceOne", 1, v1), ById("DeleteOne", 1, Nil),
     [ById("UpdateOne", 1, v1) EXCEPT !.upsert = TRUE, !.match = {v1}],
     Call1("InsertMany", {1, 2}, {}, v2)}

(* A filter on the content of any document, which matches v1 only but,     *)
(* under the Collation of the call, both values.                           *)
CollatedUpdate ==
    [Call1("UpdateOne", {1, 2}, Value, v2) EXCEPT !.plain = {v1}]
CollatedRequests == {CollatedUpdate, ById("DeleteOne", 1, Nil)}

(* Operations on several documents, by _id and by content. *)
ManyRequests ==
    {Call1("InsertMany", {1, 2}, {}, v1), Call1("UpdateMany", {1, 2}, Value, v2),
     Call1("UpdateMany", {1, 2}, {v1}, v2), Call1("DeleteMany", {1, 2}, {v2}, Nil),
     CollatedUpdate, [CollatedUpdate EXCEPT !.op = "DeleteMany", !.val = Nil]}

(* The calls of a behaviour are all of one family, by _id without failures *)
(* or on several documents with one.                                       *)
Family(requests, maxCalls, maxFaults) ==
    /\ calls' <= maxCalls /\ faults' <= maxFaults
    /\ \A c \in Client : /\ cid[c] # 0 => req[c] \in requests
                         /\ cid'[c] # 0 => req'[c] \in requests
CallsSpec ==
    Init /\ [][Next /\ (Family(PointRequests, 3, 0) \/ Family(ManyRequests, 2, 1))]_vars
CallRequests == PointRequests \cup ManyRequests

(* A representative of each path through the fault handling. *)
FaultRequests ==
    {Call1("InsertMany", {1, 2}, {}, v1), Call1("UpdateMany", {1, 2}, Value, v2),
     ById("ReplaceOne", 1, v2), ById("DeleteOne", 1, Nil)}

NoValue == {}
OnlyV2 == {v2}
AllOps == Action
CreateAndUpdate == {"create", "update"}
=============================================================================
