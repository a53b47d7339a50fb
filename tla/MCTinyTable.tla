---------------------------- MODULE MCTinyTable -----------------------------
(***************************************************************************)
(* The table service with each kind of table, a row that may be there at   *)
(* the start, and a key and an object that cannot be deserialized.         *)
(***************************************************************************)
EXTENDS TinyTable, TLC

CONSTANTS k1, kbad, v1, v2, vbad

ACall(op, k, v) == [op |-> op, key |-> k, value |-> v]
FewCalls == {ACall("get", k1, Blank), ACall("set", k1, v2), ACall("set", k1, vbad),
             ACall("get", kbad, Blank), ACall("del", k1, Blank), ACall("load", k1, Blank)}
Halves == {[key |-> k1, value |-> Blank]}
FewRows == {<<>>, k1 :> v1}
=============================================================================
