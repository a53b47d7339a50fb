------------------------------- MODULE MCORM --------------------------------
(***************************************************************************)
(* Two programs at a time, of different versions and mappings.             *)
(***************************************************************************)
EXTENDS ORMCluster

CONSTANTS p1, p2, p3, k1, k2, v, w, x, e

AllPrograms == {p1, p2, p3}
Backends == (p1 :> "mysql") @@ (p2 :> "soci") @@ (p3 :> "object2db")
FieldsOf == (p1 :> <<"score", "bin">>) @@ (p2 :> <<"bin", "score", "ratio", "name">>) @@
            (p3 :> <<"ratio">>)
Kinds == [score |-> "float", ratio |-> "double", bin |-> "object", name |-> "text"]
SixDigits == (v :> v) @@ (w :> v) @@ (x :> v) @@ (e :> e)
KeySymmetry == Permutations({k1, k2})
Readable == (p1 :> {w, e}) @@ (p2 :> {x}) @@ (p3 :> {w})
=============================================================================
