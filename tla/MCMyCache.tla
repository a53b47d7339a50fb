----------------------------- MODULE MCMyCache ------------------------------
(***************************************************************************)
(* MyCache with two workers, two keys that live in different tables, and   *)
(* commands that race for the first of them.                               *)
(***************************************************************************)
EXTENDS MyCache

CONSTANTS k1, k2, v1, w1, w2

TwoWorkers == {w1, w2}
AllStart == {TwoWorkers}
SomeStart == {TwoWorkers, {w1}}

Command(c, k, v) == [cmd |-> c, key |-> k, value |-> v]

TwoKeys == {k1, k2}
OwnTable == [k \in TwoKeys |-> IF k = k1 THEN "kvs_0" ELSE "kvs_1"]
FewCommands == {Command("get", k1, None), Command("set", k1, v1), Command("del", k1, None),
                Command("set", k2, v1)}
SetOnly == {Command("set", k1, v1)}
=============================================================================
