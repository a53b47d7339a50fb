-------------------------- MODULE MCAsyncScheduler --------------------------
(***************************************************************************)
(* AsyncScheduler on small forests.  Tasks are numbers in the order of     *)
(* their ids; a composite is created after its children, as the arguments  *)
(* of P() and S() are.                                                     *)
(***************************************************************************)
EXTENDS AsyncScheduler

L == "leaf"
S == "serial"
P == "parallel"
E == "emitting"
I == "instant"

(***************************************************************************)
(* Forest: P(2, S(4, P(6, 7))), where 7 completes itself in call() and 2   *)
(* emits S(9, 10); and S(12, 13), which another thread emits, a series     *)
(* that is not steady as both its tasks complete themselves.  Callbacks    *)
(* cancel the first tree.                                                  *)
(***************************************************************************)
ForestTasks == 1..13
ForestKind == <<P, E, S, L, P, L, I, S, L, L, S, I, I>>
ForestParent == <<0, 1, 1, 3, 3, 5, 5, 0, 8, 8, 0, 11, 11>>
ForestRoot == <<1, 1, 1, 1, 1, 1, 1, 8, 8, 8, 11, 11, 11>>
ForestRank == <<1, 2, 3, 4, 5, 6, 7, 8, 9, 10, 11, 12, 13>>
ForestCreated == <<8, 2, 7, 3, 6, 4, 5, 13, 9, 10, 1, 11, 12>>
ForestEmitter == <<0, 0, 0, 0, 0, 0, 0, 2, 0, 0, 0, 0, 0>>
ForestTimed == {4, 5}
ForestCancel == {1}

(***************************************************************************)
(* Pair: a composite of two tasks.                                         *)
(***************************************************************************)
PairTasks == 1..3
PairParent == <<0, 1, 1>>
PairRoot == <<1, 1, 1>>
PairRank == <<1, 2, 3>>
PairCreated == <<3, 1, 2>>
PairEmitter == <<0, 0, 0>>
PairParallel == <<P, L, L>>
PairTimed == {2, 3}
NoTasks == {}
=============================================================================
