--------------------------- MODULE MCAsyncClients ---------------------------
(***************************************************************************)
(* The two asynchronous clients, each on its own scheduler: a program uses *)
(* AsyncRedis, with a write, a deletion whose timeout has a callback and a *)
(* read with a plain timeout, or AsyncMyCache, with a series and two       *)
(* parallel calls, both with a timeout, and one of the calls with its own. *)
(***************************************************************************)
EXTENDS AsyncRedis

CONSTANTS set1, del1, get1

MCCommands == {set1, del1, get1}
MCOp == [c \in MCCommands |-> IF c = set1 THEN "SET" ELSE IF c = del1 THEN "DEL" ELSE "GET"]
MCTimed == {get1}
MCTimedCallback == {del1}
MCContexts == 1 .. 3

CONSTANTS N, Kind, parent, TimedRpcs, MaxThrows, MaxLost

MCKind == <<"serials", "rpc", "rpc", "parallel", "rpc", "rpc">>
MCparent == <<0, 1, 1, 0, 4, 4>>
MCTimedRpcs == {1, 4, 5}

VARIABLES made, ready, wait, by_time, children, expired, zeroed, pass, scan, sent, replies,
          called, timeouted, canceled, throws, lost

Cache == INSTANCE AsyncMyCache WITH
    queue_ready_ <- ready, queue_wait_ <- wait, wait_by_time_ <- by_time, Timed <- TimedRpcs

ASSUME RpcAssumption == Cache!CallShapes

VARIABLE uses       \* the client the program uses

cachevars == <<made, ready, wait, by_time, children, expired, zeroed, pass, scan, sent,
               replies, called, timeouted, canceled, throws, lost>>
allvars == <<vars, cachevars, uses>>

ClientsInit == Init /\ Cache!Init /\ uses \in {"redis", "mycache"}

RedisStep == uses = "redis" /\ Next /\ UNCHANGED <<cachevars, uses>>
CacheStep == uses = "mycache" /\ Cache!Next /\ UNCHANGED <<vars, uses>>

ClientsSpec == ClientsInit /\ [][RedisStep \/ CacheStep]_allvars /\ Fairness /\ Cache!Fairness

OutcomeIsFinal == Cache!OutcomeIsFinal
TimedRpcEnds == Cache!TimedRpcEnds
=============================================================================
