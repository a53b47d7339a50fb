----------------------------- MODULE TinyTable ------------------------------
(***************************************************************************)
(* The table service: TableClient (tinytable_client.h, tinytable_client.in *)
(* .h) keeps a handler per call and sends get, set, del and load requests  *)
(* over TinyRPC; TableServer (tinytable_server.h, tinytable_server.in.h)   *)
(* answers them from a table that reads the database for every get         *)
(* (TinyDBTable), that answers from memory (TinyMemTable), or that keeps   *)
(* what it read (TinyCacheTable).                                          *)
(*                                                                         *)
(* Of TinyRPC the model keeps what module TinyRPC shows: a call is         *)
(* answered at most once, requests and replies may be lost, and a call     *)
(* that has no answer in time gets its timeout callback instead, after     *)
(* which a late reply is dropped.                                          *)
(***************************************************************************)
EXTENDS Integers, Sequences, FiniteSets

CONSTANTS
    Kinds,              \* the ways the table may be registered, or "none"
    Keys, Values,
    Calls,              \* what clients call: [op, key, value]
    Rows,               \* what the database may hold at the start
    Garbled,            \* keys and values the server cannot deserialize
    HalfRead,           \* what may be read of an object until that throws
    Blank,              \* a default-constructed object
    Absent,             \* no row
    MaxCalls,           \* bound: calls
    MaxFailures         \* bound: statements of the server that fail

ASSUME TableAssumption ==
    /\ Kinds \subseteq {"db", "mem", "cache", "none"}
    /\ Calls \subseteq [op : {"get", "set", "del", "load"}, key : Keys, value : Values \cup {Blank}]
    /\ {Blank, Absent} \cap (Values \cup Garbled) = {} /\ Blank # Absent
    /\ HalfRead \subseteq [key : Keys, value : (Values \ Garbled) \cup {Blank}]
    /\ \A d \in Rows : \A k \in DOMAIN d : d[k] \in Values \ Garbled
    /\ MaxCalls \in Nat /\ MaxFailures \in Nat

VARIABLES
    kind,               \* how the server registered the table
    handlers_, total_id_,
    requests, replies,
    outcome,            \* outcome[i]: which callback call i ended with
    items_, db, failures,
    seen,               \* seen[i]: the row when call i was served
    stale               \* keys whose row changed behind items_

server == <<kind, items_, db, failures, seen, stale>>
vars == <<handlers_, total_id_, requests, replies, outcome, server>>

Ids == 1..MaxCalls
Open == [how |-> "open"]

Put(m, k, v) == [j \in DOMAIN m \cup {k} |-> IF j = k THEN v ELSE m[j]]
Remove(m, k) == [j \in DOMAIN m \ {k} |-> m[j]]

Init ==
    /\ kind \in Kinds
    /\ handlers_ = <<>> /\ total_id_ = 0 /\ requests = <<>> /\ replies = {}
    /\ outcome = [i \in Ids |-> [how |-> "none"]]
    /\ items_ = <<>> /\ db \in Rows /\ failures = 0 /\ seen = <<>> /\ stale = {}
-----------------------------------------------------------------------------
(***************************************************************************)
(* TableClient::get(), set(), del() and load*() make a handler; done()     *)
(* gives it the callback and emits the request.  A caller that does not    *)
(* call done() leaves the handler there.                                   *)
(***************************************************************************)
Handle(c, done) ==
    /\ total_id_ < MaxCalls /\ total_id_' = total_id_ + 1
    /\ handlers_' = Put(handlers_, total_id_', c)
    /\ IF done THEN /\ requests' = Append(requests, [id |-> total_id_', op |-> c.op,
                                                    key |-> c.key, value |-> c.value])
                    /\ outcome' = [outcome EXCEPT ![total_id_'] = Open]
               ELSE UNCHANGED <<requests, outcome>>
    /\ UNCHANGED <<replies, server>>

removeHandler(i) == handlers_' = Remove(handlers_, i)
(* A mistake HandlerWhileOpen and EveryCallEnds find: the handler is kept. *)
EndKeeping(i, o) == outcome' = [outcome EXCEPT ![i] = o] /\ UNCHANGED handlers_
End(i, o) == outcome' = [outcome EXCEPT ![i] = o] /\ removeHandler(i)

(***************************************************************************)
(* rpc_done(), rpc_error().  Whatever the retcode says, set and del call   *)
(* the done callback.  A get's value goes through deserialize(): no value  *)
(* is a blank object.  rpc_error() calls nobody.                           *)
(***************************************************************************)
GetDone(r) ==
    IF r.retcode = 0 THEN [how |-> "done", op |-> "get", value |-> r.value]
                     ELSE [how |-> "nonexist"]
SetOrDelDone(r) == [how |-> "done", op |-> r.op, value |-> handlers_[r.id].value]
LoadError(r) == [how |-> "error"]
rpc_done(r) ==
    IF r.op = "get" THEN GetDone(r) ELSE IF r.op = "load" THEN LoadError(r) ELSE SetOrDelDone(r)

Deliver(r) ==
    /\ r \in replies /\ replies' = replies \ {r}
    /\ IF outcome[r.id] = Open
       THEN End(r.id, rpc_done(r))
       ELSE UNCHANGED <<outcome, handlers_>>
    /\ UNCHANGED <<total_id_, requests, server>>

rpc_timeout(i) ==
    /\ outcome[i] = Open /\ End(i, [how |-> "timeout"])
    /\ UNCHANGED <<total_id_, requests, replies, server>>

(* A reply that is never delivered is a lost one. *)
LoseRequest ==
    /\ requests # <<>> /\ requests' = Tail(requests)
    /\ UNCHANGED <<handlers_, total_id_, replies, outcome, server>>
-----------------------------------------------------------------------------
(***************************************************************************)
(* The server.  Reply(q, code, value) ends the handling of request q.      *)
(***************************************************************************)
Reply(q, code, value) ==
    /\ requests' = Tail(requests)
    /\ replies' = replies \cup {[id |-> q.id, op |-> q.op, retcode |-> code, value |-> value]}
    /\ seen' = IF q.op # "get" THEN seen ELSE
               Put(seen, q.id, [key |-> q.key,
                                row |-> IF q.key \in DOMAIN db THEN db[q.key] ELSE Absent,
                                stale |-> q.key \in stale,
                                failed |-> failures' # failures])
    /\ UNCHANGED <<kind, handlers_, total_id_, outcome>>

Fails == failures < MaxFailures /\ failures' = failures + 1

(***************************************************************************)
(* TinyDBTable::processGet(), and the miss of TinyCacheTable, which keeps  *)
(* the object.  TinyMemTable answers from memory, which nothing fills.     *)
(***************************************************************************)
Select(q, keep) ==
    \/ /\ UNCHANGED <<failures, db, stale>>
       /\ IF q.key \in DOMAIN db
          THEN Reply(q, 0, db[q.key]) /\ items_' = IF keep THEN Put(items_, q.key, db[q.key])
                                                           ELSE items_
          ELSE Reply(q, 1, Blank) /\ UNCHANGED items_
    \/ Fails /\ Reply(q, 1, Blank) /\ UNCHANGED <<items_, db, stale>>

GetInMemory(q) ==
    /\ UNCHANGED <<items_, db, failures, stale>>
    /\ IF q.key \in DOMAIN items_ THEN Reply(q, 0, items_[q.key]) ELSE Reply(q, 1, Blank)

processGet(q) ==
    \/ kind = "db" /\ Select(q, FALSE)
    \/ kind = "cache" /\ q.key \notin DOMAIN items_ /\ Select(q, TRUE)
    \/ kind = "mem" /\ GetInMemory(q)
    \/ kind = "cache" /\ q.key \in DOMAIN items_ /\ GetInMemory(q)

(* The statement of a set or a del succeeds, or throws before or after it was done. *)
ReplaceDB(q) ==
    \/ UNCHANGED failures /\ Reply(q, 0, Blank) /\ db' = Put(db, q.key, q.value)
    \/ Fails /\ Reply(q, 1, Blank) /\ db' \in {db, Put(db, q.key, q.value)}
DeleteDB(q) ==
    \/ UNCHANGED failures /\ Reply(q, 0, Blank) /\ db' = Remove(db, q.key)
    \/ Fails /\ Reply(q, 1, Blank) /\ db' \in {db, Remove(db, q.key)}

(***************************************************************************)
(* proceeSet(): an object in memory is exchanged before the database is    *)
(* asked to replace it, and stays if that fails.                           *)
(***************************************************************************)
(* A mistake GetAnswersRow finds: the object in memory is not exchanged. *)
ExchangeNot(q) == items_
Exchange(q) == IF q.key \in DOMAIN items_ THEN Put(items_, q.key, q.value) ELSE items_
proceeSet(q) ==
    /\ items_' = Exchange(q) /\ ReplaceDB(q)
    /\ stale' = IF failures' = failures THEN stale \ {q.key}
                ELSE stale \cup (DOMAIN items_ \cap {q.key})

(* proceeDel(): the object in memory only gives the key; it stays there. *)
proceeDel(q) ==
    DeleteDB(q) /\ UNCHANGED items_ /\ stale' = stale \cup (DOMAIN items_ \cap {q.key})

(***************************************************************************)
(* deserialize() returned false or threw.  TinyMemTable and TinyCacheTable *)
(* log the exception of a set and go on with what was read of the object.  *)
(* Any other reaches the RPC server, which sends no reply.                 *)
(***************************************************************************)
Refuse(q) == UNCHANGED <<items_, db, failures, stale>> /\ Reply(q, 11, Blank)
DeserializeThrows(q) ==
    IF q.op = "set" /\ kind # "db"
    THEN \E o \in HalfRead : proceeSet([q EXCEPT !.key = o.key, !.value = o.value])
    ELSE LoseRequest

(***************************************************************************)
(* TableServer's callbacks.  With no table of that name the reply goes out *)
(* with its retcode unset, that is 0.  There is no callback for load: the  *)
(* RPC server answers with an error.                                       *)
(***************************************************************************)
Serve ==
    /\ requests # <<>>
    /\ LET q == Head(requests)
           garbled == (IF q.op = "set" THEN q.value ELSE q.key) \in Garbled
       IN \/ /\ q.op = "load" \/ kind = "none"
             /\ UNCHANGED <<items_, db, failures, stale>> /\ Reply(q, 0, Blank)
          \/ /\ q.op # "load" /\ kind # "none"
             /\ \/ garbled /\ (Refuse(q) \/ DeserializeThrows(q))
                \/ ~garbled /\ q.op = "get" /\ processGet(q)
                \/ ~garbled /\ q.op = "set" /\ proceeSet(q)
                \/ ~garbled /\ q.op = "del" /\ proceeDel(q)

Next ==
    \/ \E c \in Calls, done \in BOOLEAN : Handle(c, done)
    \/ \E i \in Ids : rpc_timeout(i)
    \/ \E r \in replies : Deliver(r)
    \/ LoseRequest \/ Serve

(* A client that polls runs timeouts that are due. *)
Spec == Init /\ [][Next]_vars /\ \A i \in Ids : WF_vars(rpc_timeout(i))
-----------------------------------------------------------------------------
(***************************************************************************)
(* A handler is kept exactly as long as its call is not ended: rpc_done(), *)
(* rpc_error() and rpc_timeout() run on the handler that is still there,   *)
(* and none of them runs for a handler that was removed.                   *)
(***************************************************************************)
HandlerWhileOpen ==
    /\ DOMAIN handlers_ = {i \in 1..total_id_ : outcome[i].how \in {"none", "open"}}
    /\ \A n \in DOMAIN requests : requests[n].id \in 1..total_id_
    /\ \A r, s \in replies : r.id = s.id => r = s
    /\ \A k \in DOMAIN items_ : kind = "cache" /\ items_[k] \notin Garbled

(***************************************************************************)
(* A get that is done brings the row as it was when the request was        *)
(* served, through whatever sets, deletes and failures came before, and    *)
(* one that says the row does not exist is right unless the statement      *)
(* failed.  Excepted are a server that has no such table (a blank object), *)
(* a table in memory, which never finds anything, and in the cache the     *)
(* keys that were deleted, or whose set failed, while cached.              *)
(***************************************************************************)
GetAnswersRow ==
    \A i \in DOMAIN seen :
        kind \in {"db", "cache"} /\ ~seen[i].stale =>
            /\ outcome[i].how = "done" /\ outcome[i].op = "get" => outcome[i].value = seen[i].row
            /\ outcome[i].how = "nonexist" =>
                   seen[i].row = Absent \/ seen[i].failed \/ seen[i].key \in Garbled

(***************************************************************************)
(* Every call that was emitted ends with a callback or an error, and its   *)
(* handler is removed, also if the request or the reply is lost.           *)
(***************************************************************************)
EveryCallEnds ==
    \A i \in Ids : outcome[i] = Open ~> (i \notin DOMAIN handlers_ /\ outcome[i] # Open)
-----------------------------------------------------------------------------
(***************************************************************************)
(* Type invariant.                                                         *)
(***************************************************************************)
Ops == {"get", "set", "del", "load"}
Objects == Values \cup {Blank}
Outcomes == [how : {"none", "open", "timeout", "nonexist", "error"}]
            \cup [how : {"done"}, op : {"get", "set", "del"}, value : Objects]

TypeOK ==
    /\ kind \in Kinds /\ total_id_ \in 0..MaxCalls /\ failures \in 0..MaxFailures
    /\ \A i \in DOMAIN handlers_ : i \in Ids /\ handlers_[i] \in Calls
    /\ requests \in Seq([id : Ids, op : Ops, key : Keys, value : Objects])
    /\ replies \subseteq [id : Ids, op : Ops, retcode : {0, 1, 11}, value : Objects]
    /\ outcome \in [Ids -> Outcomes]
    /\ \A k \in DOMAIN items_ : items_[k] \in Objects
    /\ \A k \in DOMAIN db : db[k] \in Objects \ Garbled
    /\ \A i \in DOMAIN seen : i \in Ids

(***************************************************************************)
(* The inductive strengthening of HandlerWhileOpen and GetAnswersRow.      *)
(*                                                                         *)
(* An id is given out once, and its request is at the server or its reply  *)
(* on the way, never both; the request has not been served.                *)
(***************************************************************************)
Emitted ==
    /\ \A i \in Ids : i > total_id_ => outcome[i].how = "none"
    /\ \A n \in DOMAIN requests :
         /\ outcome[requests[n].id].how \in {"open", "timeout"}
         /\ requests[n].id \notin DOMAIN seen
         /\ \A r \in replies : r.id # requests[n].id
         /\ \A m \in DOMAIN requests : requests[m].id = requests[n].id => m = n
    /\ \A r \in replies : r.id <= total_id_
    /\ \A i \in DOMAIN seen : i <= total_id_

(***************************************************************************)
(* A reply to a get is right about the row as it was when it was served;   *)
(* what is in memory is what the database has, but for the stale keys.     *)
(***************************************************************************)
Right(r) ==
    (r.op = "get" /\ r.id \in DOMAIN seen /\ kind \in {"db", "cache"} /\ ~seen[r.id].stale) =>
        IF r.retcode = 0
          THEN r.value = seen[r.id].row
          ELSE seen[r.id].row = Absent \/ seen[r.id].failed \/ seen[r.id].key \in Garbled

MemoryIsTrue ==
    \A k \in DOMAIN items_ \ stale : k \in DOMAIN db /\ db[k] = items_[k]

IInv ==
    /\ TypeOK /\ HandlerWhileOpen /\ Emitted
    /\ \A r \in replies : Right(r)
    /\ MemoryIsTrue /\ GetAnswersRow
=============================================================================
