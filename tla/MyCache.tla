------------------------------ MODULE MyCache -------------------------------
(***************************************************************************)
(* The key-value cache service: MyCacheClient (mycache.cpp), whose call    *)
(* resends its request on a new socket when no answer comes in time, and   *)
(* mycached (mycached.cpp), a broker thread that hands requests to worker  *)
(* threads, each of which reads and writes a Redis cache in front of a     *)
(* MySQL table.                                                            *)
(*                                                                         *)
(* A worker's handler is several steps, as each command it sends to Redis  *)
(* or MySQL is one; so is the formatting of the table name, which goes     *)
(* through a static buffer all workers share.  Timeouts may pass at any    *)
(* time.  Redis or MySQL may fail at any command.                          *)
(***************************************************************************)
EXTENDS Integers, Sequences, FiniteSets

CONSTANTS
    Workers, Clients,
    Named,              \* the clients built with an id: one identity for all sockets
    Keys, Values,
    Tables,             \* the tables kvs_0 .. kvs_(s_tablenum - 1)
    TableOf,            \* TableOf[k]: hash_murmur(k) % s_tablenum
    Commands,           \* what the clients call: [cmd, key, value]
    None,               \* no value, the empty string
    REQUEST_RETRIES,
    CacheOnly,          \* values of s_cacheonly in the configuration file
    Startable,          \* sets of workers of which each init() may succeed
    MayInterrupt,       \* whether SIGINT or SIGTERM may come
    MaxFailures,        \* bound: failures of Redis and MySQL
    MaxCalls            \* bound: calls of all clients

ASSUME CacheAssumption ==
    /\ Named \subseteq Clients
    /\ None \notin Values /\ None # "OK" /\ TableOf \in [Keys -> Tables]
    /\ Commands \subseteq [cmd : {"get", "set", "del"}, key : Keys, value : Values \cup {None}]
    /\ REQUEST_RETRIES \in Nat \ {0} /\ MaxCalls \in Nat /\ MaxFailures \in Nat
    /\ CacheOnly \subseteq BOOLEAN /\ Startable \subseteq SUBSET Workers
    /\ MayInterrupt \in BOOLEAN

VARIABLES
    \* clients
    calls,              \* number of calls made so far; also the last call's name
    call,               \* call[c]: the call c is in, or made last
    status,             \* status[c]: "idle", or "wait" for a reply
    socket_,            \* socket_[c]: "none", "ready", or "sent" (owed a reply)
    conn,               \* conn[c]: which socket of c this is
    retries_left,
    arrived,            \* arrived[c]: replies on c's present socket
    \* broker
    frontend,           \* requests that are waiting at clients_socket_
    worker_queue, worker_queue_selector,
    broker,             \* "run", "fini", "over", or "terminated": no process left
    s_interrupted,
    \* workers
    pc, inbox, outbox, job, reply,
    name,               \* getKVSTableName()'s static buffer
    redis, mysql,
    s_cacheonly,
    \* history
    stored,             \* calls whose statement MySQL executed
    unready,            \* calls for which there was no MySQL connection
    result,             \* result[n]: "none", "true" or "false"
    raced, failed       \* two handlers overlapped; failures of a store

clientvars == <<calls, call, status, socket_, conn, retries_left, arrived>>
routing == <<worker_queue, worker_queue_selector, broker, s_interrupted>>
brokervars == <<frontend, routing>>
threads == <<pc, inbox, outbox, job, reply>>
stores == <<redis, mysql, name, s_cacheonly>>
history == <<stored, unready, result, raced, failed>>
vars == <<clientvars, brokervars, threads, stores, history>>

CallIds == 1..MaxCalls
Request == [client : Clients, conn : Nat, n : CallIds,
            cmd : {"get", "set", "del"}, key : Keys, value : Values \cup {None}]
Reply == [client : Clients, conn : Nat, n : CallIds, cmd : {"get", "set", "del"},
          body : Values \cup {None, "OK"}]

NoRequest == [n |-> 0]
READY == [n |-> 0]

Busy == {w \in Workers : pc[w] \in {"cache", "name", "query", "fill", "log", "reply"}}
-----------------------------------------------------------------------------
(***************************************************************************)
(* A worker that init() could not connect to its stores never runs, but    *)
(* keeps its socket; the server goes on with the others.                   *)
(***************************************************************************)
WorkerInit(W) == [w \in Workers |-> IF w \in W THEN "new" ELSE "failed"]

Init ==
    /\ calls = 0 /\ call = [c \in Clients |-> NoRequest]
    /\ status = [c \in Clients |-> "idle"]
    /\ socket_ = [c \in Clients |-> "ready"] /\ conn = [c \in Clients |-> 0]
    /\ retries_left = [c \in Clients |-> 0] /\ arrived = [c \in Clients |-> <<>>]
    /\ frontend = {} /\ worker_queue = <<>> /\ worker_queue_selector = 0
    /\ broker = "run" /\ s_interrupted = FALSE
    /\ \E W \in Startable : pc = WorkerInit(W)
    /\ inbox = [w \in Workers |-> <<>>] /\ outbox = [w \in Workers |-> <<>>]
    /\ job = [w \in Workers |-> NoRequest] /\ reply = [w \in Workers |-> None]
    /\ name = None
    /\ redis = [k \in Keys |-> None]
    /\ mysql = [t \in Tables |-> [k \in Keys |-> None]]
    /\ s_cacheonly \in CacheOnly
    /\ stored = {} /\ unready = {} /\ raced = FALSE /\ failed = 0
    /\ result = [n \in CallIds |-> "none"]
-----------------------------------------------------------------------------
(***************************************************************************)
(* MyCacheClient::get(), set(), del(): request() sends on the socket it    *)
(* has, or on a new one.  A REQ socket that is still owed a reply refuses  *)
(* to send; the exception closes it and the call returns false.  What came *)
(* while nothing was asked is discarded by REQ sockets of ZeroMQ 4 when    *)
(* they send, and kept by older ones.                                      *)
(***************************************************************************)
Send(q) == frontend' = IF broker = "run" THEN frontend \cup {q} ELSE frontend

Return(c, n, outcome) ==
    /\ status' = [status EXCEPT ![c] = "idle"]
    /\ result' = [result EXCEPT ![n] = outcome]

Call(c, m) ==
    /\ status[c] = "idle" /\ calls < MaxCalls /\ socket_[c] # "sent"
    /\ calls' = calls + 1
    /\ LET i == IF socket_[c] = "none" THEN conn[c] + 1 ELSE conn[c]
           q == [client |-> c, conn |-> i, n |-> calls + 1,
                 cmd |-> m.cmd, key |-> m.key, value |-> m.value]
       IN /\ conn' = [conn EXCEPT ![c] = i]
          /\ call' = [call EXCEPT ![c] = q]
          /\ Send(q)
    /\ socket_' = [socket_ EXCEPT ![c] = "sent"]
    /\ status' = [status EXCEPT ![c] = "wait"]
    /\ retries_left' = [retries_left EXCEPT ![c] = REQUEST_RETRIES]
    /\ arrived' \in {arrived, [arrived EXCEPT ![c] = <<>>]}
    /\ UNCHANGED <<routing, threads, stores, history>>

CallOnSentSocket(c) ==
    /\ status[c] = "idle" /\ calls < MaxCalls /\ socket_[c] = "sent"
    /\ calls' = calls + 1
    /\ Return(c, calls + 1, "false")
    /\ socket_' = [socket_ EXCEPT ![c] = "none"]
    /\ arrived' = [arrived EXCEPT ![c] = <<>>]
    /\ UNCHANGED <<call, conn, retries_left, brokervars, threads, stores,
                   stored, unready, raced, failed>>

(***************************************************************************)
(* A reply is there: set() and del() also ask that it says "OK".           *)
(***************************************************************************)
Receive(c) ==
    /\ status[c] = "wait" /\ arrived[c] # <<>>
    /\ Return(c, call[c].n,
              IF call[c].cmd = "get" \/ Head(arrived[c]).body = "OK" THEN "true" ELSE "false")
    /\ arrived' = [arrived EXCEPT ![c] = Tail(@)]
    /\ socket_' = [socket_ EXCEPT ![c] = "ready"]
    /\ UNCHANGED <<calls, call, conn, retries_left, brokervars, threads, stores,
                   stored, unready, raced, failed>>

(***************************************************************************)
(* No reply within timeoutms: the old socket is closed, with linger 0, so  *)
(* that a request still on its way may be dropped, and the request is sent *)
(* on a new one.  The last time the call is abandoned instead, and the     *)
(* socket stays as it is.                                                  *)
(***************************************************************************)
Again(c, i, left) ==
    /\ retries_left' = [retries_left EXCEPT ![c] = left]
    /\ conn' = [conn EXCEPT ![c] = i]
    /\ call' = [call EXCEPT ![c].conn = i]
    /\ LET q == [call[c] EXCEPT !.conn = i] IN
         \/ Send(q)
         \/ broker = "run" /\ frontend' = (frontend \ {call[c]}) \cup {q}
    /\ UNCHANGED <<calls, status, socket_, arrived, routing, threads, stores, history>>

\* A mistake ReplyAnswersCall finds: the request is sent again on the old
\* socket.
RetryOnSameSocket(c) ==
    /\ status[c] = "wait" /\ arrived[c] = <<>> /\ retries_left[c] > 1
    /\ Again(c, conn[c], retries_left[c] - 1)

Retry(c) ==
    /\ status[c] = "wait" /\ arrived[c] = <<>> /\ retries_left[c] > 1
    /\ Again(c, conn[c] + 1, retries_left[c] - 1)

\* A mistake EveryCallReturns finds: the count of retries is compared too
\* late.
AbandonLate(c) ==
    /\ status[c] = "wait" /\ arrived[c] = <<>> /\ retries_left[c] = 0
    /\ Return(c, call[c].n, "false")
    /\ UNCHANGED <<calls, call, socket_, conn, retries_left, arrived, brokervars, threads,
                   stores, stored, unready, raced, failed>>

Abandon(c) ==
    /\ status[c] = "wait" /\ arrived[c] = <<>> /\ retries_left[c] = 1
    /\ Return(c, call[c].n, "false")
    /\ retries_left' = [retries_left EXCEPT ![c] = 0]
    /\ UNCHANGED <<calls, call, socket_, conn, arrived, brokervars, threads,
                   stores, stored, unready, raced, failed>>
-----------------------------------------------------------------------------
(***************************************************************************)
(* MyCacheServer::run(), one message from the workers: READY enters the    *)
(* worker in worker_queue, which it never leaves; a reply is sent on.  The *)
(* ROUTER socket drops a reply to an identity it does not know any more.   *)
(* A socket without an identity is given one of its own; all sockets of a  *)
(* named client have the same (connect() sets it), so that what is for an  *)
(* earlier one reaches the present one, unless the ROUTER refused that     *)
(* because the earlier was still connected.                                *)
(***************************************************************************)
Route(m) ==
    LET c == m.client IN
    IF socket_[c] = "none" THEN {arrived}
    ELSE IF c \in Named THEN {arrived, [arrived EXCEPT ![c] = Append(@, m)]}
    ELSE IF m.conn = conn[c] THEN {[arrived EXCEPT ![c] = Append(@, m)]}
    ELSE {arrived}

HandleBackend(w) ==
    /\ broker = "run" /\ outbox[w] # <<>>
    /\ outbox' = [outbox EXCEPT ![w] = Tail(@)]
    /\ LET m == Head(outbox[w]) IN
         IF m = READY
           THEN /\ worker_queue' = Append(worker_queue, w)
                /\ UNCHANGED arrived
           ELSE arrived' \in Route(m) /\ UNCHANGED worker_queue
    /\ UNCHANGED <<calls, call, status, socket_, conn, retries_left, frontend,
                   worker_queue_selector, broker, s_interrupted, pc, inbox, job, reply,
                   stores, history>>

(***************************************************************************)
(* One request from the clients, polled for once a worker is known: it     *)
(* goes to the next worker in turn, and is lost if that worker has ended.  *)
(***************************************************************************)
HandleFrontend(q) ==
    /\ broker = "run" /\ worker_queue # <<>> /\ q \in frontend
    /\ frontend' = frontend \ {q}
    /\ LET w == worker_queue[(worker_queue_selector % Len(worker_queue)) + 1] IN
         inbox' = IF pc[w] = "gone" THEN inbox ELSE [inbox EXCEPT ![w] = Append(@, q)]
    /\ worker_queue_selector' = worker_queue_selector + 1
    /\ UNCHANGED <<clientvars, worker_queue, broker, s_interrupted, pc, outbox, job, reply,
                   stores, history>>

(***************************************************************************)
(* A signal; the broker leaves its loop and closes its sockets; fini()     *)
(* then deletes the context, which waits for every socket of the process,  *)
(* and joins the workers.                                                  *)
(***************************************************************************)
Interrupt ==
    /\ MayInterrupt /\ ~s_interrupted
    /\ s_interrupted' = TRUE
    /\ UNCHANGED <<clientvars, frontend, worker_queue, worker_queue_selector, broker,
                   threads, stores, history>>

Fini ==
    /\ broker = "run" /\ s_interrupted
    /\ broker' = "fini"
    /\ frontend' = {}
    /\ outbox' = [w \in Workers |-> <<>>]
    /\ UNCHANGED <<clientvars, worker_queue, worker_queue_selector, s_interrupted,
                   pc, inbox, job, reply, stores, history>>

JoinAll ==
    /\ broker = "fini" /\ \A w \in Workers : pc[w] = "gone"
    /\ broker' = "over"
    /\ UNCHANGED <<clientvars, frontend, worker_queue, worker_queue_selector, s_interrupted,
                   threads, stores, history>>
-----------------------------------------------------------------------------
(***************************************************************************)
(* MyCacheWorker::run(): READY, then requests until the signal.  A blocked *)
(* recv() ends with an exception when the signal interrupts it or the      *)
(* context is deleted; READY is sent outside the try block, so that the    *)
(* same exception ends the whole process.                                  *)
(***************************************************************************)
Onward == IF s_interrupted THEN "gone" ELSE "recv"

Ready(w) ==
    /\ pc[w] = "new" /\ broker = "run"
    /\ outbox' = [outbox EXCEPT ![w] = <<READY>>]
    /\ pc' = [pc EXCEPT ![w] = Onward]
    /\ UNCHANGED <<clientvars, brokervars, inbox, job, reply, stores, history>>

ReadyThrows(w) ==
    /\ pc[w] = "new" /\ s_interrupted
    /\ broker' = "terminated"
    /\ UNCHANGED <<clientvars, frontend, worker_queue, worker_queue_selector, s_interrupted,
                   threads, stores, history>>

Recv(w) ==
    /\ pc[w] = "recv" /\ inbox[w] # <<>>
    /\ inbox' = [inbox EXCEPT ![w] = Tail(@)]
    /\ job' = [job EXCEPT ![w] = Head(inbox[w])]
    /\ pc' = [pc EXCEPT ![w] = "cache"]
    /\ raced' = (raced \/ Busy # {})
    /\ UNCHANGED <<clientvars, brokervars, outbox, reply, stores, stored, unready, result, failed>>

\* A mistake ShutdownEnds finds: a worker goes on after the context is
\* terminated.
RecvFailsIgnored(w) ==
    /\ pc[w] = "recv" /\ s_interrupted
    /\ UNCHANGED vars

RecvFails(w) ==
    /\ pc[w] = "recv" /\ s_interrupted
    /\ pc' = [pc EXCEPT ![w] = "gone"]
    /\ inbox' = [inbox EXCEPT ![w] = <<>>]
    /\ UNCHANGED <<clientvars, brokervars, outbox, job, reply, stores, history>>

(***************************************************************************)
(* The handlers' Redis command.  When it fails nothing happens, or what it *)
(* should do does and its answer is lost.                                  *)
(***************************************************************************)
\* A mistake CoherentUnlessRaced finds: del() leaves the cache alone.
CacheAfterSetOnly(q) ==
    IF q.cmd = "set" THEN [redis EXCEPT ![q.key] = q.value] ELSE redis

CacheAfter(q) ==
    IF q.cmd = "set" THEN [redis EXCEPT ![q.key] = q.value]
    ELSE IF q.cmd = "del" THEN [redis EXCEPT ![q.key] = None]
    ELSE redis

Cache(w) ==
    /\ pc[w] = "cache"
    /\ LET q == job[w]
           hit == q.cmd = "get" /\ redis[q.key] # None
       IN /\ redis' = CacheAfter(q)
          /\ reply' = [reply EXCEPT ![w] =
                         IF hit THEN redis[q.key]
                         ELSE IF q.cmd = "set" /\ s_cacheonly THEN "OK" ELSE None]
          /\ pc' = [pc EXCEPT ![w] = IF hit \/ s_cacheonly THEN "reply" ELSE "name"]
    /\ UNCHANGED <<clientvars, brokervars, inbox, outbox, job, mysql, name, s_cacheonly, history>>

CacheFails(w) ==
    /\ failed < MaxFailures /\ pc[w] = "cache"
    /\ redis' \in {redis, CacheAfter(job[w])}
    /\ reply' = [reply EXCEPT ![w] =
                   IF job[w].cmd = "set" /\ s_cacheonly THEN "OK" ELSE None]
    /\ pc' = [pc EXCEPT ![w] = IF s_cacheonly THEN "reply" ELSE "name"]
    /\ failed' = failed + 1
    /\ UNCHANGED <<clientvars, brokervars, inbox, outbox, job, mysql, name, s_cacheonly,
                   stored, unready, result, raced>>

(***************************************************************************)
(* No MySQL connection to be had: get() finds nothing, set() says "OK".    *)
(***************************************************************************)
NoMySql(w) ==
    /\ failed < MaxFailures /\ pc[w] = "name"
    /\ reply' = [reply EXCEPT ![w] = IF job[w].cmd = "set" THEN "OK" ELSE None]
    /\ pc' = [pc EXCEPT ![w] = "reply"]
    /\ unready' = unready \cup {job[w].n}
    /\ failed' = failed + 1
    /\ UNCHANGED <<clientvars, brokervars, inbox, outbox, job, stores,
                   stored, result, raced>>

(***************************************************************************)
(* getKVSTableName() writes the name into its static buffer; the statement *)
(* takes it from there.                                                    *)
(***************************************************************************)
getKVSTableName(w) ==
    /\ pc[w] = "name"
    /\ name' = TableOf[job[w].key]
    /\ pc' = [pc EXCEPT ![w] = "query"]
    /\ UNCHANGED <<clientvars, brokervars, inbox, outbox, job, reply, redis, mysql,
                   s_cacheonly, history>>

TableAfter(q) ==
    IF q.cmd = "get" THEN mysql
    ELSE [mysql EXCEPT ![name][q.key] = IF q.cmd = "set" THEN q.value ELSE None]

Query(w) ==
    /\ pc[w] = "query"
    /\ LET q == job[w]
           row == mysql[name][q.key]
       IN /\ mysql' = TableAfter(q)
          /\ reply' = [reply EXCEPT ![w] = IF q.cmd = "get" THEN row ELSE "OK"]
          /\ pc' = [pc EXCEPT ![w] = IF q.cmd # "get" THEN "log"
                                     ELSE IF row # None THEN "fill" ELSE "reply"]
          /\ stored' = stored \cup {q.n}
    /\ UNCHANGED <<clientvars, brokervars, inbox, outbox, job, redis, name, s_cacheonly,
                   unready, result, raced, failed>>

(***************************************************************************)
(* An exception from MySQL, before or after it executed the statement: the *)
(* reply stays empty.                                                      *)
(***************************************************************************)
\* A mistake TrueMeansStored finds: a failed statement is answered with OK.
QueryFailsOK(w) ==
    /\ failed < MaxFailures /\ pc[w] = "query"
    /\ mysql' \in {mysql, TableAfter(job[w])}
    /\ reply' = [reply EXCEPT ![w] = "OK"]
    /\ pc' = [pc EXCEPT ![w] = "reply"]
    /\ failed' = failed + 1
    /\ UNCHANGED <<clientvars, brokervars, inbox, outbox, job, redis, name, s_cacheonly,
                   stored, unready, result, raced>>

QueryFails(w) ==
    /\ failed < MaxFailures /\ pc[w] = "query"
    /\ mysql' \in {mysql, TableAfter(job[w])}
    /\ pc' = [pc EXCEPT ![w] = "reply"]
    /\ failed' = failed + 1
    /\ UNCHANGED <<clientvars, brokervars, inbox, outbox, job, reply, redis, name, s_cacheonly,
                   stored, unready, result, raced>>

(***************************************************************************)
(* A get() that missed the cache fills it with the row it read.            *)
(***************************************************************************)
Fill(w) ==
    /\ pc[w] = "fill"
    /\ \/ redis' = [redis EXCEPT ![job[w].key] = reply[w]] /\ UNCHANGED failed
       \/ failed < MaxFailures /\ UNCHANGED redis /\ failed' = failed + 1
    /\ pc' = [pc EXCEPT ![w] = "reply"]
    /\ UNCHANGED <<clientvars, brokervars, inbox, outbox, job, reply, mysql, name, s_cacheonly,
                   stored, unready, result, raced>>

(***************************************************************************)
(* The reply is sent whatever doMsg() returned, after set() and del() have *)
(* logged the table's name, formatted once more.  REQ sockets of ZeroMQ 4  *)
(* discard what is queued on them when they send, older ones keep it; and  *)
(* once the broker has closed its socket the send throws.                  *)
(***************************************************************************)
SendReply(w) ==
    /\ pc[w] \in {"log", "reply"}
    /\ name' = IF pc[w] = "log" THEN TableOf[job[w].key] ELSE name
    /\ outbox' = IF broker = "run"
                   THEN [outbox EXCEPT ![w] =
                           Append(@, [client |-> job[w].client, conn |-> job[w].conn,
                                      n |-> job[w].n, cmd |-> job[w].cmd, body |-> reply[w]])]
                   ELSE outbox
    /\ inbox' \in {inbox, [inbox EXCEPT ![w] = <<>>]}
    /\ job' = [job EXCEPT ![w] = NoRequest] /\ reply' = [reply EXCEPT ![w] = None]
    /\ pc' = [pc EXCEPT ![w] = Onward]
    /\ UNCHANGED <<clientvars, brokervars, redis, mysql, s_cacheonly, history>>
-----------------------------------------------------------------------------
Calling(c) == Receive(c) \/ Retry(c) \/ Abandon(c)

Broking ==
    \/ \E w \in Workers : HandleBackend(w)
    \/ \E q \in frontend : HandleFrontend(q)
    \/ Fini \/ JoinAll

Working(w) ==
    /\ broker # "terminated"
    /\ \/ Ready(w) \/ ReadyThrows(w) \/ Recv(w) \/ RecvFails(w)
       \/ Cache(w) \/ CacheFails(w)
       \/ NoMySql(w) \/ getKVSTableName(w) \/ Query(w) \/ QueryFails(w)
       \/ Fill(w) \/ SendReply(w)

Next ==
    \/ \E c \in Clients :
          \/ \E m \in Commands : Call(c, m)
          \/ CallOnSentSocket(c) \/ Calling(c)
    \/ Broking \/ Interrupt
    \/ \E w \in Workers : Working(w)

Spec == Init /\ [][Next]_vars

(***************************************************************************)
(* The broker polls in a loop, workers run, and a client's poll returns    *)
(* with a reply or with its timeout.  No one need call or interrupt.       *)
(***************************************************************************)
FairSpec ==
    /\ Spec
    /\ WF_vars(Broking)
    /\ \A w \in Workers : WF_vars(Working(w))
    /\ \A c \in Clients : WF_vars(Calling(c))
-----------------------------------------------------------------------------
(***************************************************************************)
(* Type invariant.                                                         *)
(***************************************************************************)
TypeOK ==
    /\ calls \in 0..MaxCalls
    /\ call \in [Clients -> Request \cup {NoRequest}]
    /\ status \in [Clients -> {"idle", "wait"}]
    /\ socket_ \in [Clients -> {"none", "ready", "sent"}]
    /\ conn \in [Clients -> Nat]
    /\ retries_left \in [Clients -> 0..REQUEST_RETRIES]
    /\ arrived \in [Clients -> Seq(Reply)]
    /\ frontend \subseteq Request
    /\ worker_queue \in Seq(Workers) /\ worker_queue_selector \in Nat
    /\ broker \in {"run", "fini", "over", "terminated"} /\ s_interrupted \in BOOLEAN
    /\ pc \in [Workers -> {"new", "failed", "recv", "gone", "cache", "name", "query",
                           "fill", "log", "reply"}]
    /\ inbox \in [Workers -> Seq(Request)]
    /\ outbox \in [Workers -> Seq(Reply \cup {READY})]
    /\ job \in [Workers -> Request \cup {NoRequest}]
    /\ reply \in [Workers -> Values \cup {None, "OK"}]
    /\ name \in Tables \cup {None}
    /\ redis \in [Keys -> Values \cup {None}]
    /\ mysql \in [Tables -> [Keys -> Values \cup {None}]]
    /\ s_cacheonly \in BOOLEAN
    /\ stored \subseteq CallIds /\ unready \subseteq CallIds
    /\ result \in [CallIds -> {"none", "true", "false"}]
    /\ raced \in BOOLEAN /\ failed \in 0..MaxFailures

(***************************************************************************)
(* mycache.cpp, "We got a reply from the server, must match sequence": the *)
(* client does not look at the id in a reply, yet what is on its socket    *)
(* while it waits answers the call it is in, never an earlier one that it  *)
(* sent again or gave up.  This rests on sockets of their own identity and *)
(* does not hold of a named client, whose next socket gets what was meant  *)
(* for the last; the pool and the tests build no such client.              *)
(***************************************************************************)
ReplyAnswersCall ==
    \A c \in Clients \ Named : status[c] = "wait" =>
        \A i \in DOMAIN arrived[c] : arrived[c][i].n = call[c].n

(***************************************************************************)
(* A set() or del() of a client without a name that returned true was      *)
(* executed: MySQL took the statement, unless the service runs without a   *)
(* database or, a set() only, there was no connection to one.              *)
(***************************************************************************)
TrueMeansStored ==
    \A c \in Clients \ Named :
        (call[c].n > 0 /\ result[call[c].n] = "true" /\ call[c].cmd # "get" /\ ~s_cacheonly)
            => \/ call[c].n \in stored
               \/ call[c].cmd = "set" /\ call[c].n \in unready

(***************************************************************************)
(* As long as no two handlers have overlapped and no store has failed, the *)
(* cache is coherent between requests: what Redis has for a key is what    *)
(* MySQL has, in the table the key belongs to and in no other.             *)
(***************************************************************************)
CoherentUnlessRaced ==
    (~raced /\ failed = 0 /\ ~s_cacheonly /\ Busy = {}) =>
        \A k \in Keys :
            /\ redis[k] \in {None, mysql[TableOf[k]][k]}
            /\ \A t \in Tables \ {TableOf[k]} : mysql[t][k] = None

(***************************************************************************)
(* request() returns: on a reply, or when the retries are used up.         *)
(***************************************************************************)
EveryCallReturns == \A c \in Clients : status[c] = "wait" ~> status[c] = "idle"

(***************************************************************************)
(* After a signal the process ends, if every worker it made was started:   *)
(* one that was not keeps its socket and fini() waits for it.  It ends by  *)
(* shutting down, unless a worker has yet to say READY when the signal     *)
(* comes: the exception then may end it.                                   *)
(***************************************************************************)
ShutdownEnds ==
    (s_interrupted /\ \A w \in Workers : pc[w] # "failed")
        ~> \/ broker = "over"
           \/ broker = "terminated" /\ \E w \in Workers : pc[w] = "new"
-----------------------------------------------------------------------------
(***************************************************************************)
(* The inductive strengthening of ReplyAnswersCall and TrueMeansStored.    *)
(*                                                                         *)
(* A worker has a job exactly while it is in a handler.  A client that     *)
(* waits is owed the reply on its present socket; calls are numbered in    *)
(* order, and no two clients are in the same one.                          *)
(***************************************************************************)
Jobs ==
    \A w \in Workers :
        /\ IF w \in Busy THEN job[w] \in Request ELSE job[w] = NoRequest /\ reply[w] = None
        /\ pc[w] = "query" => name \in Tables
        /\ pc[w] = "fill" => reply[w] \in Values

Callers ==
    /\ \A c \in Clients :
         /\ call[c].n <= calls
         /\ status[c] = "wait" => /\ call[c] \in Request /\ socket_[c] = "sent"
                                  /\ call[c].client = c /\ call[c].conn = conn[c]
                                  /\ retries_left[c] > 0
         /\ call[c].n > 0 => \A d \in Clients : call[d].n = call[c].n => d = c
    /\ \A n \in CallIds : n > calls => result[n] = "none"

(***************************************************************************)
(* The messages past the frontend, box by box: what is queued for a worker *)
(* and from it, what it works on, and what has arrived at a client.        *)
(***************************************************************************)
Boxes == ({"inbox", "job", "outbox"} \X Workers) \cup ({"arrived"} \X Clients)

Mail ==
    [b \in Boxes |-> CASE b[1] = "inbox" -> inbox[b[2]]
                       [] b[1] = "job" -> <<job[b[2]]>>
                       [] b[1] = "outbox" -> outbox[b[2]]
                       [] OTHER -> arrived[b[2]]]

(***************************************************************************)
(* A socket of a client without a name has one message at most, wherever   *)
(* that is.                                                                *)
(***************************************************************************)
Same(m, k) ==
    /\ m.n # 0 /\ k.n # 0
    /\ m.client = k.client /\ m.client \notin Named /\ m.conn = k.conn

Sole(B) ==
    \A b, d \in DOMAIN B : \A i \in DOMAIN B[b], j \in DOMAIN B[d] :
        Same(B[b][i], B[d][j]) => b = d /\ i = j

Absent(B, m) == \A b \in DOMAIN B : \A i \in DOMAIN B[b] : ~Same(B[b][i], m)

OneMessagePerSocket ==
    /\ Sole(Mail)
    /\ \A q \in frontend : Absent(Mail, q) /\ \A r \in frontend : Same(q, r) => q = r

(***************************************************************************)
(* No message is from a socket or a call that is yet to come; one of the   *)
(* present socket is there only while a reply is owed, and belongs to the  *)
(* call the client waits in.  What has arrived is of the present socket,   *)
(* except at a named client.                                               *)
(***************************************************************************)
Fits(m) ==
    m.n # 0 =>
        /\ m.n <= calls /\ m.conn <= conn[m.client]
        /\ m.n = call[m.client].n => m.cmd = call[m.client].cmd
        /\ (m.client \notin Named /\ m.conn = conn[m.client]) =>
             /\ socket_[m.client] # "ready"
             /\ status[m.client] = "wait" => m.n = call[m.client].n

MailFits ==
    /\ \A b \in Boxes : \A i \in DOMAIN Mail[b] : Fits(Mail[b][i])
    /\ \A q \in frontend : Fits(q)

ArrivedHere ==
    \A c \in Clients :
        /\ socket_[c] = "none" => arrived[c] = <<>>
        /\ \A i \in DOMAIN arrived[c] :
             arrived[c][i].client = c /\ (c \in Named \/ arrived[c][i].conn = conn[c])

(***************************************************************************)
(* An OK to a set() or del() is true from the moment a handler has it for  *)
(* its reply until the client reads it.                                    *)
(***************************************************************************)
TrueOK(cmd, n, body) ==
    (body = "OK" /\ cmd # "get" /\ ~s_cacheonly)
        => n \in stored \/ (cmd = "set" /\ n \in unready)

RepliesTrue ==
    /\ \A w \in Busy : TrueOK(job[w].cmd, job[w].n, reply[w])
    /\ \A w \in Workers : \A i \in DOMAIN outbox[w] :
         outbox[w][i].n # 0 => TrueOK(outbox[w][i].cmd, outbox[w][i].n, outbox[w][i].body)
    /\ \A c \in Clients : \A i \in DOMAIN arrived[c] :
         TrueOK(arrived[c][i].cmd, arrived[c][i].n, arrived[c][i].body)

(***************************************************************************)
(* The strengthening of CoherentUnlessRaced: which of the two stores the   *)
(* one handler at work is ahead in, stage by stage.  The keys of no job    *)
(* are coherent all the time.                                              *)
(***************************************************************************)
OwnRow(k) == mysql[TableOf[k]][k]

InTurn ==
    (~raced /\ failed = 0 /\ ~s_cacheonly) =>
        /\ \A v, w \in Busy : v = w
        /\ \A k \in Keys : \A t \in Tables \ {TableOf[k]} : mysql[t][k] = None
        /\ \A k \in Keys :
             (\A w \in Busy : job[w].key = k => pc[w] \in {"cache", "log", "reply"})
                => redis[k] \in {None, OwnRow(k)}
        /\ \A w \in Busy :
             /\ pc[w] \in {"name", "query"} =>
                  redis[job[w].key] = IF job[w].cmd = "set" THEN job[w].value ELSE None
             /\ pc[w] = "query" => name = TableOf[job[w].key]
             /\ pc[w] = "fill" => reply[w] = OwnRow(job[w].key)

IInv ==
    /\ TypeOK /\ Jobs /\ Callers
    /\ OneMessagePerSocket /\ MailFits /\ ArrivedHere
    /\ RepliesTrue /\ TrueMeansStored
=============================================================================
