# TLA+ models of tinyworld

This directory keeps the formal models of tinyworld, a C++ library and a set of
small servers for online games: connection pools, asynchronous tasks, RPC over
ZeroMQ, a Redis/MySQL cache service, a table service, a network library.
`PROJECT.json` records, for every definition, the source lines it models, and
for every run, mutant, hazard and theorem what it is about.

    tlc -workers 2 -config MCPool.cfg MCConnectionPool    # check a model
    tlapm PoolProofs.tla                                  # check its proofs

## 1. Inventory

| component | state | operations | interacts with | what makes it hard |
|---|---|---|---|---|
| Connection pool, `common/pool.h` | list of connections with an in-use flag and last use, a counter of connections in use | grab, release, remove, shrink, clear, createAll | every client of MySQL, Redis, mycached; many threads | the limit is tested outside the lock; flag and counter live under two mutexes; waiting callers |
| Asynchronous scheduler, `common/async.*` | ready queue, waiting tasks by id and by time, task trees | emit, run, call, done, timeout, cancel | Redis commands and application code are its tasks | completions nest and re-enter; late replies, timeouts and cancellation race |
| RPC, `common/tinyrpc*` | open calls and timed calls of a client, services of a server | emit, replied, checkTimeout, on, requested | ZeroMQ transport, table service | a late reply against a timeout, lost messages, type mismatches |
| Cache service, `common/mycached.*` | broker's worker list, worker threads, Redis and MySQL contents | get, set, del, route, shut down | cache client, pools, sharding | workers interleave on two stores; one of several steps fails; a static buffer shared by threads |
| Cache client, `common/mycache.*` | REQ socket, retries; asynchronous client | get, set, del, connect, close | cache service, connection pool | a resent request races its first attempt |
| Sharding, `common/sharding.h`, `pool_sharding.h` | shards by number | add, look up by hash, acquire, putback | pools of Redis and MySQL connections | hash space that the shard number does not divide; the way back to a pool is a number the connection may not have |
| Table service, `common/tinytable*` | client: a handler per call; server: tables in memory, in the database, or cached | get, set, del, load | RPC, object mapping | callbacks hold bare handler pointers; cache and database change in two steps; error codes that read as success |
| Object mapping, `common/tinyorm*`, `dataserver/object2db*` | table descriptors; the database | create, update and drop tables, select, insert, replace, update, delete, load | MySQL and SOCI pools | servers of different versions share tables; a table is examined and altered in separate statements; conversions both ways |
| Redis clients, `common/redis*`, `myredis*` | hiredis context, commands in flight | connect, emit, reply, close | event loop, scheduler | a context ends with commands in flight; the pointer to it is shared by callbacks of old and new ones |
| Older scheduler, `common/callback.*` | ready queue, waiting RPCs by id and by time | call, callBySerials, callByParallel, run, triggerCall, triggerTimeout | asynchronous cache client | exceptions out of `run()`; composites that time out with requests under way |
| Multi-level cache, `common/mycache2*` | list of levels | get, set, del | Redis, pools | levels that disagree |
| Network library, `common/net_asio` | client state, socket, timer; acceptor's sessions; buffers | connect, retry, accept, read, write, send, stop, close | servers | handlers of an old socket run after a new one was begun; reads cut anywhere; nothing serializes writes |
| Messages, `common/message*.h` | handlers by name and type code | on, pack, dispatch, reply | serializers | bit fields of the header; two programs declare their structs on their own |
| Serializers and reflection, `common/tinyserializer*`, `tinyreflection.h` | struct descriptions, Protobuf descriptors | property, done, serialize, deserialize | object mapping, messages, table service | integers of one width travel as another; descriptors that fail to build |
| Application frame, timers, `tinyfsm.h` | lifecycle, timers, machine state | init, run, fini, transit | servers | order of start and stop |
| Servers (login, gate, world manager, data) | accounts, users, sessions | login, register, forward | all of the above | check-then-act on shared tables |

Properties that make the modelled components correct: a pooled connection has
one user at a time, the pool is bounded and a shard gets its places back; a task is called, completed and
timed out once and in the order its tree says, and trees end; a call has
exactly one callback and the callback tells the truth; a cache reply answers
the call it is delivered to, an acknowledged write was executed, and the two
stores agree as far as the code makes them agree; a table call ends once and a
get brings the row; a program reads back the object it stored whatever other
versions do to the table; a connection that broke comes back or is let go of
with its socket closed; a message is handled whole, once and in order, and its
handler sees the object that was sent.

## 2. Modules

| module | models | extends / uses |
|---|---|---|
| `ExclusiveLease` | abstract: what a pool promises | |
| `ConnectionPool` | `ConnectionPool`, `ConnectionPoolWithLimit`, `ScopedConnection` | refines `ExclusiveLease` |
| `ShardingPool` | `Sharding`, `ShardingConnectionPool`, its Redis and MySQL instances | |
| `PoolProofs` | theorems of both pools | `MCConnectionPool` |
| `AsyncScheduler` | `AsyncTask` and its subclasses, `AsyncScheduler` | |
| `AsyncSchedulerProofs` | its theorems | `AsyncScheduler` |
| `TinyRPC` | RPC client, dispatcher and server over ZeroMQ queues | |
| `TinyRPCProofs` | its theorems | `TinyRPC` |
| `MyCache` | `MyCacheClient`, `MyCacheServer`, `MyCacheWorker` and its handlers | |
| `MyCacheProofs` | its theorems | `MyCache` |
| `TinyORM` | table descriptors, SQL statements, the database | |
| `TinyMySqlORM`, `TinySociORM`, `Object2DB` | the operations of the three mappings | `TinyORM` |
| `ORMCluster` | programs with different mappings and versions on one database | the three mappings |
| `ORMClusterProofs` | its theorems | `ORMCluster` |
| `TinyTable` | `TableClient` and its handlers, `TableServer` and the three kinds of tables | |
| `TinyTableProofs` | its theorems | `TinyTable` |
| `NetAsio` | `Client`, `Connector`, `Acceptor`, `Session`, `ConnectionManager` | |
| `NetStream` | `Connection::send`, `readMessages`, the Protobuf dispatcher | |
| `NetAsioProofs` | theorems of `NetAsio` and `NetStream` | `MCNetStream` |
| `TinySerializer` | reflection, Protobuf mapping, dynamic serializers | |
| `MessageDispatch` | message header, packing, dispatch by name and by type | `TinySerializer` |
| `AsyncRedis` | `AsyncRedisClient`, `RedisCommand` over hiredis | |
| `AsyncMyCache` | `AsyncMyCacheClient` on `AsyncRPCScheduler` | |
| `AsyncClientsProofs` | theorems of both asynchronous clients | `MCAsyncClients` |
| `MC...` | instances for TLC; `MCAsyncClients` has both asynchronous clients, `MCConnectionPool` a single and a sharding pool, `MCNetStream` the messages of a connection beside the others, which stand still | |

Operators that only occur in mutants (`NeverFull`, `ConcludeOne`,
`RetryOnSameSocket`, ...) stand before the definition they vary: each is the
definition with a plausible mistake in it, and `PROJECT.json` says which
property notices.

### ConnectionPool

A thread is in one of six places: `out` (no call, nothing held), `check` (at
the limit test), `count` (past it, before `++conns_in_use_`), `base` (before
`Base::grab()`), `use` and `uncount` (between `Base::release()` and
`--conns_in_use_`). Each critical section of `pool.h` is one action, so the
windows between the two mutexes are there. `createAll()` is a thread with goal
`conns_max_`. Entries whose `create()` failed are the counter `nulls`: they
carry no connection, stay in use for ever and differ in nothing else. An entry
in use sorts below every free one, free ones by last use, hence `MRU`. The grab
wait time (for ever, none, bounded) is chosen at the start. `Remove` is enabled
while a thread holds the connection, as the comment of `remove()` has it.

### ShardingPool

Start-up adds the shards in any order, as `addShardings()` (which gives up at the
first that is refused) or one by one, tests `isReady()` and visits each shard or,
as `initMySQL()` does by mistake with its own pool, none. Then threads ask for
hashes. A connection is known by the shard number it carries: `NewShard` is where
Redis and MySQL differ. A MySQL connection whose `connect()` failed carries none,
so `putback()` does not find its pool; `broken` counts such entries, which stay in
use. mysqlpp's pool, which is external, may drop idle connections when one is
grabbed. Of a pool's steps only the unlocked test of the limit is kept apart; the
others are in `ConnectionPool`.

### AsyncScheduler

One thread executes `run()` and the completions; others only emit. Completion
calls the parent, which may call or complete more tasks, so the loop thread has
an explicit call `stack`, one action per frame up to its next call. The forest
is a parameter: leaves answered from outside, tasks that complete in `call()`,
tasks that emit another tree and are done when it is, series and parallels.
`Cancel` is `triggerCancel()` from any callback, for a task in any state: it only
forgets children and leaves `queue_wait_`, so a task that is still ready, or that
a series has still to call (`CallFirst`, after `on_call_`), is called and completed
all the same.
Time is abstract: a task's timeout passes at some moment (`Elapse`), and `run()`
looks at its waiting tasks in order of creation.

### TinyRPC

Per client a queue to and from the server, messages may be lost, and timeouts
pass at any time. Names of request and reply types and whether a body parses
(`good`, `bad`) or is `empty` are the data. `pack()` of an empty body leaves the
request blank, as in the code, which sends it all the same: the server answers
id 0, which ends no call. A handler or deserializer at the server may throw
(`ServeThrows`): `zmq_server.h:138` logs it and sends nothing, so that only a
timeout ends such a call.

### MyCache

A client call is `Call`, then `Receive`, `Retry` or `Abandon`. A socket is
identified by client and number, as the identity ZeroMQ gives it is; replies to a
socket that is gone are dropped by the broker's ROUTER socket. A client built with
an id (`Named`) gives each of its sockets that id as identity (`mycache.cpp:103`):
a reply to an earlier one then reaches the present one, or is dropped when the
ROUTER refused the second peer of that identity (`Route`). `CallOnSentSocket` is
the call after an abandoned one: the REQ socket refuses to send, the exception
closes it. In the broker `HandleBackend` and `HandleFrontend` are the two halves
of the poll loop. A worker's handler is `Cache` (Redis), `getKVSTableName` (the
static buffer), `Query` (MySQL, with the table the buffer names at that moment),
`Fill` and `SendReply`; each may fail where the code has a branch for it. What
ZeroMQ does with requests queued on a REQ socket that sends depends on its
version, so `SendReply` leaves both outcomes open; `Call` does the same with
replies that came while nothing was asked. READY is sent outside the worker's try
block, so a worker that the signal finds before it may end the process
(`ReadyThrows`). The history variables
`stored`, `unready`, `result`, `raced` and `failed` only serve properties.

Two simplifications, both sound: reading the buffer and executing the statement
are one step, because another thread's formatting commutes with the statement;
and the name logged after a `set` or `del` is formatted with the reply.

### TinyORM, its mappings and ORMCluster

The database is a function from table names to columns and rows; a row maps
columns to cells. Every SQL statement a mapping sends is one step, so
`updateTable()` is several (show the tables, describe, one ALTER per missing
field) and other programs act between them; `missing` has the places in
`fields_ordered_` of the fields still to add, the least of which is next. A statement the database refuses
throws; a connection may also be lost before or after the statement was
executed. Conversions are modelled by what they lose: a float is a FLOAT column
(`tinyorm.cpp:27`), of which MySQL gives back six digits whatever mapping wrote and
reads it (`Text`); two of the mappings also print doubles with six digits when they
write (`Printed`), SOCI binds them; an empty serialized object is skipped when read by one, a NULL cell throws in SOCI and reads as the text NULL
in `Object2DB`. `written` remembers which program stored what.

### TinyTable

A call makes a handler and sends a request; `Deliver` and `rpc_timeout` run the
handler's callbacks and remove it. What `TinyRPC` shows of a call is the
interface: one answer at most, or a timeout. The server's table is one of the
three kinds, or missing, in which case the reply goes out with its code unset.
A key or an object that does not parse is refused (`Refuse`), or `deserialize()`
throws (`DeserializeThrows`): the tables with a memory swallow that for a set and
store the part they read, all others leave the call without an answer.

### NetAsio and NetStream

`NetAsio` has one client with its resolver, socket and retry timer, and the
sessions accepted for it. An asynchronous operation is in progress, then
complete with its handler in `ready`, then handled; handlers of the client run
in order on its thread, other threads send, answer, stop and close between
them. The user's thread is in `connect()` at first (`user`), and sets the state
(`connect_returns`) when handlers may already have run; `outrun` remembers that
one of them had closed the client. A read that ends inside a message holds the
thread for ever: `spinning` for the client, and for the server the set `stuck` of
what is served by a held thread, which may be any sessions and `handle_accept()`
besides the session that read. `handle_accept()` is two steps, because the
session's own thread may read before its state is set; on a closed acceptor it
fails and is started again without end. `NetStream` takes one connection while it lives: pieces of messages on
the wire, the reader's buffer, the loop of `readMessages()` with all its exits,
the strand. Bytes of two interleaved writes are not interpreted: the receiver
then closes or spins.

### TinySerializer and MessageDispatch

Writer and reader describe their structs on their own, property by property,
and `done()` builds a Protobuf descriptor, which a message with an invalid or
doubled number does not get and nobody is told. Values are serialized by type,
with integers of 2 and 3 bits on a wire of 4 in place of 8 and 16 on 64; the
header's size field has 2 bits in place of 24. A body whose size does not fit is
parsed from its first bytes: some of its fields.

### AsyncRedis

A context is connecting, connected, closing or free, with the commands handed to
it; the server executes them in order and replies travel back, until the
connection breaks. `run` and `call` are the scheduler's pass, entered by the
event loop's timer; hiredis' callbacks are actions of their own. Undefined
behaviour in callbacks (a freed reply, a NULL context) ends the model in
`crashed`.

### AsyncMyCache

`run()` of the older scheduler is its check of timeouts, one entry at a time,
and then the requests of the ready queue in one step under its lock; sending may
throw, which leaves the queue as it was. A reply goes through `triggerCall()`
and the composite's `childCalled()` in one step, as it is one stack of calls.

## 3. Runs

| run | configuration | shows |
|---|---|---|
| `pool` | 2 threads, 3 connections, limit 2, one failing kind of everything | `HeldIsSafe`, `CounterBounds`, `PoolBounded`, `LeaseSpec` (refinement), `PlacesAreTaken` (liveness) |
| | or 2 threads on 2 or 3 shards, 4 hashes, limits 1 and 2, connects that fail, a shard named twice or not at all | `PlacesAreKept`, `KeyServed` (liveness) |
| `async` | a forest of thirteen tasks, timeouts, losses, cancellation from callbacks | `AtMostOnce`, `PartsInOrder`, `NotifiedParentWaits`, `LateReplyDropped`, `EveryTreeEnds`, `TimedTasksEnd` |
| `async_next_tick` | a composite of two tasks | **violation** of `ParentTimesOut` |
| `rpc` | 2 clients, 2 calls of any of 5 kinds, 3 services | `OneCallback`, `NoStrayTimeout`, `CallbackTellsTruth`, `TimedCallEnds`, `PackedCallEnds` |
| `cache` | 2 workers, 2 calls, each sent up to twice, 2 keys in 2 tables, 1 store failure | `ReplyAnswersCall`, `TrueMeansStored`, `CoherentUnlessRaced` |
| `cache_ends` | the same with signals and workers that did not start, one command, a client with an id | `EveryCallReturns`, `ShutdownEnds` |
| `orm` | 3 programs, one per mapping, of different versions, 1 table, 2 keys, 4 calls, 1 failure | `ReadBack`, `UpdatedMeansColumns` |
| `table` | each kind of table, 3 calls, lost and late messages, 1 failing statement, a key and an object that do not parse | `HandlerWhileOpen`, `GetAnswersRow`, `EveryCallEnds` |
| `net` | a reconnecting client, 2 sessions, 2 resolutions at a time, 1 send, 2 faults | `NeverStranded`, `LetGoMeansClosed`, `Reconnects`, `SessionEnds` |
| `stream` | 3 messages of each kind, 2 writes at a time, both receivers | `HandledAsSent`, `EveryMessageHandled` |
| `message` | a writer and a reader with up to 2 of 8 properties each, by name and by type | `HandlerSeesRequest` |
| `async_clients` | Redis: a SET, a DEL, a GET, 3 contexts, 2 faults; cache: a series and a parallel of 2, timeouts, 1 loss, 1 request that cannot be sent | `ContextIsAlive`, `SeesOwnWrites`, `EmittedEnds`; `OutcomeIsFinal`, `TimedRpcEnds` |

Each module's `TypeOK` documents its variables; it is proved, alone or as a part of
the inductive invariant, in every module that has theorems.

### Bounds, and why they are enough

* Pool: two threads are enough for every window between two critical sections;
  the limit 2 lets `createAll()` hold one connection and wait for the next; a
  third connection shows growth past the limit. Threads call for ever; one tick
  of the clock tells connections released early and late apart.
* Sharding: two shards divide four hashes and three do not, which are the two
  cases of `getShardByHash()`; the default limit 1 is lost with one failed connect,
  the limit 2 with two.
* Scheduler: the forest nests a parallel in a series in an emitted tree in a
  parallel and has each kind of task, so every pair of frames that can follow
  each other on the stack does.
* RPC: two calls let the replies of one client be confused, two clients those
  of different ones; ids are handed out once, so more calls add only more of
  the same pairs.
* Cache: with one client, resending already makes handlers overlap, on one key
  and, with the second call, on two; `REQUEST_RETRIES` is 2 instead of 3, which
  keeps the resend and the abandonment.

* Object mapping: three programs are one per mapping; a program that adds a
  field to another's rows, and one that drops the table, need two; four calls
  are create, write, alter, read. SOCI's program and TinyMySqlORM's share a float and
  an object, Object2DB's and SOCI's a double; the values stored are not what six
  digits print of them. Keys are interchangeable (symmetry).
* Tables: three calls are a read that fills the cache, a write or delete, and
  the read after it.
* Network: two sessions are the one that broke and its successor; two faults
  break the second attempt as well, or let a write fail (the one send, from either
  end) after the first start() was late. A message has three pieces, so that a read
  may end inside a header and between header and body.
* Messages: two properties suffice for every clash of names and numbers on one
  side; one may be declared after `done()`.
* Asynchronous clients: three contexts are one that ends slowly, its successor
  and that one's; both composites and one child have a timeout, so that a child
  times out before and with its parent.

### Fairness

* Pool: a thread in a call goes on with it, and puts back what it holds: the
  users are `ScopedConnection` guards whose destructor does. The same holds for
  the sharding pool and its three guards. Nothing is assumed of who gets a place
  that comes free: waiters poll (`pool.h:272`), so that others may take every place
  before one of them. Hence `PlacesAreTaken` and `KeyServed` promise that a waiter
  gets its place or that somebody else takes one, not that each waiter is served.
* Scheduler: the loop thread runs, threads emit, timeouts pass, and a reply that
  is not lost is read at some point (strong fairness, as the loop alternates
  between `run()` and the delivery of replies). Nobody need cancel.
* RPC: client and server poll in a loop and the client checks timeouts in it;
  time passes. Messages need not be lost, or delivered to a client that stopped.
* Cache: the broker polls with a 100 ms timeout, workers run, and a client's
  poll returns with a reply or with its timeout. Signals and calls need not come.

* Tables: timeouts that are due are run by a client that polls; nothing else is
  needed for `EveryCallEnds`.
* Network: `connect()` returns, io threads that are not held run handlers, timers
  fire, operations complete, an open acceptor accepts; workers dispatch what is on a
  strand.
* Asynchronous clients: their loop runs, time passes, and connections are made
  and served unless they fail.

`EmittedEnds` and `TimedRpcEnds` are stated as `<>[]` of "everything that was
started has ended": what is started and what has ended only grow, so this says
of each call what a leads-to would.

`CHECK_DEADLOCK FALSE` is in every configuration: the bounds on calls are used
up at some point, and a quiet system is a legal end of all of them.

## 4. Findings

`async_next_tick`: "this will timeout next tick" is not true of a composite
without a timeout of its own (`async.cpp:151`): only tasks that entered
`wait_by_time_` when they were called are ever looked at.

Other places where the models do what a comment excludes, found in earlier
configurations of the same modules and not kept as runs:

* `pool.h:272` tests the limit without the lock, so the pool grows past "pool
  maximum size". `CounterBounds` and `PoolBounded` say by how much at most, and
  are proved.
* `pool.h:111`: `remove()` never gives back the place it frees in
  `conns_in_use_`, the "Number of connections currently in use".
* `async.cpp:301`: a task that is done is timed out later, because only one of
  the two waiting maps forgets it; `redis_cmd.h` calls that state "No reply,
  timed out".
* `async.cpp:146`: a series of tasks that complete in `call()` is done twice, and
  a parallel task that was cancelled is done whenever one of its tasks completes.
  The emitting task or parent of such a task is then completed again too, or is
  gone when it is notified. `AtMostOnce` and `NotifiedParentWaits` except what has
  such a series (`Steady`) or a cancelled task among its parts, the latter also a
  parent that timed out, and nothing else; that a task is called once has no
  exception. The run has all of these.
* `mycache.cpp:166`: the reply "must match sequence", but nothing compares it, and
  a client built with an id can take the reply to an earlier attempt for the answer
  to a later call (`ReplyAnswersCall` is about clients without an id).
* `mycached.cpp:678`: the broker does not pop workers, as the comment over its
  loop says, so requests queue at a busy one while another is free.
* `tinyorm_mysql.in.h:33`: `showTables()` turns names to upper case, so a table
  with a lower-case name is never updated by `updateTables()`, "更新所有表格的结构".

Behaviours that no document contradicts and that the models show all the same
are recorded as hazards: a cache left stale by a `get` that fills it with a row
somebody has just replaced, the place of a MySQL connection that could not
connect, which its pool never gets back (with the default limit the next caller
of the shard waits for ever, also when the server has returned), rows written to another key's table, a `set`
acknowledged with no database, a shutdown that waits for the socket of a worker
that was never started, a process that a signal at start-up terminates by an exception
(`mycached.cpp:374`), a call with an empty body that never ends, a receiver
that spins on half a message and stops every connection of its thread, a client
that is Resolving for ever because its resolution failed before `start()` had set
that state (`client.cpp:55`), objects that `TinyCacheTable` goes on returning
after their row was deleted, properties that are left out of every message
because a descriptor could not be built. Where a property has to except such a
case, its comment names it.

## 5. Theorems

Proved by TLAPS for every value of the constants allowed by the named
assumptions (`PoolAssumption`, `TreeAssumption`, `RPCAssumption`,
`CacheAssumption`, `ORMAssumption`, `TableAssumption`, `NetAsioAssumption`,
`StreamAssumption`, `AsyncRedisAssumption`, `RpcAssumption`) and one hypothesis
(`ShardConfig`): any finite set of threads, any limit, shards and hashes; any
forest of tasks whose ranks and roots fit together; any clients, call shapes and
services, workers, programs with any descriptors, keys, tables, sessions,
commands and connections; any number of messages; any number of RPCs in any composites; and any value of
the bounds on calls and failures. The assumptions type the constants, keep the
model's markers (`NoTask`, `None`, `Nobody`, `Blank`, `Absent`, `""`, `"nobody"`)
apart from the values they stand beside, and say that a forest is one and that a
stored row can be read back; TLC evaluates each on the runs of its component. Two
say something of the code that uses the components:

* `ORMAssumption`: no descriptor has a field twice, as MySQL refuses to create a
  table with a doubled column;
* `RpcAssumption` (`CallShapes`): what a composite is made of are requests, since
  `callBySerials()` and `callByParallel()` of the client cast them to
  `MyCache::RPC` (`mycache.cpp:394`), and a request is in one composite, since it
  has one `parent` pointer.

**PoolProofs.** Of the single pool `TypeCorrect`, `HeldIsAlwaysSafe`,
`CounterIsBounded`, `PoolIsBounded`, and `PoolLeases`, the safety part of the
refinement: every step of the pool is a step of `ExclusiveLease` or a stutter.
The bounds are not inductive by themselves: what the counter counts is spread
over the threads. The inductive invariant therefore adds to the entries in use
and the NULL entries the threads that are between counting and grabbing or
between releasing and uncounting, says that their sum is at most the counter, and
that the counter together with the threads past the test is at most the limit
plus the other threads. Cardinality facts come from `FiniteSetTheorems`.

Of the sharding pool `PlacesAlwaysKept` (`PlacesAreKept`): the counter of each
shard is the number of threads that hold a connection carrying its number, plus
its broken entries. Its hypothesis `ShardConfig` types the constants: finitely
many threads, shard numbers that are naturals, lists of well-formed addresses. The property is
inductive only together with `Places`: threads run only after start-up, a thread
in `acquire()` is at a pool that exists, and a connection carries the number of
its own pool or none, so that `putback()` cannot reach a wrong pool.
`HashHasShard`: every hash before the remainder of the hash space by the number of
shards lies in the slice of one of the shards `isReady()` asks for.

**AsyncSchedulerProofs.** `CalledOnce` (`triggerCall()` reaches a task at most
once), `OneByOne` (`PartsInOrder`) and `LateRepliesAreDropped` (the action
property `LateReplyDropped`), in every forest. The invariant speaks of the whole
stack of nested calls: a task is at one place of the queues, on one frame or in
what one frame has still to call (`QueuedOnce`, `FramedOnce`); a frame that
completes a task finds its parts completed, and a leaf neither timed out nor
withdrawn (`FramesOK`); `children_` forgets only what is done, or everything when
the task is cancelled (`ChildrenOK`); a task that was begun is the first its
series still waits for (`Begins`); what waits was called and is not over
(`Waits`). All of it holds whenever a callback cancels. That a series which still
waits has a first task rests on the well-ordering of the naturals, from
`WellFoundedInduction`.

`CompletedOnce` (`AtMostOnce`: call and done each at most once) and
`ParentsAreKept` (`NotifiedParentWaits`: the parent a completion notifies is still
kept by the scheduler) hold in every forest too, with the two exceptions of
section 4 in the properties themselves. For a steady task `t` let `D` be all that
takes part in its completion, the trees its emitting tasks emit included
(`PartsOf`); `OnceInv(D)` is an invariant. Calls and completions happen at the top
of the stack only (`OnTop`), and as long as nothing of `D` was cancelled: since the
stack was last empty, whatever was called and is already done was sudden, so a
series that is interrupted in the middle of its parts has one left to wait for
and is not found empty a second time (`Sessions`); a task on its way to `done()`
has not been there (`DoneOnce`); a part that is not done is still in its parent's
`children_` and the parent is not done before it has heard of all of them
(`PartsWaitedFor`); a task stays in `queue_wait_` until it is done or timed out
(`KeptWhileOpen`).

**TinyRPCProofs.** `EachCallHasOneCallback`, `NoHolderStrays` and
`CallbacksAreTrue`. `Calls` says that a client's maps hold only ids that were
given to that client and have had no callback, and that an id that was not given
out has none: from that a reply or timeout that ends a call finds it open.
`Wire` follows a call through the queues: its request is under way at most once
and unserved, and a reply tells the truth on the wire and ever after.

**MyCacheProofs.** `AnswersMatchCalls` (`ReplyAnswersCall`),
`TrueResultsAreStored` (`TrueMeansStored`) and `TurnsKeepCoherence`
(`CoherentUnlessRaced`). The first two are about clients built without an id, among
clients with and without one. The heart of the invariant is `OneMessagePerSocket`: of
all the queues between a client's socket and the workers, and what workers have
in hand, at most one place holds a message of a socket of an unnamed client, request
or reply; with
`MailFits` (it belongs to the call the socket was opened for) the reply a client
receives can only be its own, although requests are resent and workers answer in
any order. `RepliesTrue` carries the truth of a reply from the handler to the
client. For coherence `InTurn` says, stage by stage of the one handler at work,
which of the two stores is ahead.

**ORMClusterProofs.** `StoredIsReadBack` (`ReadBack`), `UpdatedHasColumns` (the
action property `UpdatedMeansColumns`), in any number of programs of any mappings and
versions: what one stored is read by all of them, as far as they have the members.
`ReadBack` follows from where the last object stored under a key is:
the table has the columns of the program that wrote it and its row has in them
what that program's conversion made of the members (`StoredIsThere`), whatever
others add to the table or write to other keys. For that every row has every
column of its table (`RowsHaveColumns`), across ALTER statements too.
`UpdatedMeansColumns` is about statements in between which others act: until
somebody drops the table a task works on, each field of its descriptor is a
column or still to be added (`Described`); until it is disturbed in any other way,
the fields to be added are no columns, the tables it has not come to exist just
if it has seen them, and those it has finished have all columns
(`Undisturbed`). `TypeCorrect` takes in addition that a task is at a table when it
misses fields (`Misses`). The three mappings differ in when a call throws and
in what its statements do to a cell, so the proof first says what their steps
have in common (`OneCall`, with `MySqlCall`, `SociCall` and `ObjCall` as the lemmas
that each mapping's step is one), and the invariants are proved of that.

**TinyTableProofs.** `HandlersLiveAsLongAsCalls` (`HandlerWhileOpen`) and
`GetsAnswerRows` (`GetAnswersRow`). `Emitted`: a call's request is at the server
or its reply under way, never both, and it is served once; `Right`: a reply to a
get is right about the row as it was when it was served; `MemoryIsTrue`: the
cached objects are the rows, except for the keys a failed statement or a deletion
made stale.

**NetAsioProofs.** `ClientIsNeverStranded` (`NeverStranded`) and
`NoSessionIsLeftOpen` (`LetGoMeansClosed`). The second is inductive together with
the type invariant; for the first the window of the first `start()` is needed
(`Alive`): while the user's thread is in it, what it began is under way, unless a
handler closed the client since, or holds the thread.

Of the messages on a connection `HandledOnceInOrder` (`HandledAsSent`). The pieces
of all messages are numbered in the order they were sent (`Place`). As long as no
two writes are mixed, what the receiver has in its buffer, what is on the wire and
what the writes in progress still have follow on each other without a gap, from
the end of the messages consumed (`Consumed`, `Unwritten`); what was made of the
consumed messages waits on the strand, in order, behind what was handled
(`Posted`). How many messages one call of `readMessages()` takes depends on what
the read brought, so that the step of the reader needs an induction over the
rounds of its loop (`RoundsIs`); it is stated over a set of naturals (`Induction`),
which the well-ordering of `WellFoundedInduction` gives. The theorem is about the
behaviours of the run's composition, `StreamSpec`, in which the connections of
`NetAsio` take no steps: neither module reads the other's variables.

**AsyncClientsProofs.** Of the Redis client `CommandsGoToLiveContexts`
(`ContextIsAlive`) and `ReadsSeeConfirmedWrites` (`SeesOwnWrites`). A context that is not `context_` and
not free was closed by `close()` (`OthersWereClosed`); a command is in one queue
or with one connection, once (`HeldOnce`); what was sent waits or timed out
(`SentWaits`). For the reads: the server answers a connection's commands in the
order they were sent (`InTurn`), a command that was confirmed is nowhere where it
could still be executed (`ConfirmedIsOver`), so whatever is executed later, also
over a connection that broke long ago, was not confirmed before any write; the
key, and each reply under way, are thus never older than a confirmed write
(`KeyIsNew`, `RepliesAreNew`).

Of the cache client `OutcomesAreFinal` (`OutcomeIsFinal`): as long as every
request could be sent, an RPC is called or times out, once, whatever comes next,
and a composite that is called or times out leaves none of its parts open. It is
proved of the program of the run, in which either client is used and the other
one idle; each of its behaviours is one of either client alone
(`EachClientAlone`). The invariant has three parts: what the place of a call in
the queues says of its outcome (`CallOK`), that a part is not requested before its
composite and is waited for until it is called or the composite ends (`PartOK`),
and that a series requests only the first of those it still waits for, all of
which come after what it has called (`SeriesOK`).

Each of these modules also proves its `TypeOK`, alone or as a part of its
inductive invariant. The inductive invariants were checked by TLC before they
were proved, with the constants of the runs and with others. They stand at the end of
the module they are about, except where they are the properties themselves.

Only model-checked:

* all liveness (`PlacesAreTaken`, `KeyServed`, `EveryTreeEnds`, `TimedTasksEnd`,
  `TimedCallEnds`, `PackedCallEnds`, `EveryCallReturns`, `ShutdownEnds`,
  `EveryCallEnds`, `Reconnects`, `SessionEnds`, `EveryMessageHandled`,
  `EmittedEnds`, `TimedRpcEnds`): the prover does not handle fairness and
  `ENABLED`;
* `HandlerSeesRequest`, which rests on what narrowing an integer modulo `2^n`
  and sorting the members of a set give: the provers know nothing of powers, and
  the sorted sequence is a choice by a comparison given as a parameter.

## 6. Not modelled

Contents and formats of messages and SQL text, logging, statistics, `clone()`
of tasks, the command line of mycached, and the components listed in
`PROJECT.json` as not modelled:

* the hash functions: a thread of `ShardingPool` asks for any hash; `MyCache`
  takes a connection per worker and store as given;
* the multi-level cache: it is a list of calls of the caches below it, each of
  which has its module;
* the application frame, timers and `tinyfsm.h`: thin loops around the
  components above;
* the servers: demonstrations of the libraries, with hardly any state yet;
* URL and XML parsing, logging, generated code, tools and tests.

Within modelled components: a NULL Redis connection in mycached
(`initRedis()` insists on all shards and each worker has a pool of its own, so a
connection object is always there, connected or not); RPC callbacks that emit
further calls while a map is iterated over (`tinyrpc_client.h:196`), which
would need iterators in the model; RPC callbacks that throw, so that the holder
they belong to is not erased (`tinyrpc_client.h:184`, `196`) and may call back
again; tables without a primary key; composites
inside composites of the older scheduler; the older Redis clients
(`myredis*`), which `redis.cpp` replaces.

## 7. Plan

1. `TinyTable` over an instance of `TinyRPC` in place of its interface.
2. `MyCache` over `ShardingPool`, so that a worker can hang on a lost place.
