---------------------------- MODULE ShardingPool ----------------------------
(***************************************************************************)
(* common/sharding.h and pool_sharding.h: a pool of connections for each   *)
(* shard, found by the hash of a key, with its two instances, Redis        *)
(* (myredis_pool.cpp) and MySQL (tinymysql.cpp, mydb.cpp).                 *)
(*                                                                         *)
(* putback() finds the pool by the number that the connection itself       *)
(* carries.  A Redis connection has it from its URL; a MySQL connection    *)
(* only once connect() succeeded, and create() returns the connection in   *)
(* any case.                                                               *)
(*                                                                         *)
(* A pool is one of ConnectionPool.tla that waits for ever: here grab() is *)
(* the unlocked test of the limit and a second step, release() is one.     *)
(***************************************************************************)
EXTENDS Integers, FiniteSets

CONSTANTS
    Threads,    \* the threads of the process
    M,          \* number of hash values, 2^32 in the code
    ShardNums,  \* setShardNum()
    UrlLists    \* sets of URLs a program is configured with

VARIABLES
    kind,       \* "redis" or "mysql"
    shardnum_,
    urls,       \* URLs still to be added
    phase,      \* "adding", "starting", "running" or "over"
    toinit,     \* shards init() has still to visit
    shards_,    \* the pool of each shard
    pc, hash,   \* where each thread is, and the hash it asks for
    from,       \* the pool its acquire() is in or its connection is from
    conn        \* shard() of the connection it holds

startvars == <<kind, shardnum_, urls, phase, toinit>>
vars == <<kind, shardnum_, urls, phase, toinit, shards_, pc, hash, from, conn>>

NoShard == -1

Init ==
    /\ kind \in {"redis", "mysql"}
    /\ shardnum_ \in ShardNums /\ urls \in UrlLists
    /\ phase = "adding" /\ toinit = {}
    /\ shards_ = [s \in {} |-> 0]
    /\ pc = [t \in Threads |-> "out"] /\ hash = [t \in Threads |-> 0]
    /\ from = [t \in Threads |-> NoShard] /\ conn = [t \in Threads |-> NoShard]

-----------------------------------------------------------------------------
(***************************************************************************)
(* Start-up: one thread adds the shards, one by one, and then visits them. *)
(* A pool has idle entries, entries in use and, among the latter, broken   *)
(* ones, whose connection carries no shard.  maxconn=0 leaves the limit 1. *)
(***************************************************************************)
setServerAddress(u) ==
    [conns_max_ |-> IF u.maxconn > 0 THEN u.maxconn ELSE 1,
     conns_in_use_ |-> 0, idle |-> 0, broken |-> 0]

addShard(u) ==
    IF u.shard = NoShard \/ u.shard \in DOMAIN shards_ THEN shards_
    ELSE [s \in DOMAIN shards_ \cup {u.shard} |->
             IF s = u.shard THEN setServerAddress(u) ELSE shards_[s]]

isReady == \A i \in 0 .. shardnum_ - 1 : i \in DOMAIN shards_

\* initRedis() and initMySQL() go on when addSharding() returned false.
addSharding(u) ==
    /\ phase = "adding" /\ u \in urls
    /\ urls' = urls \ {u}
    /\ shards_' = addShard(u)
    /\ UNCHANGED <<kind, shardnum_, phase, toinit, pc, hash, from, conn>>

\* addShardings() gives up and removes what it had added.
addShardingsFails(u) ==
    /\ phase = "adding" /\ u \in urls
    /\ addShard(u) = shards_
    /\ phase' = "over" /\ shards_' = [s \in {} |-> 0]
    /\ UNCHANGED <<kind, shardnum_, urls, toinit, pc, hash, from, conn>>

\* initMySQL() initializes the Redis pool once more and not its own.
Ready ==
    /\ phase = "adding" /\ urls = {}
    /\ IF isReady THEN /\ phase' = "starting"
                       /\ toinit' \in {0 .. shardnum_ - 1, {}}
                  ELSE phase' = "over" /\ UNCHANGED toinit
    /\ UNCHANGED <<kind, shardnum_, urls, shards_, pc, hash, from, conn>>

-----------------------------------------------------------------------------
(***************************************************************************)
(* create(): the number the new connection carries.                        *)
(***************************************************************************)
\* A mistake PlacesAreKept finds: RedisClient takes its shard at connect() too.
NewShardIfConnected(s, connected) == IF connected THEN s ELSE NoShard

NewShard(s, connected) == IF kind = "mysql" /\ ~connected THEN NoShard ELSE s

(***************************************************************************)
(* Base::grab(): an idle connection, or else a new one.  mysqlpp's pool    *)
(* first destroys connections that were idle for max_idle_time().          *)
(***************************************************************************)
KeptIdle(p) == IF kind = "mysql" THEN 0 .. p.idle ELSE {p.idle}

Grab(s, kept, connected) ==
    LET p == shards_[s]
    IN  IF kept > 0
        THEN [p EXCEPT !.conns_in_use_ = @ + 1, !.idle = kept - 1]
        ELSE [p EXCEPT !.conns_in_use_ = @ + 1, !.idle = 0,
                       !.broken = IF NewShard(s, connected) = s THEN @ ELSE @ + 1]

Got(s, kept, connected) == IF kept > 0 THEN s ELSE NewShard(s, connected)

(***************************************************************************)
(* putback() of a connection that carries shard c, to a pool in state p.   *)
(***************************************************************************)
Release(p) == [p EXCEPT !.conns_in_use_ = @ - 1, !.idle = @ + 1]

\* init(): a connection by shard, put back at once.
init(s, connected) ==
    /\ phase = "starting" /\ s \in toinit
    /\ toinit' = toinit \ {s}
    /\ shards_' = [shards_ EXCEPT ![s] =
                      LET p == Grab(s, shards_[s].idle, connected)
                      IN  IF Got(s, shards_[s].idle, connected) = s THEN Release(p) ELSE p]
    /\ UNCHANGED <<kind, shardnum_, urls, phase, pc, hash, from, conn>>

Run ==
    /\ phase = "starting" /\ toinit = {}
    /\ phase' = "running"
    /\ UNCHANGED <<kind, shardnum_, urls, toinit, shards_, pc, hash, from, conn>>

-----------------------------------------------------------------------------
(***************************************************************************)
(* getShardByHash(): the hash space is cut into shardnum_ slices.  If      *)
(* shardnum_ does not divide M the last M % shardnum_ hashes have no shard.*)
(***************************************************************************)
\* A mistake KeyServed finds: the slices are cut one too small.
SliceOfMore(n) == M \div (n + 1)

Slice(n) == M \div n

getShardByHash(h) == h \div Slice(shardnum_)

Ask(t, h) ==
    /\ phase = "running" /\ pc[t] = "out"
    /\ pc' = [pc EXCEPT ![t] = "lookup"] /\ hash' = [hash EXCEPT ![t] = h]
    /\ UNCHANGED <<startvars, shards_, from, conn>>

\* acquireByHash(), acquireByKey(): NULL if there is no pool.
Lookup(t) ==
    /\ pc[t] = "lookup"
    /\ LET s == getShardByHash(hash[t])
       IN  IF s \in DOMAIN shards_
           THEN /\ pc' = [pc EXCEPT ![t] = "check"]
                /\ from' = [from EXCEPT ![t] = s] /\ UNCHANGED hash
           ELSE /\ pc' = [pc EXCEPT ![t] = "out"]
                /\ hash' = [hash EXCEPT ![t] = 0] /\ UNCHANGED from
    /\ UNCHANGED <<startvars, shards_, conn>>

PassLimit(t) ==
    /\ pc[t] = "check"
    /\ shards_[from[t]].conns_in_use_ < shards_[from[t]].conns_max_
    /\ pc' = [pc EXCEPT ![t] = "grab"]
    /\ UNCHANGED <<startvars, shards_, hash, from, conn>>

Take(t) ==
    /\ pc[t] = "grab"
    /\ \E kept \in KeptIdle(shards_[from[t]]), connected \in BOOLEAN :
          /\ shards_' = [shards_ EXCEPT ![from[t]] = Grab(from[t], kept, connected)]
          /\ conn' = [conn EXCEPT ![t] = Got(from[t], kept, connected)]
    /\ pc' = [pc EXCEPT ![t] = "use"]
    /\ UNCHANGED <<startvars, hash, from>>

\* The destructor of the scoped connection.
putback(t) ==
    /\ pc[t] = "use"
    /\ shards_' = IF conn[t] \in DOMAIN shards_
                  THEN [shards_ EXCEPT ![conn[t]] = Release(@)] ELSE shards_
    /\ pc' = [pc EXCEPT ![t] = "out"] /\ hash' = [hash EXCEPT ![t] = 0]
    /\ from' = [from EXCEPT ![t] = NoShard] /\ conn' = [conn EXCEPT ![t] = NoShard]
    /\ UNCHANGED startvars

\* The destructor of the sharding pool, when its users are gone.
fini ==
    /\ phase = "running" /\ \A t \in Threads : pc[t] = "out"
    /\ phase' = "over" /\ shards_' = [s \in {} |-> 0]
    /\ UNCHANGED <<kind, shardnum_, urls, toinit, pc, hash, from, conn>>

Acquiring(t) == Lookup(t) \/ PassLimit(t) \/ Take(t)

Next ==
    \/ \E u \in urls : addSharding(u) \/ addShardingsFails(u)
    \/ Ready
    \/ \E s \in toinit, connected \in BOOLEAN : init(s, connected)
    \/ Run
    \/ \E t \in Threads : Acquiring(t) \/ putback(t) \/ \E h \in 0 .. M - 1 : Ask(t, h)
    \/ fini

Spec == Init /\ [][Next]_vars

(***************************************************************************)
(* A running thread goes on with its call and puts its connection back.    *)
(***************************************************************************)
Fairness == \A t \in Threads : WF_vars(Acquiring(t)) /\ WF_vars(putback(t))

FairSpec == Spec /\ Fairness
-----------------------------------------------------------------------------
(***************************************************************************)
(* Type invariant.                                                         *)
(***************************************************************************)
Pools == [conns_max_ : Nat \ {0}, conns_in_use_ : Int, idle : Int, broken : Int]
Urls == [shard : Int, maxconn : Nat]

TypeOK ==
    /\ kind \in {"redis", "mysql"} /\ shardnum_ \in ShardNums /\ urls \subseteq Urls
    /\ phase \in {"adding", "starting", "running", "over"} /\ toinit \subseteq Nat
    /\ DOMAIN shards_ \subseteq Int \ {NoShard} /\ shards_ \in [DOMAIN shards_ -> Pools]
    /\ pc \in [Threads -> {"out", "lookup", "check", "grab", "use"}]
    /\ hash \in [Threads -> Nat]
    /\ from \in [Threads -> Int] /\ conn \in [Threads -> Int]

(***************************************************************************)
(* The places of a shard are those of the threads that use a connection of *)
(* it: whichever pool putback() looks up, each pool gets back what was     *)
(* taken from it.  With MySQL a connection that was created while the      *)
(* server did not answer keeps its place for ever: it carries no shard,    *)
(* so that putback() finds no pool for it.                                 *)
(***************************************************************************)
Users(s) == {t \in Threads : pc[t] = "use" /\ from[t] = s}
Holding(s) == {t \in Users(s) : conn[t] = s}

PlacesAreKept ==
    \A s \in DOMAIN shards_ :
        /\ shards_[s].conns_in_use_ = Cardinality(Holding(s)) + shards_[s].broken
        /\ Cardinality(Users(s) \ Holding(s)) <= shards_[s].broken
        /\ kind = "redis" => shards_[s].broken = 0

(***************************************************************************)
(* A thread that asks for a key goes to the shard whose slice the key's    *)
(* hash is in, and gets a connection of it unless others keep taking them  *)
(* as they come free: grab() polls, without a queue.  Excepted are the     *)
(* hashes past the last slice, of which there are none when shardnum_      *)
(* divides M (sharding.h: "best to be 2^n"), and a MySQL shard all of      *)
(* whose places broken connections keep.                                   *)
(***************************************************************************)
InSlice(h, s) ==
    LET slice == M \div shardnum_ IN s * slice <= h /\ h < (s + 1) * slice

KeyServed ==
    \A t \in Threads :
        pc[t] \in {"lookup", "check"} /\ hash[t] < M - (M % shardnum_) ~>
            /\ InSlice(hash[t], from[t])
            /\ \/ pc[t] \in {"grab", "use"}
               \/ \E u \in Threads \ {t} : pc[u] = "grab" /\ from[u] = from[t]
               \/ /\ kind = "mysql"
                  /\ shards_[from[t]].broken >= shards_[from[t]].conns_max_

-----------------------------------------------------------------------------
(***************************************************************************)
(* The inductive strengthening of PlacesAreKept: threads run only between  *)
(* start-up and fini(), a thread in acquire() is at a pool that exists,    *)
(* and a connection carries the number of its pool or none.                *)
(***************************************************************************)
Places ==
    /\ phase # "running" => \A t \in Threads : pc[t] = "out"
    /\ phase # "starting" => toinit = {}
    /\ toinit \subseteq DOMAIN shards_
    /\ \A t \in Threads :
        /\ pc[t] \in {"check", "grab", "use"} => from[t] \in DOMAIN shards_
        /\ pc[t] = "use" => conn[t] \in {from[t], NoShard}

IInv == TypeOK /\ Places /\ PlacesAreKept
=============================================================================
