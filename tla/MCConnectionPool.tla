-------------------------- MODULE MCConnectionPool --------------------------
(***************************************************************************)
(* A program uses one pool, with two threads, one of which may call        *)
(* createAll(), and one connection more than the limit; or it uses a       *)
(* sharding pool of two or three shards, whose configuration may name a    *)
(* shard twice or not at all, and four hashes.                             *)
(***************************************************************************)
EXTENDS ConnectionPool

CONSTANTS t1, t2, c1, c2, c3

TwoThreads == {t1, t2}
Three == {c1, c2, c3}
First == {t1}
AnyWait == {-1, 0, 1}

CONSTANTS M, ShardNums, UrlLists

Url(s, n) == [shard |-> s, maxconn |-> n]
ThreeUrls == {Url(0, 0), Url(1, 1), Url(2, 0)}
MCUrlLists == {ThreeUrls, {Url(0, 1), Url(1, 0), Url(1, 2)}, {Url(-1, 1), Url(0, 1)}}

VARIABLES kind, shardnum, urls, phase, toinit, shards, at, hash, from, conn

Shards == INSTANCE ShardingPool WITH
    shardnum_ <- shardnum, shards_ <- shards, pc <- at

VARIABLE uses       \* the pool the program uses

shardvars == <<kind, shardnum, urls, phase, toinit, shards, at, hash, from, conn>>
allvars == <<vars, shardvars, uses>>

PoolsInit ==
    /\ Init /\ Shards!Init
    /\ \/ /\ uses = "pool"
          /\ kind = "redis" /\ shardnum = 2 /\ urls = ThreeUrls
       \/ /\ uses = "shards"
          /\ grab_waittime_ = -1

PoolStep == uses = "pool" /\ Next /\ UNCHANGED <<shardvars, uses>>
ShardStep == uses = "shards" /\ Shards!Next /\ UNCHANGED <<vars, uses>>

PoolsSpec == PoolsInit /\ [][PoolStep \/ ShardStep]_allvars /\ Fairness /\ Shards!Fairness

PlacesAreKept == Shards!PlacesAreKept
KeyServed == Shards!KeyServed
=============================================================================
