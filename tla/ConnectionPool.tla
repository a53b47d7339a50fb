--------------------------- MODULE ConnectionPool ---------------------------
(***************************************************************************)
(* common/pool.h: ConnectionPool, the limit ConnectionPoolWithLimit puts   *)
(* on it, and the threads that acquire, use and put back connections.      *)
(*                                                                         *)
(* The two classes have a mutex each.  grab() of the limited pool tests    *)
(* the limit with no mutex held, counts itself in under its own mutex and  *)
(* then takes a connection under the base class's mutex: three steps that  *)
(* other threads interleave with.  release() is two.                       *)
(*                                                                         *)
(* An entry of pool_ is a connection of the set pool_; those whose in_use  *)
(* flag is set form in_use.  The list order, which only breaks ties        *)
(* between equal last_used times, is abstracted: any of the tied entries   *)
(* may be picked.  A create() that fails leaves an entry whose pointer is  *)
(* NULL: only their number matters.                                        *)
(***************************************************************************)
EXTENDS Integers, FiniteSets

CONSTANTS
    Threads,        \* the threads of the process
    Conns,          \* addresses create() may return
    Creators,       \* the threads that call createAll()
    conns_max_,     \* setMaxConn()
    GrabWaitTimes,  \* setGrabWaitTime(): -1 forever, 0 no waiting, N ms
    MayFail,        \* create() may return NULL (MyCachePool::create does)
    MayRemove,      \* holders may remove() a defective connection
    Tries,          \* bound: 1000 sleeps in the code
    MaxTime         \* bound: seconds that time(0) may advance

ASSUME PoolAssumption ==
    /\ IsFiniteSet(Threads) /\ Threads # {}
    /\ Creators \subseteq Threads
    /\ conns_max_ \in Nat \ {0}
    /\ GrabWaitTimes \subseteq Int
    /\ MayFail \in BOOLEAN /\ MayRemove \in BOOLEAN
    /\ Tries \in Nat /\ MaxTime \in Nat

VARIABLES
    pool_,          \* non-NULL connections the pool keeps
    in_use,         \* those of them whose in_use flag is set
    last_used,      \* last_used[c]: time of c's creation or last release
    nulls,          \* entries whose connection pointer is NULL
    conns_in_use_,  \* the limited pool's counter
    grab_waittime_, \* how long grab() waits; set before the pool is used
    now,            \* time(0)
    pc,             \* where each thread is
    goal,           \* connections the current call wants: 1, or all of them
    got,            \* grab() calls it has finished
    tries,          \* sleeps of the grab() in progress
    held            \* connections each thread holds

clock == <<now, grab_waittime_>>
poolvars == <<pool_, in_use, last_used, nulls>>
callvars == <<goal, got>>
vars == <<pool_, in_use, last_used, nulls, conns_in_use_, grab_waittime_, now,
          pc, goal, got, tries, held>>

-----------------------------------------------------------------------------
Init ==
    /\ pool_ = {} /\ in_use = {} /\ nulls = 0
    /\ last_used = [c \in Conns |-> 0]
    /\ conns_in_use_ = 0 /\ now = 0 /\ grab_waittime_ \in GrabWaitTimes
    /\ pc = [t \in Threads |-> "out"]
    /\ goal = [t \in Threads |-> 1]
    /\ got = [t \in Threads |-> 0]
    /\ tries = [t \in Threads |-> 0]
    /\ held = [t \in Threads |-> {}]

(***************************************************************************)
(* A thread at "out" holds nothing.  acquire() wants one connection,       *)
(* createAll() grabs conns_max_ of them before it puts any back.           *)
(***************************************************************************)
Enter(t, n) ==
    /\ pc[t] = "out"
    /\ pc' = [pc EXCEPT ![t] = "check"]
    /\ goal' = [goal EXCEPT ![t] = n]
    /\ got' = [got EXCEPT ![t] = 0]
    /\ tries' = [tries EXCEPT ![t] = 0]
    /\ UNCHANGED <<poolvars, conns_in_use_, clock, held>>

Acquire(t) == Enter(t, 1)

CreateAll(t) == t \in Creators /\ Enter(t, conns_max_)

(***************************************************************************)
(* grab() returns to its caller, which is done or grabs once more.         *)
(***************************************************************************)
Return(t) ==
    /\ got' = [got EXCEPT ![t] = @ + 1]
    /\ tries' = [tries EXCEPT ![t] = 0]
    /\ pc' = [pc EXCEPT ![t] = IF got[t] + 1 < goal[t] THEN "check" ELSE "use"]
    /\ UNCHANGED goal

(***************************************************************************)
(* The test of the limit; no mutex is held.                                *)
(***************************************************************************)
\* A mistake PoolBounded finds: there is no limit.
NeverFull == FALSE

\* A mistake PlacesAreTaken finds: the last place is never given out.
FullEarly == conns_in_use_ + 1 >= conns_max_

Full == conns_in_use_ >= conns_max_

PassLimit(t) ==
    /\ pc[t] = "check"
    /\ ~Full
    /\ pc' = [pc EXCEPT ![t] = "count"]
    /\ UNCHANGED <<poolvars, conns_in_use_, clock, callvars, tries, held>>

(***************************************************************************)
(* No room: grab() gives up at once, after Tries sleeps, or never.  The    *)
(* caller then has a NULL connection, which putback() ignores.             *)
(***************************************************************************)
Sleep(t) ==
    /\ pc[t] = "check" /\ Full
    /\ grab_waittime_ > 0 /\ tries[t] < Tries
    /\ tries' = [tries EXCEPT ![t] = @ + 1]
    /\ UNCHANGED <<poolvars, conns_in_use_, clock, pc, callvars, held>>

GiveUp(t) ==
    /\ pc[t] = "check" /\ Full
    /\ grab_waittime_ >= 0
    /\ grab_waittime_ > 0 => tries[t] = Tries
    /\ Return(t)
    /\ UNCHANGED <<poolvars, conns_in_use_, clock, held>>

(***************************************************************************)
(* ++conns_in_use_ under the limited pool's mutex.                         *)
(***************************************************************************)
Count(t) ==
    /\ pc[t] = "count"
    /\ conns_in_use_' = conns_in_use_ + 1
    /\ pc' = [pc EXCEPT ![t] = "base"]
    /\ UNCHANGED <<poolvars, clock, callvars, tries, held>>

(***************************************************************************)
(* Base::grab() under the base mutex.  operator< puts entries in use below *)
(* the free ones and orders those by last_used, so the greatest element is *)
(* a free entry if there is one, and then the most recently used.          *)
(***************************************************************************)
\* A mistake LeaseSpec finds: entries in use are candidates too.
FreeOrBusy == pool_

Free == pool_ \ in_use

MRU == {c \in Free : \A d \in Free : last_used[d] <= last_used[c]}

Reuse(t, c) ==
    /\ c \in MRU
    /\ in_use' = in_use \cup {c}
    /\ held' = [held EXCEPT ![t] = @ \cup {c}]
    /\ UNCHANGED <<pool_, last_used, nulls>>

Create(t, c) ==
    /\ Free = {}
    /\ c \notin pool_
    /\ pool_' = pool_ \cup {c}
    /\ in_use' = in_use \cup {c}
    /\ last_used' = [last_used EXCEPT ![c] = now]
    /\ held' = [held EXCEPT ![t] = @ \cup {c}]
    /\ UNCHANGED nulls

CreateFails ==
    /\ MayFail
    /\ Free = {}
    /\ nulls' = nulls + 1
    /\ UNCHANGED <<pool_, in_use, last_used, held>>

BaseGrab(t) ==
    /\ pc[t] = "base"
    /\ \/ \E c \in Conns : Reuse(t, c) \/ Create(t, c)
       \/ CreateFails
    /\ Return(t)
    /\ UNCHANGED <<conns_in_use_, clock>>

(***************************************************************************)
(* release() of a connection the thread holds: Base::release() marks the   *)
(* entry free under the base mutex, then --conns_in_use_ under the other   *)
(* one.                                                                    *)
(***************************************************************************)
BaseRelease(t, c) ==
    /\ pc[t] = "use" /\ c \in held[t]
    /\ in_use' = in_use \ {c}
    /\ last_used' = [last_used EXCEPT ![c] = now]
    /\ held' = [held EXCEPT ![t] = @ \ {c}]
    /\ pc' = [pc EXCEPT ![t] = "uncount"]
    /\ UNCHANGED <<pool_, nulls, conns_in_use_, clock, callvars, tries>>

\* A mistake CounterBounds finds: the counter is decremented twice.
UncountTwice(t) ==
    /\ pc[t] = "uncount"
    /\ conns_in_use_' = conns_in_use_ - 2
    /\ pc' = [pc EXCEPT ![t] = "use"]
    /\ UNCHANGED <<poolvars, clock, callvars, tries, held>>

Uncount(t) ==
    /\ pc[t] = "uncount"
    /\ conns_in_use_' = conns_in_use_ - 1
    /\ pc' = [pc EXCEPT ![t] = "use"]
    /\ UNCHANGED <<poolvars, clock, callvars, tries, held>>

Leave(t) ==
    /\ pc[t] = "use" /\ held[t] = {}
    /\ pc' = [pc EXCEPT ![t] = "out"]
    /\ UNCHANGED <<poolvars, conns_in_use_, clock, callvars, tries, held>>

(***************************************************************************)
(* remove(), called in place of release() when the connection turned out   *)
(* defective: the entry is destroyed and erased.  It is not virtual and    *)
(* the limited pool does not count the connection out.                     *)
(***************************************************************************)
Remove(t, c) ==
    /\ MayRemove
    /\ pc[t] = "use" /\ c \in held[t]
    /\ pool_' = pool_ \ {c} /\ in_use' = in_use \ {c}
    /\ held' = [held EXCEPT ![t] = @ \ {c}]
    /\ UNCHANGED <<last_used, nulls, conns_in_use_, clock, pc, callvars, tries>>

(***************************************************************************)
(* clear(false): destroys the idle connections.                            *)
(***************************************************************************)
\* A mistake HeldIsSafe finds: connections in use are destroyed too.
ShrinkBusy ==
    /\ pool_' = {} /\ in_use' = {}
    /\ UNCHANGED <<last_used, nulls, conns_in_use_, clock, pc, callvars, tries, held>>

Shrink ==
    /\ pool_' = pool_ \cap in_use
    /\ UNCHANGED <<in_use, last_used, nulls, conns_in_use_, clock, pc, callvars,
                   tries, held>>

(***************************************************************************)
(* clear(true): destroys them all.  Its caller (mycache2.cpp, at shutdown) *)
(* runs it once the threads have stopped using the pool.                   *)
(***************************************************************************)
RemoveAll ==
    /\ \A t \in Threads : pc[t] = "out"
    /\ pool_' = {} /\ in_use' = {} /\ nulls' = 0
    /\ UNCHANGED <<last_used, conns_in_use_, clock, pc, callvars, tries, held>>

Tick ==
    /\ now < MaxTime
    /\ now' = now + 1
    /\ UNCHANGED <<poolvars, conns_in_use_, grab_waittime_, pc, callvars, tries, held>>

Grabbing(t) == PassLimit(t) \/ Sleep(t) \/ GiveUp(t) \/ Count(t) \/ BaseGrab(t)

Releasing(t) ==
    \/ \E c \in Conns : BaseRelease(t, c)
    \/ Uncount(t)
    \/ Leave(t)

Next ==
    \/ \E t \in Threads :
          \/ Acquire(t) \/ CreateAll(t)
          \/ Grabbing(t) \/ Releasing(t)
          \/ \E c \in Conns : Remove(t, c)
    \/ Shrink \/ RemoveAll \/ Tick

Spec == Init /\ [][Next]_vars

(***************************************************************************)
(* A running thread goes on with the call it is in, and a thread that      *)
(* holds connections puts them back: the users are ScopedConnection        *)
(* guards, whose destructor does.                                          *)
(***************************************************************************)
Fairness == \A t \in Threads : WF_vars(Grabbing(t)) /\ WF_vars(Releasing(t))

FairSpec == Spec /\ Fairness
-----------------------------------------------------------------------------
(***************************************************************************)
(* Type invariant.                                                         *)
(***************************************************************************)
TypeOK ==
    /\ pool_ \subseteq Conns /\ in_use \subseteq Conns
    /\ last_used \in [Conns -> Nat]
    /\ nulls \in Nat /\ conns_in_use_ \in Int /\ now \in Nat
    /\ grab_waittime_ \in Int
    /\ pc \in [Threads -> {"out", "check", "count", "base", "use", "uncount"}]
    /\ goal \in [Threads -> Nat] /\ got \in [Threads -> Nat]
    /\ tries \in [Threads -> Nat]
    /\ held \in [Threads -> SUBSET Conns]

(***************************************************************************)
(* What a thread got from grab() stays its own until it gives it up: the   *)
(* connection is in the pool, marked in use, and no other thread has it.   *)
(* No release, remove or shrink of another thread can take it away.        *)
(***************************************************************************)
HeldIsSafe ==
    \A t \in Threads :
        /\ held[t] \subseteq pool_ \cap in_use
        /\ \A u \in Threads \ {t} : held[t] \cap held[u] = {}

(***************************************************************************)
(* The counter of grab() and release() lies between what is really in use, *)
(* entries that create() left NULL included, so that the unsigned number   *)
(* never wraps below zero, and conns_max_ plus the other threads, which    *)
(* can all be between the unlocked test and the increment.                 *)
(***************************************************************************)
CounterBounds ==
    /\ Cardinality(in_use) + nulls <= conns_in_use_
    /\ conns_in_use_ <= conns_max_ + Cardinality(Threads) - 1

(***************************************************************************)
(* The pool itself never grows past that bound: grab() creates only when   *)
(* every entry is in use.                                                  *)
(***************************************************************************)
PoolBounded ==
    Cardinality(pool_) + nulls <= conns_max_ + Cardinality(Threads) - 1

(***************************************************************************)
(* The pool leases each connection to one thread at a time.                *)
(***************************************************************************)
Lease == INSTANCE ExclusiveLease WITH leased <- held

LeaseSpec == Lease!Spec

(***************************************************************************)
(* The waiters of grab() poll, and nothing queues them: one may be passed  *)
(* over for ever by others that take each place as it comes free.  But a   *)
(* place does not go to waste, and the waiters do not all wait for each    *)
(* other: whenever a caller waits, it gets its place, or another takes     *)
(* one, which also means that it is served once the others stop coming.    *)
(* The one case in which nobody goes on is a pool that has no room         *)
(* although every thread is outside or waiting itself: NULL entries,       *)
(* removed connections and callers of createAll() that wait for their next *)
(* connection took its places.                                             *)
(***************************************************************************)
Exhausted ==
    /\ conns_in_use_ >= conns_max_
    /\ \A t \in Threads : pc[t] \in {"out", "check"}

PassedOver(t) == \E u \in Threads \ {t} : pc[u] = "count"

PlacesAreTaken == \A t \in Threads : pc[t] = "check" ~> (pc[t] # "check" \/ Exhausted \/ PassedOver(t))

-----------------------------------------------------------------------------
(***************************************************************************)
(* The inductive strengthening of the invariants above.                    *)
(*                                                                         *)
(* Ownership: entries in use are entries of the pool, threads outside the  *)
(* pool hold nothing, and HeldIsSafe.  Counting: a thread between Count    *)
(* and BaseGrab, or between BaseRelease and Uncount, is counted and has no *)
(* entry in use; a thread between PassLimit and Count is not counted yet.  *)
(***************************************************************************)
At(where, l) == {t \in Threads : where[t] = l}

Ownership ==
    /\ in_use \subseteq pool_
    /\ \A t \in Threads : pc[t] = "out" => held[t] = {}
    /\ HeldIsSafe

Counting ==
    /\ IsFiniteSet(pool_)
    /\ Cardinality(in_use) + nulls + Cardinality(At(pc, "base"))
         + Cardinality(At(pc, "uncount")) <= conns_in_use_
    /\ conns_in_use_ + Cardinality(At(pc, "count"))
         <= conns_max_ + Cardinality(Threads) - 1
    /\ PoolBounded

IInv == TypeOK /\ Ownership /\ Counting
=============================================================================
