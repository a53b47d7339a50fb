----------------------------- MODULE PoolProofs -----------------------------
(***************************************************************************)
(* Proofs about ConnectionPool, for any threads, connections and limit,    *)
(* and about the programs of MCConnectionPool that use a sharding pool:    *)
(* every hash of a full slice has its shard, and each pool gets its places *)
(* back, for any number of threads, shards and hashes.                     *)
(***************************************************************************)
EXTENDS MCConnectionPool, FiniteSetTheorems, TLAPS

(***************************************************************************)
(* Every step keeps the variables in their types.                          *)
(***************************************************************************)
LEMMA TypeStep == TypeOK /\ [Next]_vars => TypeOK'
<1> SUFFICES ASSUME TypeOK, [Next]_vars PROVE TypeOK'
  OBVIOUS
<1> USE PoolAssumption DEF TypeOK, clock
<1>1. ASSUME NEW t \in Threads, Acquire(t) \/ CreateAll(t) PROVE TypeOK'
  BY <1>1 DEF Acquire, CreateAll, Enter, poolvars
<1>2. ASSUME NEW t \in Threads, Grabbing(t) PROVE TypeOK'
  <2>1. CASE PassLimit(t)  BY <2>1 DEF PassLimit, poolvars, callvars
  <2>2. CASE Sleep(t)      BY <2>2 DEF Sleep, poolvars, callvars
  <2>3. CASE GiveUp(t)     BY <2>3 DEF GiveUp, Return, poolvars
  <2>4. CASE Count(t)      BY <2>4 DEF Count, poolvars, callvars
  <2>5. CASE BaseGrab(t)
    <3>1. ASSUME NEW c \in Conns, Reuse(t, c) PROVE TypeOK'
      BY <2>5, <3>1 DEF BaseGrab, Return, Reuse
    <3>2. ASSUME NEW c \in Conns, Create(t, c) PROVE TypeOK'
      BY <2>5, <3>2 DEF BaseGrab, Return, Create
    <3>3. CASE CreateFails
      BY <2>5, <3>3 DEF BaseGrab, Return, CreateFails
    <3> QED  BY <2>5, <3>1, <3>2, <3>3 DEF BaseGrab
  <2> QED  BY <1>2, <2>1, <2>2, <2>3, <2>4, <2>5 DEF Grabbing
<1>3. ASSUME NEW t \in Threads, Releasing(t) PROVE TypeOK'
  <2>1. ASSUME NEW c \in Conns, BaseRelease(t, c) PROVE TypeOK'
    BY <2>1 DEF BaseRelease, callvars
  <2>2. CASE Uncount(t)  BY <2>2 DEF Uncount, poolvars, callvars
  <2>3. CASE Leave(t)    BY <2>3 DEF Leave, poolvars, callvars
  <2> QED  BY <1>3, <2>1, <2>2, <2>3 DEF Releasing
<1>4. ASSUME NEW t \in Threads, NEW c \in Conns, Remove(t, c) PROVE TypeOK'
  BY <1>4 DEF Remove, callvars
<1>5. CASE Shrink     BY <1>5 DEF Shrink, callvars
<1>6. CASE RemoveAll  BY <1>6 DEF RemoveAll, callvars
<1>7. CASE Tick       BY <1>7 DEF Tick, poolvars, callvars
<1>8. CASE UNCHANGED vars  BY <1>8 DEF vars
<1> QED  BY <1>1, <1>2, <1>3, <1>4, <1>5, <1>6, <1>7, <1>8 DEF Next
(***************************************************************************)
(* Every step keeps what the threads hold safe.                            *)
(***************************************************************************)
LEMMA OwnershipStep == TypeOK /\ Ownership /\ [Next]_vars => Ownership'
<1> SUFFICES ASSUME TypeOK, Ownership, [Next]_vars PROVE Ownership'
  OBVIOUS
<1> USE PoolAssumption DEF TypeOK, Ownership, HeldIsSafe
<1>1. ASSUME NEW t \in Threads, Acquire(t) \/ CreateAll(t) PROVE Ownership'
  BY <1>1 DEF Acquire, CreateAll, Enter, poolvars
<1>2. ASSUME NEW t \in Threads, Grabbing(t) PROVE Ownership'
  <2>1. CASE PassLimit(t)  BY <2>1 DEF PassLimit, poolvars, callvars
  <2>2. CASE Sleep(t)      BY <2>2 DEF Sleep, poolvars, callvars
  <2>3. CASE GiveUp(t)     BY <2>3 DEF GiveUp, Return, poolvars
  <2>4. CASE Count(t)      BY <2>4 DEF Count, poolvars, callvars
  <2>5. CASE BaseGrab(t)
    <3>1. ASSUME NEW c \in Conns, Reuse(t, c) PROVE Ownership'
      BY <2>5, <3>1 DEF BaseGrab, Return, Reuse, MRU, Free
    <3>2. ASSUME NEW c \in Conns, Create(t, c) PROVE Ownership'
      BY <2>5, <3>2 DEF BaseGrab, Return, Create
    <3>3. CASE CreateFails
      BY <2>5, <3>3 DEF BaseGrab, Return, CreateFails
    <3> QED  BY <2>5, <3>1, <3>2, <3>3 DEF BaseGrab
  <2> QED  BY <1>2, <2>1, <2>2, <2>3, <2>4, <2>5 DEF Grabbing
<1>3. ASSUME NEW t \in Threads, Releasing(t) PROVE Ownership'
  <2>1. ASSUME NEW c \in Conns, BaseRelease(t, c) PROVE Ownership'
    BY <2>1 DEF BaseRelease, callvars
  <2>2. CASE Uncount(t)  BY <2>2 DEF Uncount, poolvars, callvars
  <2>3. CASE Leave(t)    BY <2>3 DEF Leave, poolvars, callvars
  <2> QED  BY <1>3, <2>1, <2>2, <2>3 DEF Releasing
<1>4. ASSUME NEW t \in Threads, NEW c \in Conns, Remove(t, c) PROVE Ownership'
  BY <1>4 DEF Remove, callvars
<1>5. CASE Shrink     BY <1>5 DEF Shrink, callvars
<1>6. CASE RemoveAll  BY <1>6 DEF RemoveAll, callvars
<1>7. CASE Tick       BY <1>7 DEF Tick, poolvars, callvars
<1>8. CASE UNCHANGED vars  BY <1>8 DEF vars
<1> QED  BY <1>1, <1>2, <1>3, <1>4, <1>5, <1>6, <1>7, <1>8 DEF Next

(***************************************************************************)
(* The sets of threads at a place are finite.                              *)
(***************************************************************************)
LEMMA AtFinite ==
  ASSUME NEW f, NEW l
  PROVE  /\ IsFiniteSet(At(f, l)) /\ Cardinality(At(f, l)) \in Nat
         /\ Cardinality(At(f, l)) <= Cardinality(Threads)
         /\ Cardinality(Threads) \in Nat \ {0}
<1>1. At(f, l) \in SUBSET Threads  BY DEF At
<1>2. IsFiniteSet(At(f, l)) /\ Cardinality(At(f, l)) <= Cardinality(Threads)
  BY <1>1, FS_Subset, PoolAssumption
<1>3. Cardinality(At(f, l)) \in Nat /\ Cardinality(Threads) \in Nat
  BY <1>2, FS_CardinalityType, PoolAssumption
<1>4. Cardinality(Threads) # 0  BY FS_EmptySet, PoolAssumption
<1> QED  BY <1>2, <1>3, <1>4

(***************************************************************************)
(* A thread that moves from place k to place l changes the number of       *)
(* threads at those two places, and at no other.                           *)
(***************************************************************************)
Moved(t, k, l) == pc[t] = k /\ k # l /\ pc' = [pc EXCEPT ![t] = l]

LEMMA MoveCount ==
  ASSUME TypeOK, NEW t \in Threads, NEW k, NEW l, Moved(t, k, l)
  PROVE  /\ Cardinality(At(pc', l)) = Cardinality(At(pc, l)) + 1
         /\ Cardinality(At(pc', k)) = Cardinality(At(pc, k)) - 1
         /\ \A m : m # l /\ m # k => Cardinality(At(pc', m)) = Cardinality(At(pc, m))
<1> USE DEF Moved
<1>1. t \notin At(pc, l) /\ t \in At(pc, k)  BY DEF At
<1>2. At(pc', l) = At(pc, l) \cup {t}  BY DEF At, TypeOK
<1>3. At(pc', k) = At(pc, k) \ {t}  BY DEF At, TypeOK
<1>4. \A m : m # l /\ m # k => At(pc', m) = At(pc, m)  BY DEF At, TypeOK
<1>5. Cardinality(At(pc, l) \cup {t}) = Cardinality(At(pc, l)) + 1
  BY <1>1, AtFinite, FS_AddElement
<1>6. Cardinality(At(pc, k) \ {t}) = Cardinality(At(pc, k)) - 1
  BY <1>1, AtFinite, FS_RemoveElement
<1> QED  BY <1>2, <1>3, <1>4, <1>5, <1>6

(***************************************************************************)
(* Every step keeps the counter within its bounds and above the number of  *)
(* connections in use.                                                     *)
(***************************************************************************)
LEMMA CountingStep == IInv /\ [Next]_vars => Counting'
<1> SUFFICES ASSUME IInv, [Next]_vars PROVE Counting'
  OBVIOUS
<1> TypeOK /\ Ownership /\ Counting  BY DEF IInv
<1> USE PoolAssumption
<1>a. /\ IsFiniteSet(pool_) /\ IsFiniteSet(in_use)
      /\ Cardinality(pool_) \in Nat /\ Cardinality(in_use) \in Nat
      /\ nulls \in Nat /\ conns_in_use_ \in Int
  BY FS_Subset, FS_CardinalityType DEF Ownership, Counting, TypeOK
<1>b. \A f, l : /\ Cardinality(At(f, l)) \in Nat
                /\ Cardinality(At(f, l)) <= Cardinality(Threads)
  BY AtFinite
<1>m. ASSUME NEW t \in Threads, NEW k, NEW l, Moved(t, k, l)
      PROVE  /\ Cardinality(At(pc', l)) = Cardinality(At(pc, l)) + 1
             /\ Cardinality(At(pc', k)) = Cardinality(At(pc, k)) - 1
             /\ \A m : m # l /\ m # k =>
                   Cardinality(At(pc', m)) = Cardinality(At(pc, m))
  BY <1>m, MoveCount
<1>c. Cardinality(Threads) \in Nat \ {0}  BY AtFinite
<1>d. ASSUME UNCHANGED <<pool_, in_use, nulls, conns_in_use_>>,
             \A l \in {"base", "uncount", "count"} :
                Cardinality(At(pc', l)) = Cardinality(At(pc, l))
      PROVE  Counting'
  BY <1>d DEF Counting, PoolBounded
<1>e. ASSUME UNCHANGED pc PROVE \A l : Cardinality(At(pc', l)) = Cardinality(At(pc, l))
  BY <1>e DEF At
<1>1. ASSUME NEW t \in Threads, Acquire(t) \/ CreateAll(t) PROVE Counting'
  <2>1. Moved(t, "out", "check")
    BY <1>1 DEF Acquire, CreateAll, Enter, Moved
  <2> QED  BY <1>1, <1>d, <2>1, <1>m DEF Acquire, CreateAll, Enter, poolvars
<1>2. ASSUME NEW t \in Threads, Grabbing(t) PROVE Counting'
  <2>1. CASE PassLimit(t)
    <3>1. Moved(t, "check", "count")
      BY <2>1 DEF PassLimit, Moved
    <3>2. /\ Cardinality(At(pc', "base")) = Cardinality(At(pc, "base"))
          /\ Cardinality(At(pc', "uncount")) = Cardinality(At(pc, "uncount"))
          /\ Cardinality(At(pc', "count")) \in Nat
          /\ Cardinality(At(pc', "count")) <= Cardinality(Threads)
      BY <3>1, <1>m, AtFinite, <1>b, <1>c DEF Counting
    <3> QED  BY <2>1, <1>a, <1>b, <1>c, <3>2
             DEF PassLimit, Full, poolvars, Counting, PoolBounded
  <2>2. CASE Sleep(t)
    BY <2>2, <1>d, <1>e DEF Sleep, poolvars
  <2>3. CASE GiveUp(t)
    <3>1. pc[t] = "check" /\ UNCHANGED <<pool_, in_use, nulls, conns_in_use_>>
      BY <2>3 DEF GiveUp, poolvars
    <3>2. PICK l \in {"check", "use"} : pc' = [pc EXCEPT ![t] = l]
      BY <2>3 DEF GiveUp, Return
    <3>3. CASE l = "use"
      <4>1. Moved(t, "check", "use")  BY <3>1, <3>2, <3>3 DEF Moved
      <4> QED  BY <3>1, <4>1, <1>m, <1>d
    <3>4. CASE l = "check"
      <4>1. UNCHANGED pc  BY <3>1, <3>2, <3>4 DEF TypeOK
      <4> QED  BY <3>1, <4>1, <1>d, <1>e
    <3> QED  BY <3>3, <3>4
  <2>4. CASE Count(t)
    <3>1. /\ Moved(t, "count", "base")
          /\ UNCHANGED <<pool_, in_use, nulls>>
          /\ conns_in_use_' = conns_in_use_ + 1
      BY <2>4 DEF Count, poolvars, Moved
    <3>2. /\ Cardinality(At(pc', "base")) = Cardinality(At(pc, "base")) + 1
          /\ Cardinality(At(pc', "uncount")) = Cardinality(At(pc, "uncount"))
          /\ Cardinality(At(pc', "count")) = Cardinality(At(pc, "count")) - 1
      BY <3>1, <1>m
    <3> QED  BY <3>1, <3>2, <1>a, <1>b, <1>c DEF Counting, PoolBounded
  <2>5. CASE BaseGrab(t)
    <3>1. PICK l \in {"check", "use"} :
             Moved(t, "base", l)
      BY <2>5 DEF BaseGrab, Return, Moved
    <3>2. /\ Cardinality(At(pc', "base")) = Cardinality(At(pc, "base")) - 1
          /\ Cardinality(At(pc', "uncount")) = Cardinality(At(pc, "uncount"))
          /\ Cardinality(At(pc', "count")) = Cardinality(At(pc, "count"))
      BY <3>1, <1>m
    <3>3. conns_in_use_' = conns_in_use_  BY <2>5 DEF BaseGrab
    <3>4. ASSUME NEW c \in Conns, Reuse(t, c) PROVE Counting'
      <4>1. /\ in_use' = in_use \cup {c} /\ c \notin in_use
            /\ UNCHANGED <<pool_, nulls>>
        BY <3>4 DEF Reuse, MRU, Free
      <4>2. Cardinality(in_use') = Cardinality(in_use) + 1
        BY <4>1, <1>a, FS_AddElement
      <4> QED  BY <3>2, <3>3, <4>1, <4>2, <1>a, <1>b, <1>c
               DEF Counting, PoolBounded
    <3>5. ASSUME NEW c \in Conns, Create(t, c) PROVE Counting'
      <4>1. /\ in_use' = in_use \cup {c} /\ c \notin in_use
            /\ pool_' = pool_ \cup {c} /\ pool_ = in_use
            /\ UNCHANGED nulls
        BY <3>5 DEF Create, Free, Ownership
      <4>2. /\ Cardinality(in_use') = Cardinality(in_use) + 1
            /\ Cardinality(pool_') = Cardinality(in_use) + 1
            /\ IsFiniteSet(pool_')
        BY <4>1, <1>a, FS_AddElement
      <4>3. Cardinality(in_use) + nulls + 1 <= conns_in_use_
        <5>1. t \in At(pc, "base")  BY <3>1 DEF At, Moved
        <5>2. Cardinality(At(pc, "base")) # 0
          BY <5>1, AtFinite, FS_EmptySet
        <5> QED  BY <5>2, <1>a, <1>b DEF Counting
      <4> QED  BY <3>2, <3>3, <4>1, <4>2, <4>3, <1>a, <1>b, <1>c
               DEF Counting, PoolBounded
    <3>6. CASE CreateFails
      <4>1. /\ pool_ = in_use /\ nulls' = nulls + 1
            /\ UNCHANGED <<pool_, in_use>>
        BY <3>6 DEF CreateFails, Free, Ownership
      <4>3. Cardinality(in_use) + nulls + 1 <= conns_in_use_
        <5>1. t \in At(pc, "base")  BY <3>1 DEF At, Moved
        <5>2. Cardinality(At(pc, "base")) # 0
          BY <5>1, AtFinite, FS_EmptySet
        <5> QED  BY <5>2, <1>a, <1>b DEF Counting
      <4> QED  BY <3>2, <3>3, <4>1, <4>3, <1>a, <1>b, <1>c
               DEF Counting, PoolBounded
    <3> QED  BY <2>5, <3>4, <3>5, <3>6 DEF BaseGrab
  <2> QED  BY <1>2, <2>1, <2>2, <2>3, <2>4, <2>5 DEF Grabbing
<1>3. ASSUME NEW t \in Threads, Releasing(t) PROVE Counting'
  <2>1. ASSUME NEW c \in Conns, BaseRelease(t, c) PROVE Counting'
    <3>1. /\ Moved(t, "use", "uncount")
          /\ in_use' = in_use \ {c} /\ c \in in_use
          /\ UNCHANGED <<pool_, nulls, conns_in_use_>>
      BY <2>1 DEF BaseRelease, Ownership, HeldIsSafe, Moved
    <3>2. /\ Cardinality(At(pc', "base")) = Cardinality(At(pc, "base"))
          /\ Cardinality(At(pc', "uncount")) = Cardinality(At(pc, "uncount")) + 1
          /\ Cardinality(At(pc', "count")) = Cardinality(At(pc, "count"))
      BY <3>1, <1>m
    <3>3. Cardinality(in_use') = Cardinality(in_use) - 1
      BY <3>1, <1>a, FS_RemoveElement
    <3> QED  BY <3>1, <3>2, <3>3, <1>a, <1>b, <1>c DEF Counting, PoolBounded
  <2>2. CASE Uncount(t)
    <3>1. /\ Moved(t, "uncount", "use")
          /\ UNCHANGED <<pool_, in_use, nulls>>
          /\ conns_in_use_' = conns_in_use_ - 1
      BY <2>2 DEF Uncount, poolvars, Moved
    <3>2. /\ Cardinality(At(pc', "base")) = Cardinality(At(pc, "base"))
          /\ Cardinality(At(pc', "uncount")) = Cardinality(At(pc, "uncount")) - 1
          /\ Cardinality(At(pc', "count")) = Cardinality(At(pc, "count"))
      BY <3>1, <1>m
    <3> QED  BY <3>1, <3>2, <1>a, <1>b, <1>c DEF Counting, PoolBounded
  <2>3. CASE Leave(t)
    <3>1. /\ Moved(t, "use", "out")
          /\ UNCHANGED <<pool_, in_use, nulls, conns_in_use_>>
      BY <2>3 DEF Leave, poolvars, Moved
    <3> QED  BY <3>1, <1>m, <1>d
  <2> QED  BY <1>3, <2>1, <2>2, <2>3 DEF Releasing
<1>4. ASSUME NEW t \in Threads, NEW c \in Conns, Remove(t, c) PROVE Counting'
  <2>1. /\ pool_' = pool_ \ {c} /\ in_use' = in_use \ {c}
        /\ UNCHANGED <<nulls, conns_in_use_, pc>>
    BY <1>4 DEF Remove
  <2>2. /\ IsFiniteSet(pool_')
        /\ Cardinality(pool_') \in Nat /\ Cardinality(in_use') \in Nat
        /\ Cardinality(pool_') <= Cardinality(pool_)
        /\ Cardinality(in_use') <= Cardinality(in_use)
    <3>1. /\ IsFiniteSet(pool_ \ {c}) /\ IsFiniteSet(in_use \ {c})
          /\ Cardinality(pool_ \ {c}) <= Cardinality(pool_)
          /\ Cardinality(in_use \ {c}) <= Cardinality(in_use)
      <4>1. pool_ \ {c} \in SUBSET pool_ /\ in_use \ {c} \in SUBSET in_use
        OBVIOUS
      <4> QED  BY <4>1, <1>a, FS_Subset
    <3> QED  BY <2>1, <3>1, FS_CardinalityType
  <2> QED  BY <2>1, <2>2, <1>a, <1>b, <1>c, <1>e DEF Counting, PoolBounded
<1>5. CASE Shrink
  <2>1. /\ pool_' = in_use /\ UNCHANGED <<in_use, nulls, conns_in_use_, pc>>
    BY <1>5 DEF Shrink, Ownership
  <2>2. Cardinality(in_use) <= Cardinality(pool_)
    BY <1>a, FS_Subset DEF Ownership
  <2> QED  BY <2>1, <2>2, <1>a, <1>b, <1>c, <1>e DEF Counting, PoolBounded
<1>6. CASE RemoveAll
  <2>1. /\ pool_' = {} /\ in_use' = {} /\ nulls' = 0
        /\ UNCHANGED <<conns_in_use_, pc>>
    BY <1>6 DEF RemoveAll
  <2>2. IsFiniteSet({}) /\ Cardinality({}) = 0  BY FS_EmptySet
  <2> QED  BY <2>1, <2>2, <1>a, <1>b, <1>c, <1>e DEF Counting, PoolBounded
<1>7. CASE Tick
  BY <1>7, <1>d, <1>e DEF Tick, poolvars
<1>8. CASE UNCHANGED vars
  BY <1>8, <1>d, <1>e DEF vars
<1> QED  BY <1>1, <1>2, <1>3, <1>4, <1>5, <1>6, <1>7, <1>8 DEF Next
(***************************************************************************)
(* The inductive invariant, in every reachable state.                      *)
(***************************************************************************)
LEMMA InitIInv == Init => IInv
<1> SUFFICES ASSUME Init PROVE IInv  OBVIOUS
<1> USE PoolAssumption DEF Init
<1>1. TypeOK  BY DEF TypeOK
<1>2. Ownership  BY DEF Ownership, HeldIsSafe
<1>3. Counting
  <2>1. At(pc, "base") = {} /\ At(pc, "uncount") = {} /\ At(pc, "count") = {}
    BY DEF At
  <2>2. IsFiniteSet({}) /\ Cardinality({}) = 0  BY FS_EmptySet
  <2>3. Cardinality(Threads) \in Nat \ {0}  BY AtFinite
  <2>4. pool_ = {} /\ in_use = {} /\ nulls = 0 /\ conns_in_use_ = 0
    OBVIOUS
  <2> HIDE DEF Init
  <2>5. /\ Cardinality(At(pc, "base")) = 0 /\ Cardinality(At(pc, "uncount")) = 0
        /\ Cardinality(At(pc, "count")) = 0
    BY <2>1, <2>2, Zenon
  <2>6. IsFiniteSet(pool_) /\ Cardinality(pool_) = 0 /\ Cardinality(in_use) = 0
    BY <2>2, <2>4, Zenon
  <2>7. nulls = 0 /\ conns_in_use_ = 0  BY <2>4
  <2> QED  BY <2>3, <2>5, <2>6, <2>7 DEF Counting, PoolBounded
<1> QED  BY <1>1, <1>2, <1>3, Zenon DEF IInv

LEMMA Invariance == Spec => []IInv
<1>1. IInv /\ [Next]_vars => IInv'
  BY TypeStep, OwnershipStep, CountingStep, Zenon DEF IInv
<1> QED  BY InitIInv, <1>1, PTL DEF Spec

(***************************************************************************)
(* The variables keep their types.                                         *)
(***************************************************************************)
THEOREM TypeCorrect == Spec => []TypeOK
<1>1. IInv => TypeOK  BY DEF IInv
<1> QED  BY Invariance, <1>1, PTL

(***************************************************************************)
(* Whatever the threads do, a connection that grab() returned stays in the *)
(* pool, in use and with one holder until the holder gives it up.          *)
(***************************************************************************)
THEOREM HeldIsAlwaysSafe == Spec => []HeldIsSafe
<1>1. IInv => HeldIsSafe  BY DEF IInv, Ownership
<1> QED  BY Invariance, <1>1, PTL

(***************************************************************************)
(* Every entry in use is counted, so conns_in_use_ never wraps, and it     *)
(* passes the limit by at most one per other thread, for any number of     *)
(* threads.                                                                *)
(***************************************************************************)
THEOREM CounterIsBounded == Spec => []CounterBounds
<1>1. IInv => CounterBounds
  <2> SUFFICES ASSUME IInv PROVE CounterBounds  OBVIOUS
  <2>1. Cardinality(in_use) \in Nat
    BY FS_Subset, FS_CardinalityType DEF IInv, Ownership, Counting
  <2>2. nulls \in Nat /\ conns_in_use_ \in Int  BY DEF IInv, TypeOK
  <2>3. \A l : Cardinality(At(pc, l)) \in Nat  BY AtFinite
  <2>4. Cardinality(Threads) \in Nat  BY AtFinite
  <2> QED  BY <2>1, <2>2, <2>3, <2>4, PoolAssumption
           DEF IInv, Counting, CounterBounds
<1> QED  BY Invariance, <1>1, PTL

(***************************************************************************)
(* The pool keeps at most conns_max_ entries and one per other thread.     *)
(***************************************************************************)
THEOREM PoolIsBounded == Spec => []PoolBounded
<1>1. IInv => PoolBounded  BY DEF IInv, Counting
<1> QED  BY Invariance, <1>1, PTL

(***************************************************************************)
(* The pool implements the exclusive lease: BaseGrab leases, BaseRelease   *)
(* and Remove give up, every other step changes no lease.                  *)
(***************************************************************************)
THEOREM PoolLeases == Spec => LeaseSpec
<1>1. Init => Lease!Init  BY DEF Init, Lease!Init
<1>2. IInv /\ [Next]_vars => [Lease!Next]_held
  <2> SUFFICES ASSUME IInv, [Next]_vars, held' # held PROVE Lease!Next
    BY DEF Lease!Next
  <2> USE DEF IInv, TypeOK, Ownership, HeldIsSafe
  <2>1. ASSUME NEW t \in Threads, BaseGrab(t) PROVE Lease!Next
    <3>1. ASSUME NEW c \in Conns, Reuse(t, c) PROVE Lease!Lease(t, c)
      BY <3>1 DEF Reuse, MRU, Free, Lease!Lease
    <3>2. ASSUME NEW c \in Conns, Create(t, c) PROVE Lease!Lease(t, c)
      BY <3>2 DEF Create, Lease!Lease
    <3>3. CASE CreateFails  BY <3>3 DEF CreateFails
    <3> QED  BY <2>1, <3>1, <3>2, <3>3 DEF BaseGrab, Lease!Next
  <2>2. ASSUME NEW t \in Threads, NEW c \in Conns,
               BaseRelease(t, c) \/ Remove(t, c)
        PROVE  Lease!Next
    <3>1. Lease!GiveUp(t, c)  BY <2>2 DEF BaseRelease, Remove, Lease!GiveUp
    <3> QED  BY <3>1 DEF Lease!Next
  <2>3. \/ \E t \in Threads : BaseGrab(t)
        \/ \E t \in Threads, c \in Conns : BaseRelease(t, c) \/ Remove(t, c)
    BY DEF Next, vars, Acquire, CreateAll, Enter, Grabbing, Releasing,
           PassLimit, Sleep, GiveUp, Count, Uncount, Leave, Shrink, RemoveAll, Tick
  <2> QED  BY <2>1, <2>2, <2>3
<1> QED  BY <1>1, <1>2, Invariance, PTL DEF Spec, LeaseSpec, Lease!Spec

(***************************************************************************)
(* What the theorems assume of the constants.                              *)
(***************************************************************************)
ShardConfig ==
    /\ IsFiniteSet(Threads)
    /\ M \in Nat
    /\ ShardNums \subseteq Nat
    /\ \A us \in UrlLists : us \subseteq Shards!Urls

-----------------------------------------------------------------------------
(***************************************************************************)
(* getShardByHash() of a hash before the remainder M % shardnum_ is the    *)
(* number of one of the shards isReady() asks for, and the hash is in that *)
(* shard's slice.                                                          *)
(***************************************************************************)
THEOREM HashHasShard ==
    ASSUME M \in Nat, shardnum \in 1 .. M,
           NEW h \in Nat, h < M - (M % shardnum)
    PROVE  /\ Shards!getShardByHash(h) \in 0 .. shardnum - 1
           /\ Shards!InSlice(h, Shards!getShardByHash(h))
<1> DEFINE z == M \div shardnum
           q == h \div z
<1>1. /\ z \in Nat /\ z >= 1
      /\ M - (M % shardnum) = shardnum * z
  OBVIOUS
<1> HIDE DEF z
<1>2. /\ q \in Nat
      /\ q * z <= h /\ h < (q + 1) * z
  BY <1>1
<1> HIDE DEF q
<1>3. q < shardnum
  <2> SUFFICES ASSUME q >= shardnum PROVE FALSE  BY <1>2
  <2>1. q * z >= shardnum * z  BY <1>1, <1>2
  <2> QED  BY <1>1, <1>2, <2>1
<1> QED  BY <1>2, <1>3 DEF Shards!getShardByHash, Shards!Slice, Shards!InSlice, z, q

-----------------------------------------------------------------------------
(***************************************************************************)
(* What grab() and release() of a pool do to its state.                    *)
(***************************************************************************)
LEMMA PoolUpdate ==
    ASSUME NEW A, NEW B, NEW C, NEW D, NEW x \in B, NEW y \in C,
           NEW p \in [conns_max_ : A, conns_in_use_ : B, idle : C, broken : D]
    PROVE  [p EXCEPT !.conns_in_use_ = x, !.idle = y]
              \in [conns_max_ : A, conns_in_use_ : B, idle : C, broken : D]
OBVIOUS

LEMMA ReleaseType ==
    ASSUME NEW p \in Shards!Pools
    PROVE  /\ Shards!Release(p) \in Shards!Pools
           /\ Shards!Release(p).conns_in_use_ = p.conns_in_use_ - 1
           /\ Shards!Release(p).broken = p.broken
<1>1. p.conns_in_use_ - 1 \in Int /\ p.idle + 1 \in Int  BY DEF Shards!Pools
<1>2. Shards!Release(p) \in Shards!Pools
  BY <1>1, PoolUpdate DEF Shards!Release, Shards!Pools
<1>3. /\ Shards!Release(p).conns_in_use_ = p.conns_in_use_ - 1
      /\ Shards!Release(p).broken = p.broken
  BY DEF Shards!Release, Shards!Pools
<1> QED  BY <1>2, <1>3

LEMMA GrabType ==
    ASSUME Shards!TypeOK, NEW s \in DOMAIN shards, NEW k \in Int, NEW c \in BOOLEAN
    PROVE  /\ Shards!Grab(s, k, c) \in Shards!Pools
           /\ Shards!Got(s, k, c) \in {s, Shards!NoShard}
           /\ kind = "redis" => Shards!Got(s, k, c) = s
           /\ Shards!Grab(s, k, c).conns_in_use_ = shards[s].conns_in_use_ + 1
           /\ Shards!Grab(s, k, c).broken =
                IF Shards!Got(s, k, c) = s THEN shards[s].broken ELSE shards[s].broken + 1
<1> DEFINE p == shards[s]
<1>1. p \in Shards!Pools /\ s # Shards!NoShard  BY DEF Shards!TypeOK
<1>2. p.conns_in_use_ \in Int /\ p.broken \in Int  BY <1>1 DEF Shards!Pools
<1>3. CASE k > 0
  <2>1. Shards!Grab(s, k, c) = [conns_max_ |-> p.conns_max_,
            conns_in_use_ |-> p.conns_in_use_ + 1,
                         idle |-> k - 1, broken |-> p.broken]
    BY <1>1, <1>3 DEF Shards!Grab, Shards!Pools
  <2>2. Shards!Got(s, k, c) = s  BY <1>3 DEF Shards!Got
  <2> QED  BY <1>1, <1>2, <2>1, <2>2 DEF Shards!Pools
<1>4. CASE ~(k > 0)
  <2>1. Shards!Got(s, k, c) = Shards!NewShard(s, c)  BY <1>4 DEF Shards!Got
  <2>2. Shards!Grab(s, k, c) = [conns_max_ |-> p.conns_max_,
            conns_in_use_ |-> p.conns_in_use_ + 1,
                         idle |-> 0,
                         broken |-> IF Shards!NewShard(s, c) = s THEN p.broken
                             ELSE p.broken + 1]
    BY <1>1, <1>4 DEF Shards!Grab, Shards!Pools
  <2>3. Shards!Grab(s, k, c) \in Shards!Pools  BY <1>1, <1>2, <2>2 DEF Shards!Pools
  <2>4. Shards!NewShard(s, c) \in {s, Shards!NoShard} /\ (kind = "redis"
        => Shards!NewShard(s, c) = s)
    BY DEF Shards!NewShard
  <2> QED  BY <2>1, <2>2, <2>3, <2>4
<1> QED  BY <1>3, <1>4

LEMMA ShardInitIInv == ShardConfig /\ Shards!Init => Shards!IInv
<1> SUFFICES ASSUME ShardConfig, Shards!Init PROVE Shards!IInv  OBVIOUS
<1>1. DOMAIN shards = {}  BY DEF Shards!Init
<1>2. Shards!TypeOK
  BY <1>1 DEF ShardConfig, Shards!Init, Shards!TypeOK, Shards!NoShard, Shards!Urls
<1>3. Shards!Places  BY <1>1 DEF Shards!Init, Shards!Places
<1>4. Shards!PlacesAreKept  BY <1>1 DEF Shards!PlacesAreKept
<1> QED  BY <1>2, <1>3, <1>4 DEF Shards!IInv

(***************************************************************************)
(* Every step keeps the types.                                             *)
(***************************************************************************)
LEMMA ShardTypeStep == ShardConfig /\ Shards!TypeOK /\ Shards!Places
      /\ [Shards!Next]_shardvars => Shards!TypeOK'
<1> SUFFICES ASSUME ShardConfig, Shards!TypeOK, Shards!Places, [Shards!Next]_shardvars
         PROVE Shards!TypeOK'  OBVIOUS
<1>1. ASSUME NEW u \in urls, Shards!addSharding(u) PROVE Shards!TypeOK'
  <2>1. u \in Shards!Urls  BY DEF Shards!TypeOK
  <2>2. Shards!setServerAddress(u) \in Shards!Pools
    BY <2>1 DEF Shards!setServerAddress, Shards!Urls, Shards!Pools
  <2>3. CASE Shards!addShard(u) = shards
    BY <1>1, <2>3 DEF Shards!addSharding, Shards!TypeOK
  <2>4. CASE Shards!addShard(u) # shards
    <3>1. u.shard \in Int \ {Shards!NoShard}
      BY <2>1, <2>4 DEF Shards!addShard, Shards!Urls, Shards!NoShard
    <3>2. DOMAIN shards' = DOMAIN shards \cup {u.shard}
      BY <1>1, <2>4 DEF Shards!addSharding, Shards!addShard
    <3>3. shards' \in [DOMAIN shards' -> Shards!Pools]
      BY <1>1, <2>2, <2>4, <3>2 DEF Shards!addSharding, Shards!addShard, Shards!TypeOK
    <3>4. DOMAIN shards' \subseteq Int \ {Shards!NoShard}
      BY <3>1, <3>2 DEF Shards!TypeOK
    <3> QED  BY <1>1, <3>3, <3>4 DEF Shards!addSharding, Shards!TypeOK
  <2> QED  BY <2>3, <2>4
<1>2. ASSUME NEW u \in urls, Shards!addShardingsFails(u) PROVE Shards!TypeOK'
  BY <1>2 DEF Shards!addShardingsFails, Shards!TypeOK
<1>3. CASE Shards!Ready
  <2>1. shardnum \in Nat  BY DEF Shards!TypeOK, ShardConfig
  <2>2. 0 .. shardnum - 1 \subseteq Nat  BY <2>1
  <2> QED  BY <1>3, <2>2 DEF Shards!Ready, Shards!TypeOK
<1>4. ASSUME NEW s \in toinit, NEW c \in BOOLEAN, Shards!init(s, c) PROVE Shards!TypeOK'
  <2>1. s \in DOMAIN shards  BY DEF Shards!Places
  <2>2. shards[s].idle \in Int  BY <2>1 DEF Shards!TypeOK, Shards!Pools
  <2>3. Shards!Grab(s, shards[s].idle, c) \in Shards!Pools  BY <2>1, <2>2, GrabType
  <2>4. Shards!Release(Shards!Grab(s, shards[s].idle, c)) \in Shards!Pools
    BY <2>3, ReleaseType
  <2> QED  BY <1>4, <2>1, <2>3, <2>4 DEF Shards!init, Shards!TypeOK
<1>5. CASE Shards!Run  BY <1>5 DEF Shards!Run, Shards!TypeOK
<1>6. ASSUME NEW t \in Threads, Shards!Lookup(t) PROVE Shards!TypeOK'
  <2>1. Shards!getShardByHash(hash[t]) \in DOMAIN shards
        => Shards!getShardByHash(hash[t]) \in Int
    BY DEF Shards!TypeOK
  <2> QED  BY <1>6, <2>1 DEF Shards!Lookup, Shards!startvars, Shards!TypeOK
<1>7. ASSUME NEW t \in Threads, Shards!PassLimit(t) PROVE Shards!TypeOK'
  BY <1>7 DEF Shards!PassLimit, Shards!startvars, Shards!TypeOK
<1>8. ASSUME NEW t \in Threads, Shards!Take(t) PROVE Shards!TypeOK'
  <2>1. from[t] \in DOMAIN shards  BY <1>8 DEF Shards!Take, Shards!Places
  <2>2. shards[from[t]].idle \in Int  BY <2>1 DEF Shards!TypeOK, Shards!Pools
  <2>3. PICK k \in Shards!KeptIdle(shards[from[t]]), c \in BOOLEAN :
          /\ shards' = [shards EXCEPT ![from[t]] = Shards!Grab(from[t], k, c)]
          /\ conn' = [conn EXCEPT ![t] = Shards!Got(from[t], k, c)]
    BY <1>8 DEF Shards!Take
  <2>4. k \in Int  BY <2>2 DEF Shards!KeptIdle
  <2>5. Shards!Grab(from[t], k, c) \in Shards!Pools
        /\ Shards!Got(from[t], k, c) \in {from[t], Shards!NoShard}
    BY <2>1, <2>4, GrabType
  <2>6. Shards!Got(from[t], k, c) \in Int  BY <2>5 DEF Shards!TypeOK, Shards!NoShard
  <2> QED  BY <1>8, <2>3, <2>5, <2>6 DEF Shards!Take, Shards!startvars, Shards!TypeOK
<1>9. ASSUME NEW t \in Threads, Shards!putback(t) PROVE Shards!TypeOK'
  <2>1. \A s \in DOMAIN shards : Shards!Release(shards[s]) \in Shards!Pools
    BY ReleaseType DEF Shards!TypeOK
  <2>2. Shards!NoShard \in Int  BY DEF Shards!NoShard
  <2> QED  BY <1>9, <2>1, <2>2 DEF Shards!putback, Shards!startvars, Shards!TypeOK
<1>10. ASSUME NEW t \in Threads, NEW h \in 0 .. M - 1, Shards!Ask(t, h)
  PROVE Shards!TypeOK'
  <2>1. h \in Nat  BY DEF ShardConfig
  <2> QED  BY <1>10, <2>1 DEF Shards!Ask, Shards!startvars, Shards!TypeOK
<1>11. CASE Shards!fini  BY <1>11 DEF Shards!fini, Shards!TypeOK
<1>12. CASE UNCHANGED shardvars  BY <1>12 DEF shardvars, Shards!TypeOK
<1> QED  BY <1>1, <1>2, <1>3, <1>4, <1>5, <1>6, <1>7, <1>8, <1>9, <1>10, <1>11, <1>12
         DEF Shards!Next, Shards!Acquiring

(***************************************************************************)
(* Every step keeps threads at pools that exist.                           *)
(***************************************************************************)
LEMMA ShardPlacesStep == ShardConfig /\ Shards!TypeOK /\ Shards!Places
      /\ [Shards!Next]_shardvars => Shards!Places'
<1> SUFFICES ASSUME ShardConfig, Shards!TypeOK, Shards!Places, [Shards!Next]_shardvars
         PROVE Shards!Places'  OBVIOUS
<1>1. ASSUME NEW u \in urls, Shards!addSharding(u) PROVE Shards!Places'
  <2>1. DOMAIN shards \subseteq DOMAIN shards'
    BY <1>1 DEF Shards!addSharding, Shards!addShard
  <2> QED  BY <1>1, <2>1 DEF Shards!addSharding, Shards!Places
<1>2. ASSUME NEW u \in urls, Shards!addShardingsFails(u) PROVE Shards!Places'
  BY <1>2 DEF Shards!addShardingsFails, Shards!Places
<1>3. CASE Shards!Ready  BY <1>3 DEF Shards!Ready, Shards!isReady, Shards!Places
<1>4. ASSUME NEW s \in toinit, NEW c \in BOOLEAN, Shards!init(s, c) PROVE Shards!Places'
  <2>1. DOMAIN shards' = DOMAIN shards  BY <1>4 DEF Shards!init
  <2> QED  BY <1>4, <2>1 DEF Shards!init, Shards!Places
<1>5. CASE Shards!Run  BY <1>5 DEF Shards!Run, Shards!Places
<1>6. ASSUME NEW t \in Threads, Shards!Lookup(t) PROVE Shards!Places'
  BY <1>6 DEF Shards!Lookup, Shards!startvars, Shards!Places, Shards!TypeOK
<1>7. ASSUME NEW t \in Threads, Shards!PassLimit(t) PROVE Shards!Places'
  BY <1>7 DEF Shards!PassLimit, Shards!startvars, Shards!Places, Shards!TypeOK
<1>8. ASSUME NEW t \in Threads, Shards!Take(t) PROVE Shards!Places'
  <2>1. from[t] \in DOMAIN shards  BY <1>8 DEF Shards!Take, Shards!Places
  <2>2. shards[from[t]].idle \in Int  BY <2>1 DEF Shards!TypeOK, Shards!Pools
  <2>3. PICK k \in Shards!KeptIdle(shards[from[t]]), c \in BOOLEAN :
          /\ shards' = [shards EXCEPT ![from[t]] = Shards!Grab(from[t], k, c)]
          /\ conn' = [conn EXCEPT ![t] = Shards!Got(from[t], k, c)]
    BY <1>8 DEF Shards!Take
  <2>4. k \in Int  BY <2>2 DEF Shards!KeptIdle
  <2>5. Shards!Got(from[t], k, c) \in {from[t], Shards!NoShard}  BY <2>1, <2>4, GrabType
  <2>6. DOMAIN shards' = DOMAIN shards  BY <2>3
  <2> QED  BY <1>8, <2>1, <2>3, <2>5, <2>6
    DEF Shards!Take, Shards!startvars, Shards!Places, Shards!TypeOK
<1>9. ASSUME NEW t \in Threads, Shards!putback(t) PROVE Shards!Places'
  <2>1. DOMAIN shards' = DOMAIN shards  BY <1>9 DEF Shards!putback
  <2> QED  BY <1>9, <2>1
    DEF Shards!putback, Shards!startvars, Shards!Places, Shards!TypeOK
<1>10. ASSUME NEW t \in Threads, NEW h \in 0 .. M - 1, Shards!Ask(t, h)
  PROVE Shards!Places'
  BY <1>10 DEF Shards!Ask, Shards!startvars, Shards!Places, Shards!TypeOK
<1>11. CASE Shards!fini  BY <1>11 DEF Shards!fini, Shards!Places
<1>12. CASE UNCHANGED shardvars  BY <1>12 DEF shardvars, Shards!Places
<1> QED  BY <1>1, <1>2, <1>3, <1>4, <1>5, <1>6, <1>7, <1>8, <1>9, <1>10, <1>11, <1>12
         DEF Shards!Next, Shards!Acquiring

(***************************************************************************)
(* The instance's cardinality is that of the theorems about finite sets.   *)
(***************************************************************************)
LEMMA SameCardinality == \A S : Shards!Cardinality(S) = Cardinality(S)
BY DEF Shards!Cardinality, Cardinality

(***************************************************************************)
(* Cardinalities of sets of threads.                                       *)
(***************************************************************************)
LEMMA ThreadSets ==
    ASSUME IsFiniteSet(Threads), NEW S \in SUBSET Threads
    PROVE  /\ IsFiniteSet(S) /\ Cardinality(S) \in Nat
           /\ S = {} => Cardinality(S) = 0
           /\ \A t \in Threads \ S : Cardinality(S \cup {t}) = Cardinality(S) + 1
           /\ \A t \in S : Cardinality(S \ {t}) = Cardinality(S) - 1
<1>1. IsFiniteSet(S)  BY FS_Subset
<1>2. Cardinality(S) \in Nat  BY <1>1, FS_CardinalityType
<1>3. S = {} => Cardinality(S) = 0  BY FS_EmptySet
<1>4. \A t \in Threads \ S : Cardinality(S \cup {t}) = Cardinality(S) + 1
  BY <1>1, FS_AddElement
<1>5. \A t \in S : Cardinality(S \ {t}) = Cardinality(S) - 1
  BY <1>1, FS_RemoveElement
<1> QED  BY <1>1, <1>2, <1>3, <1>4, <1>5

(***************************************************************************)
(* The property of one shard, given its pool and the two sets of threads.  *)
(***************************************************************************)
ShardKept(p, H, B) ==
    /\ p.conns_in_use_ = Cardinality(H) + p.broken
    /\ Cardinality(B) <= p.broken
    /\ kind = "redis" => p.broken = 0

(***************************************************************************)
(* A step that leaves the users of the connections alone.                  *)
(***************************************************************************)
LEMMA SameUsers ==
    ASSUME Shards!PlacesAreKept, kind' = kind,
           \A s \in DOMAIN shards' : /\ Shards!Users(s)' = Shards!Users(s)
                                      /\ Shards!Holding(s)' = Shards!Holding(s)
                                      /\ s \in DOMAIN shards /\ shards'[s] = shards[s]
    PROVE  Shards!PlacesAreKept'
BY DEF Shards!PlacesAreKept

(***************************************************************************)
(* Every step keeps the places: init() and Take count one in, putback()    *)
(* counts one out of the pool it was taken from.                           *)
(***************************************************************************)
LEMMA ShardKeptStep == ShardConfig /\ Shards!IInv /\ [Shards!Next]_shardvars
      => Shards!PlacesAreKept'
<1> SUFFICES ASSUME ShardConfig, Shards!IInv, [Shards!Next]_shardvars
  PROVE Shards!PlacesAreKept'  OBVIOUS
<1> USE DEF Shards!IInv
<1>0. IsFiniteSet(Threads)  BY DEF ShardConfig
<1>1. ASSUME NEW u \in urls, Shards!addSharding(u) PROVE Shards!PlacesAreKept'
  <2>1. \A t \in Threads : at[t] = "out"  BY <1>1 DEF Shards!addSharding, Shards!Places
  <2>2. at' = at /\ from' = from /\ conn' = conn /\ kind' = kind
    BY <1>1 DEF Shards!addSharding
  <2>3. \A s : Shards!Users(s)' = {} /\ Shards!Holding(s)' = {} /\ Shards!Users(s) = {}
        /\ Shards!Holding(s) = {}
    BY <2>1, <2>2 DEF Shards!Users, Shards!Holding
  <2>4. CASE Shards!addShard(u) = shards
    BY <1>1, <2>2, <2>3, <2>4, SameUsers DEF Shards!addSharding
  <2>5. CASE Shards!addShard(u) # shards
    <3> SUFFICES ASSUME NEW s \in DOMAIN shards'
                 PROVE  ShardKept(shards[s], Shards!Holding(s),
                            Shards!Users(s) \ Shards!Holding(s))'
      BY SameCardinality DEF Shards!PlacesAreKept, ShardKept
    <3>1. CASE s = u.shard
      <4>1. shards'[s] = Shards!setServerAddress(u)
        BY <1>1, <2>5, <3>1 DEF Shards!addSharding, Shards!addShard
      <4>2. shards'[s].conns_in_use_ = 0 /\ shards'[s].broken = 0
        BY <4>1 DEF Shards!setServerAddress
      <4>3. Cardinality({}) = 0  BY FS_EmptySet
      <4>4. Shards!Holding(s)' = {} /\ (Shards!Users(s) \ Shards!Holding(s))' = {}
        BY <2>3
      <4> QED  BY <4>2, <4>3, <4>4 DEF ShardKept
    <3>2. CASE s # u.shard
      <4>1. s \in DOMAIN shards /\ shards'[s] = shards[s]
        BY <1>1, <2>5, <3>2 DEF Shards!addSharding, Shards!addShard
      <4>2. Shards!Holding(s)' = Shards!Holding(s)
            /\ (Shards!Users(s) \ Shards!Holding(s))'
                   = Shards!Users(s) \ Shards!Holding(s)
        BY <2>3
      <4> QED  BY <2>2, <4>1, <4>2, SameCardinality DEF Shards!PlacesAreKept, ShardKept
    <3> QED  BY <3>1, <3>2
  <2> QED  BY <2>4, <2>5
<1>2. ASSUME NEW u \in urls, Shards!addShardingsFails(u) PROVE Shards!PlacesAreKept'
  BY <1>2 DEF Shards!addShardingsFails, Shards!PlacesAreKept
<1>3. CASE Shards!Ready \/ Shards!Run \/ UNCHANGED shardvars
  <2>1. UNCHANGED <<shards, at, from, conn, kind>>
    BY <1>3 DEF Shards!Ready, Shards!Run, shardvars
  <2> QED  BY <2>1, SameUsers DEF Shards!Users, Shards!Holding
<1>4. ASSUME NEW i \in toinit, NEW c \in BOOLEAN, Shards!init(i, c)
  PROVE Shards!PlacesAreKept'
  <2> DEFINE k == shards[i].idle
  <2>1. \A t \in Threads : at[t] = "out"  BY <1>4 DEF Shards!init, Shards!Places
  <2>2. at' = at /\ from' = from /\ conn' = conn /\ kind' = kind  BY <1>4 DEF Shards!init
  <2>3. \A s : Shards!Users(s)' = {} /\ Shards!Holding(s)' = {} /\ Shards!Users(s) = {}
        /\ Shards!Holding(s) = {}
    BY <2>1, <2>2 DEF Shards!Users, Shards!Holding
  <2>4. i \in DOMAIN shards /\ k \in Int
    BY DEF Shards!Places, Shards!TypeOK, Shards!Pools
  <2>5. shards' = [shards EXCEPT ![i] = IF Shards!Got(i, k, c) = i
            THEN Shards!Release(Shards!Grab(i, k, c))
                                                             ELSE Shards!Grab(i, k, c)]
    BY <1>4 DEF Shards!init
  <2> HIDE DEF k
  <2>6. /\ Shards!Grab(i, k, c) \in Shards!Pools
        /\ Shards!Got(i, k, c) \in {i, Shards!NoShard}
        /\ kind = "redis" => Shards!Got(i, k, c) = i
        /\ Shards!Grab(i, k, c).conns_in_use_ = shards[i].conns_in_use_ + 1
        /\ Shards!Grab(i, k, c).broken =
              IF Shards!Got(i, k, c) = i THEN shards[i].broken ELSE shards[i].broken + 1
    BY <2>4, GrabType
  <2>7. /\ Shards!Release(Shards!Grab(i, k, c)).conns_in_use_
               = Shards!Grab(i, k, c).conns_in_use_ - 1
        /\ Shards!Release(Shards!Grab(i, k, c)).broken = Shards!Grab(i, k, c).broken
    BY <2>6, ReleaseType
  <2>8. shards[i].conns_in_use_ \in Int /\ shards[i].broken \in Int
    BY <2>4 DEF Shards!TypeOK, Shards!Pools
  <2> SUFFICES ASSUME NEW s \in DOMAIN shards'
               PROVE  ShardKept(shards[s], Shards!Holding(s),
                          Shards!Users(s) \ Shards!Holding(s))'
    BY SameCardinality DEF Shards!PlacesAreKept, ShardKept
  <2>9. Shards!Holding(s)' = Shards!Holding(s)
        /\ (Shards!Users(s) \ Shards!Holding(s))' = Shards!Users(s) \ Shards!Holding(s)
    BY <2>3
  <2>10. s \in DOMAIN shards  BY <2>5
  <2>11. ShardKept(shards[s], Shards!Holding(s), Shards!Users(s) \ Shards!Holding(s))
    BY <2>10, SameCardinality DEF Shards!PlacesAreKept, ShardKept
  <2>12. CASE s # i
    <3>1. shards'[s] = shards[s]  BY <2>5, <2>10, <2>12
    <3> QED  BY <2>2, <2>9, <2>11, <3>1 DEF ShardKept
  <2>13. CASE s = i
    <3>1. Cardinality(Shards!Holding(s)) \in Nat
          /\ Cardinality(Shards!Users(s) \ Shards!Holding(s)) \in Nat
      BY <1>0, <2>3, ThreadSets
    <3>2. CASE Shards!Got(i, k, c) = i
      <4>1. shards'[s] = Shards!Release(Shards!Grab(i, k, c))  BY <2>4, <2>5, <2>13, <3>2
      <4>2. /\ shards'[s].conns_in_use_ = shards[s].conns_in_use_
            /\ shards'[s].broken = shards[s].broken
        BY <2>6, <2>7, <2>8, <2>13, <3>2, <4>1
      <4> QED  BY <2>2, <2>9, <2>11, <4>2 DEF ShardKept
    <3>3. CASE Shards!Got(i, k, c) # i
      <4>1. shards'[s] = Shards!Grab(i, k, c)  BY <2>4, <2>5, <2>13, <3>3
      <4>2. /\ shards'[s].conns_in_use_ = shards[s].conns_in_use_ + 1
            /\ shards'[s].broken = shards[s].broken + 1
            /\ kind # "redis"
        BY <2>6, <2>13, <3>3, <4>1
      <4>3. /\ Cardinality(Shards!Holding(s)') = Cardinality(Shards!Holding(s))
            /\ Cardinality((Shards!Users(s) \ Shards!Holding(s))')
                   = Cardinality(Shards!Users(s) \ Shards!Holding(s))
        BY <2>9, Zenon
      <4>4. /\ shards[s].conns_in_use_ = Cardinality(Shards!Holding(s)) + shards[s].broken
            /\ Cardinality(Shards!Users(s) \ Shards!Holding(s)) <= shards[s].broken
            /\ kind = "redis" => shards[s].broken = 0
        BY <2>11 DEF ShardKept
      <4>5. /\ shards'[s].conns_in_use_
                   = Cardinality(Shards!Holding(s)') + shards'[s].broken
            /\ Cardinality((Shards!Users(s) \ Shards!Holding(s))') <= shards'[s].broken
            /\ kind = "redis" => shards'[s].broken = 0
        BY <2>8, <2>13, <3>1, <4>2, <4>3, <4>4
      <4> QED  BY <2>2, <4>5 DEF ShardKept
    <3> QED  BY <3>2, <3>3
  <2> QED  BY <2>12, <2>13
<1>5. ASSUME NEW t \in Threads,
             \/ Shards!Lookup(t) \/ Shards!PassLimit(t)
             \/ \E h \in 0 .. M - 1 : Shards!Ask(t, h)
      PROVE Shards!PlacesAreKept'
  <2>1. UNCHANGED <<shards, conn, kind>>
    BY <1>5 DEF Shards!Lookup, Shards!PassLimit, Shards!Ask, Shards!startvars
  <2>2. \A s : Shards!Users(s)' = Shards!Users(s)
    BY <1>5 DEF Shards!Lookup, Shards!PassLimit, Shards!Ask, Shards!Users, Shards!TypeOK
  <2>3. \A s : Shards!Holding(s)' = Shards!Holding(s)  BY <2>1, <2>2 DEF Shards!Holding
  <2> QED  BY <2>1, <2>2, <2>3, SameUsers
<1>6. ASSUME NEW t \in Threads, Shards!Take(t) PROVE Shards!PlacesAreKept'
  <2> DEFINE i == from[t]
  <2>1. i \in DOMAIN shards /\ t \notin Shards!Users(i)
    BY <1>6 DEF Shards!Take, Shards!Places, Shards!Users
  <2>2. shards[i].idle \in Int  BY <2>1 DEF Shards!TypeOK, Shards!Pools
  <2>3. PICK k \in Shards!KeptIdle(shards[i]), c \in BOOLEAN :
          /\ shards' = [shards EXCEPT ![i] = Shards!Grab(i, k, c)]
          /\ conn' = [conn EXCEPT ![t] = Shards!Got(i, k, c)]
    BY <1>6 DEF Shards!Take
  <2>4. k \in Int  BY <2>2 DEF Shards!KeptIdle
  <2>5. /\ Shards!Got(i, k, c) \in {i, Shards!NoShard}
        /\ kind = "redis" => Shards!Got(i, k, c) = i
        /\ Shards!Grab(i, k, c).conns_in_use_ = shards[i].conns_in_use_ + 1
        /\ Shards!Grab(i, k, c).broken =
              IF Shards!Got(i, k, c) = i THEN shards[i].broken ELSE shards[i].broken + 1
    BY <2>1, <2>4, GrabType
  <2>6. /\ at' = [at EXCEPT ![t] = "use"] /\ from' = from /\ kind' = kind
        /\ at[t] = "grab"
    BY <1>6 DEF Shards!Take, Shards!startvars
  <2> SUFFICES ASSUME NEW s \in DOMAIN shards'
               PROVE  ShardKept(shards[s], Shards!Holding(s),
                          Shards!Users(s) \ Shards!Holding(s))'
    BY SameCardinality DEF Shards!PlacesAreKept, ShardKept
  <2>7. s \in DOMAIN shards  BY <2>3
  <2>8. ShardKept(shards[s], Shards!Holding(s), Shards!Users(s) \ Shards!Holding(s))
    BY <2>7, SameCardinality DEF Shards!PlacesAreKept, ShardKept
  <2>9. shards[s].conns_in_use_ \in Int /\ shards[s].broken \in Int
    BY <2>7 DEF Shards!TypeOK, Shards!Pools
  <2>10. Shards!Holding(s) \subseteq Threads /\ Shards!Users(s) \subseteq Threads
    BY DEF Shards!Holding, Shards!Users
  <2>11. CASE s # i
    <3>1. shards'[s] = shards[s]  BY <2>3, <2>7, <2>11
    <3>2. Shards!Users(s)' = Shards!Users(s)
      BY <2>6, <2>11 DEF Shards!Users, Shards!TypeOK
    <3>3. Shards!Holding(s)' = Shards!Holding(s)
      BY <2>3, <2>6, <2>11, <3>2 DEF Shards!Holding, Shards!Users, Shards!TypeOK
    <3> QED  BY <2>6, <2>8, <3>1, <3>2, <3>3 DEF ShardKept
  <2>12. CASE s = i
    <3>1. shards'[s] = Shards!Grab(i, k, c)  BY <2>1, <2>3, <2>12
    <3>2. Shards!Users(s)' = Shards!Users(s) \cup {t}
      BY <2>6, <2>12 DEF Shards!Users, Shards!TypeOK
    <3>3. /\ Cardinality(Shards!Holding(s)) \in Nat
          /\ Cardinality(Shards!Users(s) \ Shards!Holding(s)) \in Nat
      BY <1>0, <2>10, ThreadSets
    <3>4. CASE Shards!Got(i, k, c) = i
      <4>1. Shards!Holding(s)' = Shards!Holding(s) \cup {t}
        BY <2>1, <2>3, <2>12, <3>2, <3>4 DEF Shards!Holding, Shards!TypeOK
      <4>2. (Shards!Users(s) \ Shards!Holding(s))' = Shards!Users(s) \ Shards!Holding(s)
        BY <2>1, <2>12, <3>2, <4>1
      <4>3. Cardinality(Shards!Holding(s) \cup {t}) = Cardinality(Shards!Holding(s)) + 1
        BY <1>0, <2>1, <2>10, <2>12, ThreadSets DEF Shards!Holding
      <4>4. /\ shards'[s].conns_in_use_ = shards[s].conns_in_use_ + 1
            /\ shards'[s].broken = shards[s].broken
        BY <2>5, <2>12, <3>1, <3>4
      <4>5. /\ Cardinality(Shards!Holding(s)') = Cardinality(Shards!Holding(s)) + 1
            /\ Cardinality((Shards!Users(s) \ Shards!Holding(s))')
                   = Cardinality(Shards!Users(s) \ Shards!Holding(s))
        BY <4>1, <4>2, <4>3, Zenon
      <4>6. /\ shards[s].conns_in_use_ = Cardinality(Shards!Holding(s)) + shards[s].broken
            /\ Cardinality(Shards!Users(s) \ Shards!Holding(s)) <= shards[s].broken
            /\ kind = "redis" => shards[s].broken = 0
        BY <2>8 DEF ShardKept
      <4>7. /\ shards'[s].conns_in_use_
                   = Cardinality(Shards!Holding(s)') + shards'[s].broken
            /\ Cardinality((Shards!Users(s) \ Shards!Holding(s))') <= shards'[s].broken
            /\ kind = "redis" => shards'[s].broken = 0
        BY <2>9, <3>3, <4>4, <4>5, <4>6
      <4> QED  BY <2>6, <4>7 DEF ShardKept
    <3>5. CASE Shards!Got(i, k, c) # i
      <4>1. Shards!Holding(s)' = Shards!Holding(s)
        BY <2>1, <2>3, <2>12, <3>2, <3>5 DEF Shards!Holding, Shards!TypeOK
      <4>2. (Shards!Users(s) \ Shards!Holding(s))'
                = (Shards!Users(s) \ Shards!Holding(s)) \cup {t}
        BY <2>1, <2>12, <3>2, <4>1 DEF Shards!Holding
      <4>3. Cardinality((Shards!Users(s) \ Shards!Holding(s)) \cup {t})
                = Cardinality(Shards!Users(s) \ Shards!Holding(s)) + 1
        BY <1>0, <2>1, <2>10, <2>12, ThreadSets
      <4>4. /\ shards'[s].conns_in_use_ = shards[s].conns_in_use_ + 1
            /\ shards'[s].broken = shards[s].broken + 1
            /\ kind # "redis"
        BY <2>5, <2>12, <3>1, <3>5
      <4>5. /\ Cardinality(Shards!Holding(s)') = Cardinality(Shards!Holding(s))
            /\ Cardinality((Shards!Users(s) \ Shards!Holding(s))')
                   = Cardinality(Shards!Users(s) \ Shards!Holding(s)) + 1
        BY <4>1, <4>2, <4>3, Zenon
      <4>6. /\ shards[s].conns_in_use_ = Cardinality(Shards!Holding(s)) + shards[s].broken
            /\ Cardinality(Shards!Users(s) \ Shards!Holding(s)) <= shards[s].broken
            /\ kind = "redis" => shards[s].broken = 0
        BY <2>8 DEF ShardKept
      <4>7. /\ shards'[s].conns_in_use_
                   = Cardinality(Shards!Holding(s)') + shards'[s].broken
            /\ Cardinality((Shards!Users(s) \ Shards!Holding(s))') <= shards'[s].broken
            /\ kind = "redis" => shards'[s].broken = 0
        BY <2>9, <3>3, <4>4, <4>5, <4>6
      <4> QED  BY <2>6, <4>7 DEF ShardKept
    <3> QED  BY <3>4, <3>5
  <2> QED  BY <2>11, <2>12
<1>7. ASSUME NEW t \in Threads, Shards!putback(t) PROVE Shards!PlacesAreKept'
  <2> DEFINE i == from[t]
  <2>1. /\ at[t] = "use" /\ kind' = kind
        /\ at' = [at EXCEPT ![t] = "out"]
        /\ from' = [from EXCEPT ![t] = Shards!NoShard]
              /\ conn' = [conn EXCEPT ![t] = Shards!NoShard]
        /\ shards' = IF conn[t] \in DOMAIN shards
                      THEN [shards EXCEPT ![conn[t]] = Shards!Release(shards[conn[t]])]
                          ELSE shards
    BY <1>7 DEF Shards!putback, Shards!startvars
  <2>2. i \in DOMAIN shards /\ conn[t] \in {i, Shards!NoShard}
        /\ Shards!NoShard \notin DOMAIN shards
    BY <2>1 DEF Shards!Places, Shards!TypeOK
  <2>3. t \in Shards!Users(i)  BY <2>1 DEF Shards!Users
  <2>4. DOMAIN shards' = DOMAIN shards  BY <2>1
  <2> SUFFICES ASSUME NEW s \in DOMAIN shards
               PROVE  ShardKept(shards[s], Shards!Holding(s),
                          Shards!Users(s) \ Shards!Holding(s))'
    BY <2>4, SameCardinality DEF Shards!PlacesAreKept, ShardKept
  <2>5. ShardKept(shards[s], Shards!Holding(s), Shards!Users(s) \ Shards!Holding(s))
    BY SameCardinality DEF Shards!PlacesAreKept, ShardKept
  <2>6. shards[s].conns_in_use_ \in Int /\ shards[s].broken \in Int
    BY DEF Shards!TypeOK, Shards!Pools
  <2>7. Shards!Holding(s) \subseteq Threads /\ Shards!Users(s) \subseteq Threads
    BY DEF Shards!Holding, Shards!Users
  <2>8. Shards!Users(s)' = Shards!Users(s) \ {t}  BY <2>1 DEF Shards!Users, Shards!TypeOK
  <2>9. Shards!Holding(s)' = Shards!Holding(s) \ {t}
    BY <2>1, <2>8 DEF Shards!Holding, Shards!TypeOK
  <2>10. CASE s # i
    <3>1. shards'[s] = shards[s]  BY <2>1, <2>2, <2>10
    <3>2. t \notin Shards!Users(s) /\ t \notin Shards!Holding(s)
      BY <2>10 DEF Shards!Users, Shards!Holding
    <3>3. Shards!Users(s)' = Shards!Users(s) /\ Shards!Holding(s)' = Shards!Holding(s)
      BY <2>8, <2>9, <3>2
    <3> QED  BY <2>1, <2>5, <3>1, <3>3 DEF ShardKept
  <2>11. CASE s = i
    <3>1. /\ Cardinality(Shards!Holding(s)) \in Nat
          /\ Cardinality(Shards!Users(s) \ Shards!Holding(s)) \in Nat
      BY <1>0, <2>7, ThreadSets
    <3>2. CASE conn[t] = i
      <4>1. shards'[s] = Shards!Release(shards[s])  BY <2>1, <2>2, <2>11, <3>2
      <4>2. shards[s] \in Shards!Pools  BY DEF Shards!TypeOK
      <4>3. /\ shards'[s].conns_in_use_ = shards[s].conns_in_use_ - 1
            /\ shards'[s].broken = shards[s].broken
        BY <4>1, <4>2, ReleaseType
      <4>4. t \in Shards!Holding(s)  BY <2>3, <2>11, <3>2 DEF Shards!Holding
      <4>5. Cardinality(Shards!Holding(s) \ {t}) = Cardinality(Shards!Holding(s)) - 1
        BY <1>0, <2>7, <4>4, ThreadSets
      <4>6. (Shards!Users(s) \ Shards!Holding(s))' = Shards!Users(s) \ Shards!Holding(s)
        BY <2>8, <2>9, <4>4
      <4>7. /\ Cardinality(Shards!Holding(s)') = Cardinality(Shards!Holding(s)) - 1
            /\ Cardinality((Shards!Users(s) \ Shards!Holding(s))')
                   = Cardinality(Shards!Users(s) \ Shards!Holding(s))
        BY <2>9, <4>5, <4>6, Zenon
      <4>8. /\ shards[s].conns_in_use_ = Cardinality(Shards!Holding(s)) + shards[s].broken
            /\ Cardinality(Shards!Users(s) \ Shards!Holding(s)) <= shards[s].broken
            /\ kind = "redis" => shards[s].broken = 0
        BY <2>5 DEF ShardKept
      <4>9. /\ shards'[s].conns_in_use_
                   = Cardinality(Shards!Holding(s)') + shards'[s].broken
            /\ Cardinality((Shards!Users(s) \ Shards!Holding(s))') <= shards'[s].broken
            /\ kind = "redis" => shards'[s].broken = 0
        BY <2>6, <3>1, <4>3, <4>7, <4>8
      <4> QED  BY <2>1, <4>9 DEF ShardKept
    <3>3. CASE conn[t] # i
      <4>1. shards'[s] = shards[s]  BY <2>1, <2>2, <3>3
      <4>2. t \in Shards!Users(s) \ Shards!Holding(s)
        BY <2>3, <2>11, <3>3 DEF Shards!Holding
      <4>3. Shards!Holding(s)' = Shards!Holding(s)  BY <2>9, <4>2
      <4>4. (Shards!Users(s) \ Shards!Holding(s))'
                = (Shards!Users(s) \ Shards!Holding(s)) \ {t}  BY <2>8, <4>2, <4>3
      <4>5. Cardinality((Shards!Users(s) \ Shards!Holding(s)) \ {t})
                = Cardinality(Shards!Users(s) \ Shards!Holding(s)) - 1
        BY <1>0, <2>7, <4>2, ThreadSets
      <4>6. /\ Cardinality(Shards!Holding(s)') = Cardinality(Shards!Holding(s))
            /\ Cardinality((Shards!Users(s) \ Shards!Holding(s))')
                   = Cardinality(Shards!Users(s) \ Shards!Holding(s)) - 1
        BY <4>3, <4>4, <4>5, Zenon
      <4>7. /\ shards[s].conns_in_use_ = Cardinality(Shards!Holding(s)) + shards[s].broken
            /\ Cardinality(Shards!Users(s) \ Shards!Holding(s)) <= shards[s].broken
            /\ kind = "redis" => shards[s].broken = 0
        BY <2>5 DEF ShardKept
      <4>8. /\ shards'[s].conns_in_use_
                   = Cardinality(Shards!Holding(s)') + shards'[s].broken
            /\ Cardinality((Shards!Users(s) \ Shards!Holding(s))') <= shards'[s].broken
            /\ kind = "redis" => shards'[s].broken = 0
        BY <2>6, <3>1, <4>1, <4>6, <4>7
      <4> QED  BY <2>1, <4>8 DEF ShardKept
    <3> QED  BY <3>2, <3>3
  <2> QED  BY <2>10, <2>11
<1>8. CASE Shards!fini  BY <1>8 DEF Shards!fini, Shards!PlacesAreKept
<1> QED  BY <1>1, <1>2, <1>3, <1>4, <1>5, <1>6, <1>7, <1>8
  DEF Shards!Next, Shards!Acquiring

-----------------------------------------------------------------------------
(***************************************************************************)
(* Whatever threads, shards and limits there are: putback() gives every    *)
(* place back to the shard it was taken from, except the places of MySQL   *)
(* connections whose connect() failed, and Redis loses none.               *)
(***************************************************************************)
THEOREM PlacesAlwaysKept == ASSUME ShardConfig PROVE PoolsSpec => []PlacesAreKept
<1>1. PoolsInit => Shards!IInv  BY ShardInitIInv DEF PoolsInit
<1>2. Shards!IInv /\ [Shards!Next]_shardvars => Shards!IInv'
  BY ShardTypeStep, ShardPlacesStep, ShardKeptStep DEF Shards!IInv
<1>3. [PoolStep \/ ShardStep]_allvars => [Shards!Next]_shardvars
  BY DEF PoolStep, ShardStep, allvars
<1>4. Shards!IInv => PlacesAreKept  BY DEF Shards!IInv, PlacesAreKept
<1> QED  BY <1>1, <1>2, <1>3, <1>4, PTL DEF PoolsSpec
=============================================================================
