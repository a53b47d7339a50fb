--------------------------- MODULE ExclusiveLease ---------------------------
(***************************************************************************)
(* What a connection pool promises its callers, with no pool in sight:     *)
(* a connection is leased to one thread at a time, and only the thread     *)
(* that holds a lease gives it up.                                         *)
(***************************************************************************)
CONSTANTS
    Threads,    \* the threads that use the pool
    Conns       \* the connection objects

VARIABLE leased \* leased[t]: the connections thread t may use

Init == leased = [t \in Threads |-> {}]

(***************************************************************************)
(* A thread obtains a connection nobody holds.                             *)
(***************************************************************************)
Lease(t, c) ==
    /\ \A u \in Threads : c \notin leased[u]
    /\ leased' = [leased EXCEPT ![t] = @ \cup {c}]

(***************************************************************************)
(* The holder gives a connection up.                                       *)
(***************************************************************************)
GiveUp(t, c) ==
    /\ c \in leased[t]
    /\ leased' = [leased EXCEPT ![t] = @ \ {c}]

Next == \E t \in Threads, c \in Conns : Lease(t, c) \/ GiveUp(t, c)

Spec == Init /\ [][Next]_leased
=============================================================================
