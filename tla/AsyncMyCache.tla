---------------------------- MODULE AsyncMyCache ----------------------------
(***************************************************************************)
(* The asynchronous client of the cache service, AsyncMyCacheClient of     *)
(* src/common/mycache.cpp, with the scheduler it runs on, AsyncRPCScheduler *)
(* of src/common/callback.cpp, which async.cpp superseded.  Any thread     *)
(* calls RPCs, alone, in series or in parallel; one thread loops: it takes *)
(* a reply, checks timeouts and sends the requests of what was called.     *)
(*                                                                         *)
(* RPCs are numbers in the order of their ids.  A composite has children   *)
(* with the ids after its own: setChildren() numbers them anew; they are   *)
(* requests, as the client's calls make them, and not composites again.    *)
(* Sending may throw, which ends the pass of the loop it happens in.       *)
(***************************************************************************)
EXTENDS Naturals, FiniteSets, FiniteSetsExt

CONSTANTS
    N,              \* the RPCs are 1 .. N
    Kind,           \* Kind[r]: "rpc", "serials" or "parallel"
    parent,         \* parent[r]: the composite r is a child of, or 0
    Timed,          \* RPCs with a timeoutms other than -1
    MaxThrows,      \* bound: requests that could not be sent
    MaxLost         \* bound: requests or replies that are lost

\* What callBySerials() and callByParallel() are given: requests, each in one
\* composite at most, and none of them a composite.
CallShapes ==
    /\ N \in Nat /\ MaxThrows \in Nat /\ MaxLost \in Nat
    /\ Kind \in [1 .. N -> {"rpc", "serials", "parallel"}]
    /\ parent \in [1 .. N -> 0 .. N]
    /\ \A r \in 1 .. N : parent[r] # 0 => Kind[r] = "rpc" /\ Kind[parent[r]] # "rpc"
    /\ Timed \subseteq 1 .. N

VARIABLES
    made,           \* composites and single RPCs that were called
    queue_ready_,
    queue_wait_,
    wait_by_time_,
    children,       \* children[r]: those that a composite still waits for
    expired,        \* RPCs whose timeoutms has passed
    zeroed,         \* composites whose timeoutms is 0
    pass,           \* where the loop is: "poll" or "timeouts"
    scan,           \* entries of wait_by_time_ this pass has still to check
    sent,           \* sent[r]: how often r's request is on its way or at mycached
    replies,        \* replies[r]: how many replies to r have arrived
    called, timeouted, canceled,    \* how often each of these ran for r
    throws, lost

queues == <<queue_ready_, queue_wait_, wait_by_time_>>
outcome == <<called, timeouted, canceled>>
vars == <<made, queues, children, expired, zeroed, pass, scan, sent, replies, outcome,
          throws, lost>>

Rpcs == 1 .. N
Composite(r) == Kind[r] # "rpc"
Parts(r) == {p \in Rpcs : parent[p] = r}

TypeOK ==
    /\ made \subseteq Rpcs /\ queue_ready_ \subseteq made
    /\ queue_wait_ \subseteq Rpcs /\ wait_by_time_ \subseteq Rpcs
    /\ children \in [Rpcs -> SUBSET Rpcs]
    /\ expired \subseteq Timed /\ zeroed \subseteq Rpcs
    /\ pass \in {"poll", "timeouts"} /\ scan \subseteq Rpcs
    /\ {sent, replies, called, timeouted, canceled} \subseteq [Rpcs -> Nat]
    /\ throws \in 0 .. MaxThrows /\ lost \in 0 .. MaxLost

Zero == [r \in Rpcs |-> 0]

\* AsyncRPC::AsyncRPC(): no children yet, and timeoutms not over.
NewRpcs ==
    /\ children = [r \in Rpcs |-> {}]
    /\ expired = {} /\ zeroed = {}
    /\ called = Zero /\ timeouted = Zero /\ canceled = Zero

Init ==
    /\ NewRpcs
    /\ made = {} /\ queue_ready_ = {} /\ queue_wait_ = {} /\ wait_by_time_ = {}
    /\ pass = "poll" /\ scan = {}
    /\ sent = Zero /\ replies = Zero
    /\ throws = 0 /\ lost = 0

More(count, S) == [r \in Rpcs |-> IF r \in S THEN count[r] + 1 ELSE count[r]]

-----------------------------------------------------------------------------
(* Other threads.                                                          *)

setChildren(r) == children' = [children EXCEPT ![r] = Parts(r)]

\* The scheduler's call(), callBySerials() and callByParallel(): into the
\* ready queue, under its lock.
Schedule(r) == setChildren(r) /\ queue_ready_' = queue_ready_ \cup {r}

\* The client's.
call(r) ==
    /\ parent[r] = 0 /\ r \notin made
    /\ made' = made \cup {r}
    /\ Schedule(r)
    /\ UNCHANGED <<queue_wait_, wait_by_time_, expired, zeroed, pass, scan, sent, replies,
                   outcome, throws, lost>>

-----------------------------------------------------------------------------
(* Requests.                                                               *)

\* What request() of a composite requests: its first child, or all.
triggerFirstRequest(r) == IF children[r] = {} THEN {} ELSE {Min(children[r])}
Requests(r) == IF Kind[r] = "serials" THEN triggerFirstRequest(r) ELSE children[r]

\* triggerRequest() for every RPC in S, of which those in out are sent.
triggerRequest(S, out) ==
    /\ wait_by_time_' = wait_by_time_ \cup {r \in S : r \in Timed \/ r \in zeroed}
    /\ sent' = More(sent, {r \in out : ~Composite(r)})

\* run(), second part, once the timeouts are checked, all under the lock of
\* the ready queue.  A request that cannot be sent throws: those behind it are
\* not requested, and none leaves the ready queue.
run ==
    /\ pass = "timeouts" /\ scan = {}
    /\ pass' = "poll"
    /\ LET R == queue_ready_ \cup UNION {Requests(r) : r \in queue_ready_}
       IN \/ /\ triggerRequest(R, R)
             /\ queue_wait_' = queue_wait_ \cup R
             /\ queue_ready_' = {}
             /\ UNCHANGED throws
          \/ \E f \in R :
                /\ ~Composite(f) /\ throws < MaxThrows
                /\ throws' = throws + 1
                /\ triggerRequest({r \in R : r <= f}, {r \in R : r < f})
                /\ queue_wait_' = queue_wait_ \cup {r \in R : r <= f}
                /\ UNCHANGED queue_ready_
    /\ UNCHANGED <<made, children, expired, zeroed, scan, replies, outcome, lost>>

-----------------------------------------------------------------------------
(* Replies.                                                                *)

\* childCalled() of a serials composite only knows its first child; the rest
\* is as in a parallel one.
childCalled(r) ==
    LET p == parent[r]
    IN IF p = 0 \/ (Kind[p] = "serials" /\ children[p] # {} /\ r # Min(children[p]))
       THEN children
       ELSE [children EXCEPT ![p] = @ \ {r}]

\* The next child of a series, requested when the one before it was called.
NextOf(r) ==
    LET p == parent[r]
    IN IF p # 0 /\ Kind[p] = "serials" /\ children[p] # {} /\ r = Min(children[p])
          /\ children[p] # {r}
       THEN {Min(children[p] \ {r})} ELSE {}

\* A composite is called when it has no children left.
Completed(r) ==
    {p \in {parent[r]} \cap queue_wait_ : childCalled(r)[p] = {}}

Ignored == UNCHANGED <<queues, children, sent, called, throws>>

\* triggerCall(), for a reply: called(), and what follows in the parent.
triggerCall(r) ==
    /\ children' = childCalled(r)
    /\ called' = More(called, {r} \cup Completed(r))
    /\ UNCHANGED queue_ready_
    /\ \/ /\ triggerRequest(NextOf(r), NextOf(r))
          /\ queue_wait_' = (queue_wait_ \cup NextOf(r)) \ ({r} \cup Completed(r))
          /\ pass' = "timeouts" /\ scan' = wait_by_time_'
          /\ UNCHANGED throws
       \/ /\ NextOf(r) # {} /\ throws < MaxThrows
          /\ throws' = throws + 1
          /\ triggerRequest(NextOf(r), {})
          /\ queue_wait_' = queue_wait_ \cup NextOf(r)
          /\ pass' = "poll" /\ UNCHANGED scan

\* loop() with a reply: onRecv().
onRecv(r) ==
    /\ pass = "poll" /\ replies[r] > 0
    /\ replies' = [replies EXCEPT ![r] = @ - 1]
    /\ IF r \in queue_wait_ THEN triggerCall(r)
       ELSE Ignored /\ pass' = "timeouts" /\ scan' = wait_by_time_
    /\ UNCHANGED <<made, expired, zeroed, timeouted, canceled, lost>>

\* loop() without one: the poll times out.
onIdle ==
    /\ pass = "poll" /\ replies = Zero
    /\ queue_ready_ # {} \/ wait_by_time_ # {}
    /\ pass' = "timeouts" /\ scan' = wait_by_time_
    /\ UNCHANGED <<made, queues, children, expired, zeroed, sent, replies, outcome, throws, lost>>

-----------------------------------------------------------------------------
(* Timeouts.                                                               *)

Elapse(r) ==
    /\ r \in Timed \cap queue_wait_ /\ r \notin expired
    /\ expired' = expired \cup {r}
    /\ UNCHANGED <<made, queues, children, zeroed, pass, scan, sent, replies, outcome, throws, lost>>

isTimeout(r) == r \in expired \/ r \in zeroed

\* A mistake OutcomeIsFinal finds: a timed out composite forgets its children
\* without cancelling them.
canceledForgets(r) ==
    /\ canceled' = canceled
    /\ queue_wait_' = queue_wait_ \ {r}

\* The children of a composite that timed out are cancelled: no reply finds
\* them any more.
canceledAll(r) ==
    /\ canceled' = More(canceled, children[r])
    /\ queue_wait_' = queue_wait_ \ ({r} \cup children[r])

\* childTimeouted(): the composite times out with the next tick.
childTimeouted(r) == zeroed' = zeroed \cup ({parent[r]} \ {0})

triggerTimeout(r) ==
    /\ timeouted' = More(timeouted, {r})
    /\ canceledAll(r)
    /\ children' = [children EXCEPT ![r] = {}]
    /\ childTimeouted(r)

\* A mistake TimedRpcEnds finds: every entry is looked at once.
CheckTimeoutOnce ==
    /\ pass = "timeouts" /\ scan # {}
    /\ LET r == Max(scan)
       IN /\ scan' = scan \ {r}
          /\ IF r \in queue_wait_ /\ isTimeout(r) THEN triggerTimeout(r)
             ELSE UNCHANGED <<timeouted, canceled, queue_wait_, children, zeroed>>
          /\ wait_by_time_' = wait_by_time_ \ {r}
    /\ UNCHANGED <<made, queue_ready_, expired, pass, sent, replies, called, throws, lost>>

\* run(), first part, by createtime: the children of a composite, made as
\* arguments of its call, before it.  An entry whose RPC has ended is dropped.
CheckTimeout ==
    /\ pass = "timeouts" /\ scan # {}
    /\ LET r == Max(scan)
       IN /\ scan' = scan \ {r}
          /\ IF r \in queue_wait_ /\ isTimeout(r) THEN triggerTimeout(r)
             ELSE UNCHANGED <<timeouted, canceled, queue_wait_, children, zeroed>>
          /\ wait_by_time_' = IF r \in queue_wait_ /\ ~isTimeout(r) THEN wait_by_time_
                                                                   ELSE wait_by_time_ \ {r}
    /\ UNCHANGED <<made, queue_ready_, expired, pass, sent, replies, called, throws, lost>>

-----------------------------------------------------------------------------
(* mycached.                                                               *)

Answer(r) ==
    /\ sent[r] > 0
    /\ sent' = [sent EXCEPT ![r] = @ - 1]
    /\ replies' = More(replies, {r})
    /\ UNCHANGED <<made, queues, children, expired, zeroed, pass, scan, outcome, throws, lost>>

Lose(r) ==
    /\ sent[r] > 0 /\ lost < MaxLost
    /\ sent' = [sent EXCEPT ![r] = @ - 1]
    /\ lost' = lost + 1
    /\ UNCHANGED <<made, queues, children, expired, zeroed, pass, scan, replies, outcome, throws>>

-----------------------------------------------------------------------------
Loop == run \/ onIdle \/ CheckTimeout \/ \E r \in Rpcs : onRecv(r)

Next == Loop \/ \E r \in Rpcs : call(r) \/ Elapse(r) \/ Answer(r) \/ Lose(r)

\* The thread of the loop keeps running, time passes, mycached answers.
Fairness ==
    /\ WF_vars(Loop)
    /\ WF_vars(\E r \in Rpcs : Elapse(r) \/ Answer(r))

Spec == Init /\ [][Next]_vars /\ Fairness

-----------------------------------------------------------------------------
\* An RPC is called or times out, once, however late its reply comes, and is
\* never both called and cancelled: when a composite times out, whatever it
\* still waits for is cancelled, and no reply calls that any more.  A
\* composite is called after all its children, and a series calls them in
\* turn.  Requests that could not be sent are the exception: the rest of the
\* queue is requested twice then.
OutcomeIsFinal ==
    throws = 0 =>
        \A r \in Rpcs :
            /\ called[r] + timeouted[r] <= 1 /\ called[r] + canceled[r] <= 1
            /\ Composite(r) /\ called[r] > 0 => \A p \in Parts(r) : called[p] = 1
            /\ timeouted[r] > 0 => \A p \in Parts(r) : called[p] + canceled[p] = 1
            /\ Kind[r] = "serials" =>
                  \A p, q \in Parts(r) : q < p /\ called[p] > 0 => called[q] = 1

\* Whatever is lost or could not be sent, a call with a timeout ends, and so
\* does a part of a call that has one, once it is requested.  Each is called
\* once and stays ended, so one formula says it of all.
TimedRpcEnds ==
    <>[](\A r \in Timed \cap (made \cup queue_wait_) :
            called[r] + timeouted[r] + canceled[r] > 0)

-----------------------------------------------------------------------------
(***************************************************************************)
(* The inductive strengthening of OutcomeIsFinal.  Only a request that     *)
(* could be sent is answered, and children are parts.                      *)
(***************************************************************************)
Shapes ==
    /\ TypeOK
    /\ \A r \in made : parent[r] = 0
    /\ \A r \in Rpcs : children[r] \subseteq Parts(r)
    /\ \A r \in Rpcs : Composite(r) => sent[r] = 0 /\ replies[r] = 0

(* A call is unmade, ready, waiting or over. *)
CallOK(r) ==
    /\ r \in queue_ready_ => r \notin queue_wait_ /\ children[r] = Parts(r)
    /\ r \in queue_wait_ => r \in made
    /\ r \notin made \/ r \in queue_ready_ \cup queue_wait_ =>
           called[r] = 0 /\ timeouted[r] = 0
    /\ r \notin made => children[r] = {}
    /\ called[r] + timeouted[r] <= 1 /\ canceled[r] = 0

(* A part q of p: not requested before p, and waited for until it is called *)
(* or p ends; what a series waits for comes after what it has called, and  *)
(* only the first of it is requested.                                      *)
PartOK(q, p) ==
    /\ q \in queue_wait_ => p \in queue_wait_ /\ q \in children[p] /\ timeouted[q] = 0
    /\ q \in children[p] => called[q] = 0 /\ canceled[q] = 0
    /\ p \notin made \/ p \in queue_ready_ =>
           called[q] = 0 /\ canceled[q] = 0 /\ timeouted[q] = 0
    /\ p \in queue_wait_ /\ q \notin children[p] =>
           called[q] = 1 /\ canceled[q] = 0 /\ timeouted[q] = 0
    /\ called[q] + timeouted[q] <= 1 /\ called[q] + canceled[q] <= 1
    /\ called[p] > 0 => called[q] = 1
    /\ timeouted[p] > 0 => called[q] + canceled[q] = 1

SeriesOK(q, p) ==
    /\ \A c \in children[p] :
          /\ c < q => q \notin queue_wait_
          /\ c < q /\ q \in children[p] => timeouted[q] = 0
          /\ p \in queue_wait_ /\ q \notin children[p] => q < c
    /\ called[q] > 0 => \A c \in Parts(p) : c < q => called[c] = 1

Outcomes ==
    \A r \in Rpcs :
        /\ parent[r] = 0 => CallOK(r)
        /\ parent[r] # 0 => PartOK(r, parent[r])
        /\ parent[r] # 0 /\ Kind[parent[r]] = "serials" => SeriesOK(r, parent[r])

IInv == Shapes /\ (throws = 0 => Outcomes)
=============================================================================
