--------------------------- MODULE AsyncScheduler ---------------------------
(***************************************************************************)
(* common/async.h, common/async.cpp: trees of asynchronous tasks and the   *)
(* scheduler that calls them, completes them and times them out.           *)
(*                                                                         *)
(* Any thread emits a task into the ready queue.  One thread, the event    *)
(* loop, does everything else: it executes run() again and again and, in   *)
(* between, completes the tasks whose replies arrive.  Completing a task   *)
(* notifies its parent, which may call or complete further tasks: the      *)
(* calls nest.  The variable stack is the loop thread's call stack, its    *)
(* top first: one step executes the frame at the top up to its next call.  *)
(*                                                                         *)
(* The forest of tasks is a parameter.  A task's kind says what call()     *)
(* does:                                                                   *)
(*   "leaf"      sends a request whose reply completes the task;           *)
(*   "instant"   completes the task itself (emit_done() in call());        *)
(*   "emitting"  emits another task whose done callback is emit_done() of  *)
(*               this one, the pattern of the comment in async.h;          *)
(*   "serial", "parallel"  SerialsTask and ParallelTask.                   *)
(***************************************************************************)
EXTENDS Integers, Sequences, FiniteSets

CONSTANTS
    Tasks,          \* all tasks that are ever created
    NoTask,         \* nullptr
    Kind,           \* Kind[t]: see above
    parent_,        \* parent_[t]: its parent, or NoTask
    Root,           \* Root[t]: the task whose emission emits t
    Rank,           \* order of ids, and of children_by_order_, in a tree
    Created,        \* Created[t]: rank of t by createtime_
    Emitter,        \* Emitter[t]: the task whose call() emits t, or NoTask
    Timed,          \* tasks with a timeout_ms_ other than -1
    Lossy,          \* replies may be lost
    Cancellable     \* tasks that callbacks may pass to triggerCancel

Kinds == {"leaf", "instant", "emitting", "serial", "parallel"}

ASSUME TreeAssumption ==
    /\ NoTask \notin Tasks
    /\ Kind \in [Tasks -> Kinds]
    /\ parent_ \in [Tasks -> Tasks \cup {NoTask}]
    /\ Emitter \in [Tasks -> Tasks \cup {NoTask}]
    /\ Root \in [Tasks -> Tasks]
    /\ \A t \in Tasks : Root[t] = IF parent_[t] = NoTask THEN t ELSE Root[parent_[t]]
    /\ \A t \in Tasks : parent_[t] # NoTask => Kind[parent_[t]] \in {"serial", "parallel"}
    /\ \A t \in Tasks : Emitter[t] # NoTask =>
          parent_[t] = NoTask /\ Kind[Emitter[t]] = "emitting"
    /\ \A t \in Tasks : Kind[t] = "emitting" => \E r \in Tasks : Emitter[r] = t
    /\ \A r, u \in Tasks : Emitter[r] = Emitter[u] /\ Emitter[r] # NoTask => r = u
    /\ Rank \in [Tasks -> Nat] /\ Created \in [Tasks -> Nat]
    /\ \A t, u \in Tasks : (Rank[t] = Rank[u] \/ Created[t] = Created[u]) => t = u
    /\ Timed \subseteq Tasks /\ Cancellable \subseteq Tasks
    /\ Lossy \in BOOLEAN

VARIABLES
    emitted,        \* roots whose tree has been emitted
    queue_ready_,   \* sequence of tasks to call
    queue_wait_,    \* tasks called and not yet over
    wait_by_time_,  \* tasks that run() checks for a timeout
    children_,      \* children_[t]: children t still waits for
    expired,        \* tasks whose timeout_ms_ has elapsed
    zeroed,         \* tasks whose timeout_ms_ was set to 0
    requests,       \* leaves whose request is on its way to a reply
    phase,          \* where run() is: "idle", "timeouts", "calls"
    scan,           \* wait_by_time_ entries this run() has still to check
    batch,          \* tasks this run() has still to call
    stack,          \* the calls in progress
    ncall,          \* ncall[t]: how often t was called,
    ndone,          \* ... its done() ran,
    ntimeout,       \* ... its timeout() ran
    cancelled,      \* tasks whose cancel() ran
    withdrawn       \* ... while they were in queue_wait_

queues == <<queue_ready_, queue_wait_, wait_by_time_>>
loopvars == <<phase, scan, batch>>
clock == <<expired, zeroed>>
counts == <<ncall, ndone, ntimeout>>
cancels == <<cancelled, withdrawn>>
vars == <<emitted, queue_ready_, queue_wait_, wait_by_time_, children_,
          expired, zeroed, requests, phase, scan, batch, stack,
          ncall, ndone, ntimeout, cancelled, withdrawn>>

-----------------------------------------------------------------------------
Children(t) == {c \in Tasks : parent_[c] = t}

(***************************************************************************)
(* The task t and what is under it in its tree; and with it all that takes *)
(* part in its completion, the trees its emitting tasks emit included.     *)
(***************************************************************************)
Trees == {D \in SUBSET Tasks : \A c \in Tasks : parent_[c] \in D => c \in D}

Under == [t \in Tasks |-> {u \in Tasks : \A D \in Trees : t \in D => u \in D}]

Wholes == {D \in Trees : \A r \in Tasks : Emitter[r] \in D => r \in D}

PartsOf == [t \in Tasks |-> {u \in Tasks : \A D \in Wholes : t \in D => u \in D}]

\* A mistake PartsInOrder finds: a series begins at its end.
LastOf(S) == CHOOSE t \in S : \A u \in S : Rank[u] <= Rank[t]

First(S) == CHOOSE t \in S : \A u \in S : Rank[t] <= Rank[u]

Earliest(S) == CHOOSE t \in S : \A u \in S : Created[t] <= Created[u]

Frame(op, t, todo) == [op |-> op, task |-> t, todo |-> todo]

Frames == [op : {"call", "first", "each", "done", "child_done", "if_empty", "erase"},
           task : Tasks, todo : SUBSET Tasks]

Init ==
    /\ emitted = {} /\ queue_ready_ = <<>> /\ queue_wait_ = {}
    /\ wait_by_time_ = {} /\ children_ = [t \in Tasks |-> {}]
    /\ expired = {} /\ zeroed = {} /\ requests = {}
    /\ phase = "idle" /\ scan = {} /\ batch = <<>> /\ stack = <<>>
    /\ ncall = [t \in Tasks |-> 0] /\ ndone = [t \in Tasks |-> 0]
    /\ ntimeout = [t \in Tasks |-> 0] /\ cancelled = {} /\ withdrawn = {}

(***************************************************************************)
(* AsyncScheduler::emit: on_emit() numbers the tree and fills the          *)
(* children_ maps, then the root joins the ready queue under mutex_ready_. *)
(* Nobody else knows the tree before that, so it is one step.              *)
(***************************************************************************)
on_emit(r) ==
    children_' = [t \in Tasks |-> IF Root[t] = r THEN Children(t) ELSE children_[t]]

emit(r) ==
    /\ on_emit(r)
    /\ emitted' = emitted \cup {r}
    /\ queue_ready_' = Append(queue_ready_, r)

Emit(r) ==
    /\ r \in Tasks \ emitted
    /\ parent_[r] = NoTask /\ Emitter[r] = NoTask
    /\ emit(r)
    /\ UNCHANGED <<queue_wait_, wait_by_time_, clock, requests, loopvars, stack, counts, cancels>>

(***************************************************************************)
(* Time passes: some task's elapsed_ms() reaches its timeout_ms_.          *)
(***************************************************************************)
Elapse(t) ==
    /\ t \in Timed \ expired
    /\ expired' = expired \cup {t}
    /\ UNCHANGED <<emitted, queues, children_, zeroed, requests, loopvars, stack, counts, cancels>>

isTimeout(t) == t \in expired \cup zeroed

\* A mistake TimedTasksEnd finds: no task ever enters wait_by_time_.
NeverAlways(t) == TRUE

isNeverTimeout(t) == t \notin Timed \cup zeroed

(***************************************************************************)
(* run(), first part: check the entries of wait_by_time_, oldest task      *)
(* first.  A parent with a timeout of its own is set to expire at once by  *)
(* child_timeout(); whether this pass still reaches it depends on which of *)
(* the two was created first.                                              *)
(***************************************************************************)
RunBegin ==
    /\ phase = "idle" /\ stack = <<>>
    /\ phase' = "timeouts"
    /\ scan' = wait_by_time_
    /\ UNCHANGED <<emitted, queues, children_, clock, requests, batch, stack, counts, cancels>>

child_timeout(t) ==
    zeroed' = IF parent_[t] = NoTask THEN zeroed ELSE zeroed \cup {parent_[t]}

\* A mistake NotifiedParentWaits finds: a timeout takes the parent out of
\* queue_wait_.
triggerTimeoutUpwards(t) ==
    /\ ntimeout' = [ntimeout EXCEPT ![t] = @ + 1]
    /\ child_timeout(t)
    /\ queue_wait_' = queue_wait_ \ {t, parent_[t]}

triggerTimeout(t) ==
    /\ ntimeout' = [ntimeout EXCEPT ![t] = @ + 1]
    /\ child_timeout(t)
    /\ queue_wait_' = queue_wait_ \ {t}

CheckTimeout ==
    /\ phase = "timeouts" /\ scan # {}
    /\ LET t == Earliest(scan) IN
         /\ scan' = scan \ {t}
         /\ IF isTimeout(t)
              THEN /\ triggerTimeout(t)
                   /\ wait_by_time_' = wait_by_time_ \ {t}
              ELSE UNCHANGED <<ntimeout, zeroed, queue_wait_, wait_by_time_>>
    /\ UNCHANGED <<emitted, queue_ready_, children_, expired, requests, phase,
                   batch, stack, ncall, ndone, cancels>>

(***************************************************************************)
(* run(), second part: take the ready queue under mutex_ready_, then call  *)
(* its tasks with the mutex released.                                      *)
(***************************************************************************)
TakeReady ==
    /\ phase = "timeouts" /\ scan = {}
    /\ batch' = queue_ready_ /\ queue_ready_' = <<>>
    /\ phase' = "calls"
    /\ UNCHANGED <<emitted, queue_wait_, wait_by_time_, children_, clock, requests,
                   scan, stack, counts, cancels>>

CallReady ==
    /\ phase = "calls" /\ stack = <<>> /\ batch # <<>>
    /\ stack' = <<Frame("call", Head(batch), {})>>
    /\ batch' = Tail(batch)
    /\ UNCHANGED <<emitted, queues, children_, clock, requests, phase, scan, counts, cancels>>

RunEnd ==
    /\ phase = "calls" /\ stack = <<>> /\ batch = <<>>
    /\ phase' = "idle"
    /\ UNCHANGED <<emitted, queues, children_, clock, requests, scan, batch, stack, counts, cancels>>

(***************************************************************************)
(* Between two run()s the event loop delivers a reply: triggerDone(id)     *)
(* completes the task if it is still waiting and drops the reply if not.   *)
(***************************************************************************)
\* A mistake LateReplyDropped finds: the reply is not looked up in
\* queue_wait_.
ReplyUnchecked(t) ==
    /\ phase = "idle" /\ stack = <<>>
    /\ t \in requests
    /\ requests' = requests \ {t}
    /\ stack' = <<Frame("done", t, {})>>
    /\ UNCHANGED <<emitted, queues, children_, clock, loopvars, counts, cancels>>

Reply(t) ==
    /\ phase = "idle" /\ stack = <<>>
    /\ t \in requests
    /\ requests' = requests \ {t}
    /\ stack' = IF t \in queue_wait_ THEN <<Frame("done", t, {})>> ELSE <<>>
    /\ UNCHANGED <<emitted, queues, children_, clock, loopvars, counts, cancels>>

LoseReply(t) ==
    /\ Lossy /\ t \in requests
    /\ requests' = requests \ {t}
    /\ UNCHANGED <<emitted, queues, children_, clock, loopvars, stack, counts, cancels>>

-----------------------------------------------------------------------------
(***************************************************************************)
(* The frames.  Goes(fs): the frame at the top has run up to its next      *)
(* calls, and what is left of it is the sequence fs.                       *)
(***************************************************************************)
Top(op) == stack # <<>> /\ Head(stack).op = op

Task == Head(stack).task

Goes(fs) == stack' = fs \o Tail(stack)

(***************************************************************************)
(* triggerCall: the task waits, with a timeout if it has one, and call()   *)
(* runs, on_call_ first.  Then a serial task calls the first child it has, *)
(* a parallel one all of them in order, an emitting one emits the task     *)
(* that stands for it.                                                     *)
(***************************************************************************)
TriggerCall ==
    /\ Top("call")
    /\ ncall' = [ncall EXCEPT ![Task] = @ + 1]
    /\ queue_wait_' = queue_wait_ \cup {Task}
    /\ wait_by_time_' = IF isNeverTimeout(Task) THEN wait_by_time_
                                                ELSE wait_by_time_ \cup {Task}
    /\ CASE Kind[Task] = "leaf" ->
              /\ requests' = requests \cup {Task} /\ Goes(<<>>)
              /\ UNCHANGED <<emitted, queue_ready_, children_>>
         [] Kind[Task] = "instant" ->
              /\ Goes(<<Frame("done", Task, {})>>)
              /\ UNCHANGED <<emitted, queue_ready_, children_, requests>>
         [] Kind[Task] = "emitting" ->
              /\ \E r \in Tasks : Emitter[r] = Task /\ emit(r)
              /\ Goes(<<>>)
              /\ UNCHANGED requests
         [] Kind[Task] = "serial" ->
              /\ Goes(<<Frame("first", Task, {})>>)
              /\ UNCHANGED <<emitted, queue_ready_, children_, requests>>
         [] Kind[Task] = "parallel" ->
              /\ Goes(<<Frame("each", Task, Children(Task))>>)
              /\ UNCHANGED <<emitted, queue_ready_, children_, requests>>
    /\ UNCHANGED <<clock, loopvars, ndone, ntimeout, cancels>>

(***************************************************************************)
(* SerialsTask::call's triggerFirstCall(), which reads children_ when      *)
(* on_call_ has returned.                                                  *)
(***************************************************************************)
CallFirst ==
    /\ Top("first")
    /\ Goes(IF children_[Task] = {} THEN <<>>
            ELSE <<Frame("call", First(children_[Task]), {})>>)
    /\ UNCHANGED <<emitted, queues, children_, clock, requests, loopvars, counts, cancels>>

(***************************************************************************)
(* ParallelTask::call's loop over children_by_order_.                      *)
(***************************************************************************)
CallEach ==
    /\ Top("each")
    /\ LET todo == Head(stack).todo IN
         Goes(IF todo = {} THEN <<>>
              ELSE <<Frame("call", First(todo), {}),
                     Frame("each", Task, todo \ {First(todo)})>>)
    /\ UNCHANGED <<emitted, queues, children_, clock, requests, loopvars, counts, cancels>>

(***************************************************************************)
(* triggerDone(task): done(), whose callback may complete the emitting     *)
(* task, then the parent's child_done(), then the task stops waiting.  Its *)
(* entry in wait_by_time_ stays.                                           *)
(***************************************************************************)
If(cond, f) == IF cond THEN <<f>> ELSE <<>>

TriggerDone ==
    /\ Top("done")
    /\ ndone' = [ndone EXCEPT ![Task] = @ + 1]
    /\ Goes(If(Emitter[Task] # NoTask, Frame("done", Emitter[Task], {}))
              \o If(parent_[Task] # NoTask, Frame("child_done", Task, {}))
              \o <<Frame("erase", Task, {})>>)
    /\ UNCHANGED <<emitted, queues, children_, clock, requests, loopvars, ncall,
                   ntimeout, cancels>>

(***************************************************************************)
(* child_done(): a serial parent goes on to its next child, but only if    *)
(* the child was the first it waits for; a parallel one just strikes the   *)
(* child off.  Both then complete if nothing is left.                      *)
(***************************************************************************)
\* A mistake EveryTreeEnds finds: a series does not call its next child.
ChildDoneAnyOrder ==
    /\ Top("child_done")
    /\ LET p == parent_[Task] IN
         /\ children_' = [children_ EXCEPT ![p] = @ \ {Task}]
         /\ Goes(<<Frame("if_empty", p, {})>>)
    /\ UNCHANGED <<emitted, queues, clock, requests, loopvars, counts, cancels>>

ChildDone ==
    /\ Top("child_done")
    /\ LET p == parent_[Task]
           strike == IF Kind[p] = "parallel" THEN TRUE
                     ELSE children_[p] # {} /\ First(children_[p]) = Task
           left == IF strike THEN children_[p] \ {Task} ELSE children_[p]
       IN /\ children_' = [children_ EXCEPT ![p] = left]
          /\ Goes(If(Kind[p] = "serial" /\ strike /\ left # {},
                     Frame("call", First(left), {}))
                    \o <<Frame("if_empty", p, {})>>)
    /\ UNCHANGED <<emitted, queues, clock, requests, loopvars, counts, cancels>>

\* A mistake AtMostOnce finds: every child that ends
\* completes its parent.
DoneAlways ==
    /\ Top("if_empty")
    /\ Goes(<<Frame("done", Task, {})>>)
    /\ UNCHANGED <<emitted, queues, children_, clock, requests, loopvars, counts, cancels>>

DoneIfEmpty ==
    /\ Top("if_empty")
    /\ Goes(If(children_[Task] = {}, Frame("done", Task, {})))
    /\ UNCHANGED <<emitted, queues, children_, clock, requests, loopvars, counts, cancels>>

EraseWait ==
    /\ Top("erase")
    /\ queue_wait_' = queue_wait_ \ {Task}
    /\ Goes(<<>>)
    /\ UNCHANGED <<emitted, queue_ready_, wait_by_time_, children_, clock, requests,
                   loopvars, counts, cancels>>

(***************************************************************************)
(* triggerCancel(t), from any callback that runs on the loop thread: the   *)
(* task cancels what it still has in children_, and so on down the tree,   *)
(* forgets it, and leaves queue_wait_.  Nothing else is looked at or       *)
(* undone: a task that is still to be called will be, and what an emitting *)
(* task has emitted goes on.  There is no way to set on_cancel_, so that   *)
(* no code but the scheduler's runs on the way.                            *)
(*                                                                         *)
(* Callbacks run when the stack is empty (between the steps of run(), or   *)
(* as other events) and wherever a call(), done() or timeout() has just    *)
(* been begun; but not between the decision to call or complete a task and *)
(* the beginning of its call() or done().  A task that completes itself,   *)
(* or that what it emitted completes, does so from a callback.             *)
(***************************************************************************)
InCallback ==
    stack # <<>> =>
        \/ Head(stack).op \notin {"call", "done"}
        \/ Head(stack).op = "done" /\ Kind[Task] \in {"instant", "emitting"}

Reached(t) ==
    {u \in Under[t] : \A v \in Under[t] \ {t} : u \in Under[v] => v \in children_[parent_[v]]}

Cancel(t) ==
    /\ InCallback
    /\ t \in Cancellable /\ Root[t] \in emitted
    /\ children_' = [u \in Tasks |-> IF u \in Reached(t) THEN {} ELSE children_[u]]
    /\ queue_wait_' = queue_wait_ \ Reached(t)
    /\ cancelled' = cancelled \cup Reached(t)
    /\ withdrawn' = withdrawn \cup (queue_wait_ \cap Reached(t))
    /\ UNCHANGED <<emitted, queue_ready_, wait_by_time_, clock, requests, loopvars,
                   stack, counts>>

Run == RunBegin \/ CheckTimeout \/ TakeReady \/ CallReady \/ RunEnd

Step == \/ TriggerCall \/ CallFirst \/ CallEach \/ TriggerDone \/ ChildDone
        \/ DoneIfEmpty \/ EraseWait

Next ==
    \/ \E t \in Tasks : Emit(t) \/ Elapse(t) \/ Reply(t) \/ LoseReply(t) \/ Cancel(t)
    \/ Run
    \/ Step

Spec == Init /\ [][Next]_vars

(***************************************************************************)
(* The loop thread keeps running, emitting threads get to emit, time goes  *)
(* by, and a reply that is not lost is read at some point.  run() and the  *)
(* delivery of replies alternate in the event loop: the reply is enabled   *)
(* again and again, not all the time.  Each task is emitted, expires and   *)
(* is answered at most once, so fairness to some task is fairness to all.  *)
(***************************************************************************)
FairSpec ==
    /\ Spec
    /\ WF_vars(Run) /\ WF_vars(Step)
    /\ WF_vars(\E t \in Tasks : Emit(t))
    /\ WF_vars(\E t \in Tasks : Elapse(t))
    /\ SF_vars(\E t \in Tasks : Reply(t))
-----------------------------------------------------------------------------
(***************************************************************************)
(* Type invariant.                                                         *)
(***************************************************************************)
TypeOK ==
    /\ emitted \subseteq Tasks /\ queue_wait_ \subseteq Tasks
    /\ wait_by_time_ \subseteq Tasks /\ expired \subseteq Tasks
    /\ zeroed \subseteq Tasks /\ requests \subseteq Tasks /\ scan \subseteq Tasks
    /\ queue_ready_ \in Seq(Tasks) /\ batch \in Seq(Tasks)
    /\ children_ \in [Tasks -> SUBSET Tasks]
    /\ phase \in {"idle", "timeouts", "calls"}
    /\ stack \in Seq(Frames)
    /\ ncall \in [Tasks -> Nat] /\ ndone \in [Tasks -> Nat]
    /\ ntimeout \in [Tasks -> Nat]
    /\ cancelled \subseteq Tasks /\ withdrawn \subseteq Tasks

(***************************************************************************)
(* Sudden has the tasks that complete before their call() returns.  After  *)
(* every task of a steady series but the last there is one that does not.  *)
(***************************************************************************)
Sudden ==
    {u \in Tasks : \A D \in SUBSET Tasks :
        (\A t \in Tasks : (\/ Kind[t] = "instant"
                           \/ Children(t) # {} /\ Children(t) \subseteq D) => t \in D)
            => u \in D}

SteadySeries(p) ==
    \A c, d \in Children(p) : Rank[c] < Rank[d] =>
        \E e \in Children(p) \ Sudden : Rank[c] < Rank[e]

Steady ==
    {t \in Tasks : \A p \in PartsOf[t] : Kind[p] = "serial" => SteadySeries(p)}

(***************************************************************************)
(* triggerCall reaches each task at most once.  triggerDone(task) does not *)
(* look whether the task still waits, and yet it reaches each steady task  *)
(* at most once while nothing among its parts was cancelled: no nested     *)
(* notification completes a composite or an emitting task a second time.   *)
(*                                                                         *)
(* The others are completed again.  In a series that is not steady the     *)
(* nested child_done() has completed the series when the outer one finds   *)
(* children_ empty.  A parallel task that was cancelled finds children_    *)
(* empty whenever one of its tasks completes: after a cancellation in the  *)
(* ready queue, all of them; and tasks that emitted something, at any time.*)
(***************************************************************************)
AtMostOnce ==
    \A t \in Tasks :
        /\ ncall[t] <= 1
        /\ t \in Steady /\ PartsOf[t] \cap cancelled = {} => ndone[t] <= 1

(***************************************************************************)
(* "Tasks will be called one by one": SerialsTask calls a child only when  *)
(* done() has run for every child before it.  done() of a composite task   *)
(* runs only after done() of each child, unless it was cancelled and       *)
(* forgot its children, and done() of an emitting task only after done()   *)
(* of the task it emitted.                                                 *)
(***************************************************************************)
PartsInOrder ==
    /\ \A t, u \in Tasks :
        (/\ parent_[t] = parent_[u] /\ parent_[t] # NoTask
         /\ Kind[parent_[t]] = "serial" /\ Rank[t] < Rank[u] /\ ncall[u] > 0)
            => ndone[t] > 0
    /\ \A t \in Tasks :
        /\ (parent_[t] # NoTask /\ ndone[parent_[t]] > 0 /\ parent_[t] \notin cancelled)
              => ndone[t] > 0
        /\ Emitter[t] # NoTask /\ ndone[Emitter[t]] > 0 => ndone[t] > 0

(***************************************************************************)
(* A parent is notified of a child's end while the scheduler still keeps   *)
(* it, so that the raw parent_ pointer does not dangle.  There are three   *)
(* ways to lose it: the parent timed out; something among its parts was    *)
(* cancelled; or there is a series among them that is not steady.          *)
(***************************************************************************)
NotifiedParentWaits ==
    Top("child_done") =>
        \/ parent_[Task] \in queue_wait_
        \/ ntimeout[parent_[Task]] > 0
        \/ PartsOf[parent_[Task]] \cap cancelled # {}
        \/ parent_[Task] \notin Steady

(***************************************************************************)
(* A reply that comes after the timeout, or after triggerCancel took the   *)
(* leaf out of queue_wait_, is dropped: the leaf is never done afterwards. *)
(***************************************************************************)
LateReplyDropped ==
    [][\A t \in Tasks : Kind[t] = "leaf" /\ (ntimeout[t] > 0 \/ t \in withdrawn)
            => ndone'[t] = ndone[t]]_vars

(***************************************************************************)
(* Every emitted tree comes to an end, unless some task comes to grief:    *)
(* its reply is lost, or it times out or is cancelled before it is done.   *)
(***************************************************************************)
Over(t) == ndone[t] > 0 \/ ntimeout[t] > 0

Fails(t) ==
    /\ ndone[t] = 0
    /\ \/ ntimeout[t] > 0 \/ t \in cancelled
       \/ Kind[t] = "leaf" /\ ncall[t] > 0 /\ t \notin requests

EveryTreeEnds ==
    \A r \in {t \in Tasks : parent_[t] = NoTask} :
        r \in emitted ~> (Over(r) \/ \E t \in Tasks : Fails(t))

(***************************************************************************)
(* Lost or not, a task that has a timeout of its own and has been called   *)
(* does not wait forever.                                                  *)
(***************************************************************************)
TimedTasksEnd == \A t \in Timed : ncall[t] > 0 ~> t \notin queue_wait_

(***************************************************************************)
(* async.cpp, "this will timeout next tick": a composite task whose child  *)
(* timed out times out itself, unless it is done.                          *)
(***************************************************************************)
ParentTimesOut ==
    \A t \in Tasks : parent_[t] # NoTask => (ntimeout[t] > 0 ~> Over(parent_[t]))
-----------------------------------------------------------------------------
(***************************************************************************)
(* The inductive strengthening of PartsInOrder, of LateReplyDropped and of *)
(* what AtMostOnce says of calls.                                          *)
(*                                                                         *)
(* A task is begun when it was called or its call is on the stack.  Then   *)
(* its parent was called; and in a series all before it are done, so that  *)
(* no task that is begun comes after one the series still waits for.       *)
(***************************************************************************)
OnStack(op, t) == \E i \in DOMAIN stack : stack[i].op = op /\ stack[i].task = t

Begun(t) == ncall[t] > 0 \/ OnStack("call", t)

InOrder(u) ==
    /\ Root[u] \in emitted
    /\ parent_[u] # NoTask =>
         /\ ncall[parent_[u]] > 0
         /\ Kind[parent_[u]] = "serial" =>
              /\ u \in children_[parent_[u]] =>
                   \A v \in children_[parent_[u]] : Rank[u] <= Rank[v]
              /\ \A t \in Children(parent_[u]) : Rank[t] < Rank[u] => ndone[t] > 0

Begins == \A u \in Tasks : Begun(u) => InOrder(u)

(***************************************************************************)
(* A task is called once: it is at one place of the queues, on one frame,  *)
(* or in what one frame has still to call, and was not called yet.         *)
(***************************************************************************)
Sole(s) == \A i, j \in DOMAIN s : s[i] = s[j] => i = j

QueuedOnce ==
    /\ Sole(queue_ready_) /\ Sole(batch)
    /\ \A i \in DOMAIN queue_ready_, j \in DOMAIN batch : queue_ready_[i] # batch[j]
    /\ \A s \in {queue_ready_, batch} : \A i \in DOMAIN s :
         parent_[s[i]] = NoTask /\ s[i] \in emitted /\ ~Begun(s[i])

FramedOnce ==
    /\ \A t \in Tasks : ncall[t] <= 1
    /\ \A i, j \in DOMAIN stack :
         (/\ stack[i].op = stack[j].op /\ stack[i].task = stack[j].task
          /\ stack[i].op \in {"call", "first", "each"})
            => i = j

(***************************************************************************)
(* What is true of a frame.  A task that is done, or about to be, has all  *)
(* its parts done; a leaf among them was neither timed out nor cancelled.  *)
(***************************************************************************)
Finished(t) ==
    /\ Kind[t] \in {"serial", "parallel"} =>
         t \in cancelled \/ \A c \in Children(t) : ndone[c] > 0
    /\ \A r \in Tasks : Emitter[r] = t => ndone[r] > 0

FrameOK(f) ==
    /\ Root[f.task] \in emitted
    /\ f.op = "call" => ncall[f.task] = 0
    /\ f.op # "call" => ncall[f.task] > 0
    /\ f.op = "first" => /\ Kind[f.task] = "serial"
                         /\ \A t \in Children(f.task) : ~Begun(t)
    /\ f.op = "each" => /\ Kind[f.task] = "parallel"
                        /\ f.todo \subseteq Children(f.task)
                        /\ \A t \in f.todo : ~Begun(t)
    /\ f.op = "done" => /\ Finished(f.task)
                        /\ Kind[f.task] = "leaf" =>
                             ntimeout[f.task] = 0 /\ f.task \notin withdrawn
    /\ f.op = "child_done" => parent_[f.task] # NoTask /\ ndone[f.task] > 0
    /\ f.op = "if_empty" => Kind[f.task] \in {"serial", "parallel"}

FramesOK ==
    \A i \in DOMAIN stack :
        /\ FrameOK(stack[i])
        /\ stack[i].op = "done" /\ Kind[stack[i].task] = "leaf" => i = 1

(***************************************************************************)
(* The trees: children_ forgets a child that is done, or all of them when  *)
(* the task is cancelled.                                                  *)
(***************************************************************************)
TreeOK(p) ==
    /\ children_[p] \subseteq Children(p)
    /\ Root[p] \in emitted /\ p \notin cancelled =>
         \A t \in Children(p) \ children_[p] : ndone[t] > 0
    /\ p \in cancelled => children_[p] = {} /\ Root[p] \in emitted
    /\ p \in emitted /\ Emitter[p] # NoTask => ncall[Emitter[p]] > 0
    /\ ndone[p] > 0 => Finished(p)

ChildrenOK == \A p \in Tasks : TreeOK(p)

Waits ==
    /\ \A t \in queue_wait_ : ncall[t] > 0 /\ ntimeout[t] = 0 /\ t \notin withdrawn
    /\ \A t \in withdrawn : ncall[t] > 0
    /\ \A t \in requests : Kind[t] = "leaf" /\ ncall[t] > 0
    /\ \A t \in wait_by_time_ \cup scan : ncall[t] > 0
    /\ \A t \in Tasks : ntimeout[t] > 0 => ncall[t] > 0
    /\ phase = "timeouts" => stack = <<>>

IInv ==
    /\ TypeOK /\ Begins /\ QueuedOnce /\ FramedOnce
    /\ FramesOK /\ ChildrenOK /\ Waits
-----------------------------------------------------------------------------
(***************************************************************************)
(* The inductive strengthening of AtMostOnce and NotifiedParentWaits: what *)
(* is true of the tasks of a set D that holds all parts of its tasks, has  *)
(* steady series only and of which nothing was cancelled.                  *)
(*                                                                         *)
(* Calls and completions happen at the top of the stack only.              *)
(***************************************************************************)
IsTop(op, t) == Top(op) /\ Task = t

OnTop ==
    \A i \in DOMAIN stack : stack[i].op \in {"call", "first", "done", "child_done"} => i = 1

(***************************************************************************)
(* For some set called of the tasks that were called since the stack was   *)
(* last empty: what was called and is done, did so suddenly, and so a      *)
(* series that is completing its parts further down the stack still waits  *)
(* for a task.                                                             *)
(***************************************************************************)
Session(D, called) ==
    /\ \A t \in called :
         /\ ncall[t] > 0
         /\ ndone[t] > 0 \/ IsTop("done", t) => t \in Sudden
         /\ \A c \in Children(t) : ncall[c] > 0 => c \in called
         /\ \A r \in Tasks : Emitter[r] = t => ~Begun(r)
    /\ \A i \in DOMAIN stack : stack[i].op = "if_empty" /\ stack[i].task \in D /\ i > 1 =>
         \E c \in children_[stack[i].task] \ Sudden : ncall[c] > 0 => c \in called

Sessions(D) == \E called \in SUBSET D : Session(D, called)

(***************************************************************************)
(* A task on its way to done() has not been there; a parent waits for a    *)
(* part until it has heard of its end.                                     *)
(***************************************************************************)
DoneOnce(D) ==
    /\ \A t \in D : ndone[t] <= 1 /\ (ndone[t] > 0 => ncall[t] > 0)
    /\ \A t \in D : IsTop("done", t) \/ IsTop("if_empty", t) => ndone[t] = 0
    /\ \A t \in D : IsTop("child_done", t) /\ parent_[t] \in D => t \in children_[parent_[t]]
    /\ \A t \in D \cap requests : ndone[t] = 0 /\ ~IsTop("done", t)
    /\ \A i \in DOMAIN stack : stack[i].task \in D =>
         /\ stack[i].op = "if_empty" => Children(stack[i].task) # {}
         /\ stack[i].op = "erase" => ndone[stack[i].task] > 0

PartsWaitedFor(D) ==
    \A p \in D : \A t \in children_[p] :
        /\ ndone[t] > 0 => IsTop("child_done", t)
        /\ ndone[p] = 0 /\ ~IsTop("done", p)
        /\ Kind[p] = "serial" =>
             \A u \in Children(p) : Rank[t] < Rank[u] => u \in children_[p]

KeptWhileOpen(D) ==
    /\ \A t \in D \cap queue_wait_ : ndone[t] > 0 => OnStack("erase", t)
    /\ \A t \in D : ncall[t] > 0 /\ ndone[t] = 0 => t \in queue_wait_ \/ ntimeout[t] > 0

OnceIn(D) ==
    D \cap cancelled = {} =>
        Sessions(D) /\ DoneOnce(D) /\ PartsWaitedFor(D) /\ KeptWhileOpen(D)

OnceInv(D) == IInv /\ OnTop /\ OnceIn(D)
=============================================================================
