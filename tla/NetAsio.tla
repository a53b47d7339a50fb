------------------------------- MODULE NetAsio -------------------------------
(***************************************************************************)
(* The connections of src/common/net_asio: one Client that a Connector     *)
(* starts, with its resolver, its socket and its retry timer, and the      *)
(* Sessions an Acceptor accepted for it.  The handlers of the client run   *)
(* one at a time on its io_service thread, in the order their operations   *)
(* completed (ready); the user's thread is still in connect() when the     *)
(* first of them may run; user threads send, worker threads answer, and    *)
(* the owner may stop the client or close the acceptor at any moment.      *)
(*                                                                         *)
(* What travels on a connection is the business of module NetStream; here  *)
(* a read or a write only succeeds or fails, or leaves half a message, on  *)
(* which readMessages() goes round for ever and holds the io_service's     *)
(* one thread, with every handler that is bound to it.                     *)
(***************************************************************************)
EXTENDS Naturals, Sequences, FiniteSets

CONSTANTS
    Sessions,       \* the Session objects that may exist at one time
    NoSession,      \* the client's socket is not connected to a session
    Retry,          \* retry_interval_ > 0
    MaxResolves,    \* bound: address resolutions in progress at one time
    MaxSends,       \* bound: messages sent, from both ends together
    MaxFaults       \* bound: failed resolutions, connects and accepts,
                    \* broken links, reads that end inside a message,
                    \* retries that overtake an attempt, stop(), close()

ASSUME NetAsioAssumption ==
    /\ IsFiniteSet(Sessions) /\ NoSession \notin Sessions
    /\ Retry \in BOOLEAN
    /\ MaxResolves \in Nat \ {0} /\ MaxSends \in Nat /\ MaxFaults \in Nat

VARIABLES
    user,           \* the thread in connect(): where it is
    outrun,         \* history: a handler closed the client before start()
                    \* set its state, and nothing was begun since
    spinning,       \* the client's handle_read() goes round on half a message
    state_,         \* the client's connection state
    managed,        \* the Connector's connections_ holds the client
    resolves,       \* resolutions in progress
    socket_,        \* the client's socket: how far it is, and its session
    reads, writes,  \* the operations in progress on that socket
    ready,          \* handlers whose operation has completed, in order
    timer,          \* retry_timer_ is waiting
    acceptor_,      \* the listening socket: open or closed
    accept_,        \* async_accept() and its handler: how far they are
    arrived,        \* the session they are about
    stuck,          \* the sessions, and NoSession for the acceptor, whose
                    \* io_service's thread goes round on half a message
    session,        \* per Session: its state, and the operations on it
    connections_,   \* the Acceptor's managed sessions
    cut,            \* the sessions whose TCP connection is closed
    sends,          \* the messages sent (bounded by MaxSends)
    faults          \* the faults that happened (bounded by MaxFaults)

startVars == <<user, outrun, spinning>>
clientVars == <<startVars, state_, managed, resolves, socket_, reads, writes, ready, timer>>
acceptVars == <<acceptor_, accept_, arrived, stuck>>
serverVars == <<acceptVars, session, connections_>>
bounds == <<sends, faults>>
vars == <<clientVars, serverVars, cut, bounds>>

------------------------------------------------------------------------------
States == {"Closed", "Resolving", "Connecting", "Connected"}

Completion == [op : {"resolve", "connect", "read", "write"}, ok : BOOLEAN]

Socket == [at : {"none", "connecting", "up"}, peer : Sessions \cup {NoSession}]

\* A Session is free (not created, or destroyed), known only to the kernel
\* (backlog), or accepted.
SessionStates == {"free", "backlog", "Connecting", "Connected", "Closed"}

TypeOK ==
    /\ user \in {"connect", "start", "done"}
    /\ outrun \in BOOLEAN /\ spinning \in BOOLEAN
    /\ state_ \in States
    /\ managed \in BOOLEAN
    /\ resolves \in 0 .. MaxResolves
    /\ socket_ \in Socket
    /\ reads \in Nat /\ writes \in Nat
    /\ ready \in Seq(Completion)
    /\ timer \in BOOLEAN
    /\ acceptor_ \in {"open", "closed"}
    /\ accept_ \in {"waiting", "arrived", "failed", "started"}
    /\ arrived \in Sessions \cup {NoSession}
    /\ accept_ \in {"arrived", "started"} <=> arrived # NoSession
    /\ stuck \subseteq Sessions \cup {NoSession}
    /\ session \in [Sessions -> [state : SessionStates, open : BOOLEAN,
                                 reading : BOOLEAN, writes : Nat]]
    /\ connections_ \subseteq Sessions
    /\ cut \subseteq Sessions
    /\ sends \in 0 .. MaxSends /\ faults \in 0 .. MaxFaults

NewSession == [state |-> "free", open |-> FALSE, reading |-> FALSE, writes |-> 0]

\* Connector::connect() has made the client, whose constructor arms the timer
\* when there is a retry interval, and is about to start it.
NewClient ==
    /\ user = "connect" /\ outrun = FALSE /\ spinning = FALSE
    /\ managed = FALSE /\ state_ = "Closed" /\ resolves = 0
    /\ timer = Retry
    /\ socket_ = [at |-> "none", peer |-> NoSession]
    /\ reads = 0 /\ writes = 0 /\ ready = <<>>

\* Acceptor::listen() opens the socket and waits for the first connection.
listen ==
    /\ acceptor_ = "open" /\ accept_ = "waiting" /\ arrived = NoSession /\ stuck = {}
    /\ session = [s \in Sessions |-> NewSession] /\ connections_ = {}

Init == NewClient /\ listen /\ cut = {} /\ sends = 0 /\ faults = 0

------------------------------------------------------------------------------
\* Something the model lets happen MaxFaults times.
Fault(happens) == /\ happens => faults < MaxFaults
                  /\ faults' = IF happens THEN faults + 1 ELSE faults
                  /\ UNCHANGED sends

\* What it lets happen MaxSends times.
Send == sends < MaxSends /\ sends' = sends + 1 /\ UNCHANGED faults

------------------------------------------------------------------------------
(* The client.                                                             *)

set_state(state) == state_' = state

\* A handler that ends an attempt closes the client; another attempt is begun.
Ends == set_state("Closed") /\ outrun' = (outrun \/ user = "start")

Begins(state) == set_state(state) /\ outrun' = FALSE

\* Reads and writes hold a shared_ptr to the client, and so does connect(); the
\* other handlers have only its address: it is destroyed once the Connector
\* has let go of it and no read or write is left.  What its handlers then do
\* is undefined.
Queued(ops) == Cardinality({i \in DOMAIN ready : ready[i].op \in ops})

Held == user # "done" \/ spinning \/ reads + writes + Queued({"read", "write"}) > 0

Destroyed == ~managed /\ ~Held

Complete(op, ok) == Append(ready, [op |-> op, ok |-> ok])

Times(n, op) == [i \in 1 .. n |-> [op |-> op, ok |-> FALSE]]

\* What closing the client's socket completes, with operation_aborted.
Aborted ==
    (IF socket_.at = "connecting" THEN Times(1, "connect") ELSE <<>>)
        \o Times(reads, "read") \o Times(writes, "write")

CutPeer == cut' = cut \cup ({socket_.peer} \ {NoSession})

\* The handler at the head of the queue runs.
Handle(op) == /\ ~Destroyed /\ ~spinning
              /\ ready # <<>>
              /\ Head(ready).op = op

\* An attempt to connect is still going on.  The state may be closed all the
\* same: a send() before there is a socket fails, and so does a handler of
\* the socket of before.
Attempting == resolves + Queued({"resolve", "connect"}) > 0 \/ socket_.at = "connecting"

\* connect() on the user's thread: ConnectionManager::start() inserts the client
\* and starts it.  start() begins a resolution, and only then sets the state:
\* handlers run in between, and what they set is overwritten.
connect ==
    /\ user = "connect" /\ resolves + Queued({"resolve"}) < MaxResolves
    /\ user' = "start" /\ managed' = TRUE
    /\ resolves' = resolves + 1
    /\ outrun' = FALSE
    /\ UNCHANGED <<spinning, state_, socket_, reads, writes, ready, timer, serverVars,
                   cut, bounds>>

connect_returns ==
    /\ user = "start"
    /\ user' = "done"
    /\ set_state("Resolving")
    /\ UNCHANGED <<outrun, spinning, managed, resolves, socket_, reads, writes, ready,
                   timer, serverVars, cut, bounds>>

\* start() from handle_retry(), on the thread of the handlers: one step.
start == /\ resolves + Queued({"resolve"}) < MaxResolves
         /\ Fault(Attempting \/ user # "done")
         /\ resolves' = resolves + 1
         /\ Begins("Resolving")

\* handle_resolve(): an error closes; else start_connect(), which closes the
\* socket of before, if any, and connects a new one.
handle_resolve ==
    /\ Handle("resolve")
    /\ IF Head(ready).ok
       THEN /\ Begins("Connecting")
            /\ socket_' = [at |-> "connecting", peer |-> NoSession]
            /\ ready' = Tail(ready) \o Aborted
            /\ reads' = 0 /\ writes' = 0
            /\ CutPeer
       ELSE /\ Ends
            /\ ready' = Tail(ready)
            /\ UNCHANGED <<socket_, reads, writes, cut>>
    /\ UNCHANGED <<user, spinning, managed, resolves, timer, serverVars, bounds>>

\* A mistake NeverStranded finds: a refused connect only logs.
handle_connect_logs ==
    /\ Handle("connect")
    /\ ready' = Tail(ready)
    /\ IF Head(ready).ok
       THEN reads' = reads + 1 /\ set_state("Connected")
       ELSE UNCHANGED <<reads, state_>>
    /\ UNCHANGED <<startVars, managed, resolves, socket_, writes, timer, serverVars, cut,
                   bounds>>

\* handle_connect(): an error closes; else the first read is started.
handle_connect ==
    /\ Handle("connect")
    /\ ready' = Tail(ready)
    /\ IF Head(ready).ok
       THEN reads' = reads + 1 /\ Begins("Connected")
       ELSE Ends /\ UNCHANGED reads
    /\ UNCHANGED <<user, spinning, managed, resolves, socket_, writes, timer, serverVars,
                   cut, bounds>>

\* handle_read(): the messages are handled and the next read started; an
\* error, or a header whose size is too large, closes: only the state, the
\* socket stays as it is.  On a message that is not whole yet it never ends.
handle_read ==
    /\ Handle("read")
    /\ ready' = Tail(ready)
    /\ \/ /\ Head(ready).ok /\ reads' = reads + 1
          /\ UNCHANGED <<outrun, spinning, state_, bounds>>
       \/ /\ Head(ready).ok /\ Fault(TRUE)
          /\ Ends /\ UNCHANGED <<spinning, reads>>
       \/ /\ Head(ready).ok /\ Fault(TRUE)
          /\ spinning' = TRUE /\ UNCHANGED <<outrun, state_, reads>>
       \/ ~Head(ready).ok /\ Ends /\ UNCHANGED <<spinning, reads, bounds>>
    /\ UNCHANGED <<user, managed, resolves, socket_, writes, timer, serverVars, cut>>

\* handle_write(): an error closes.
handle_write ==
    /\ Handle("write")
    /\ ready' = Tail(ready)
    /\ set_state(IF Head(ready).ok THEN state_ ELSE "Closed")
    /\ UNCHANGED <<startVars, managed, resolves, socket_, reads, writes, timer, serverVars,
                   cut, bounds>>

\* A mistake Reconnects finds: the timer is only set again while closed.
handle_retry_once ==
    /\ ~Destroyed /\ ~spinning
    /\ timer
    /\ IF state_ = "Closed" THEN start /\ UNCHANGED timer
       ELSE timer' = FALSE /\ UNCHANGED <<outrun, resolves, state_, bounds>>
    /\ UNCHANGED <<user, spinning, managed, socket_, reads, writes, ready, serverVars, cut>>

\* handle_retry(): starts again when closed, and waits for the next time; the
\* timer may come due at any moment.
handle_retry ==
    /\ ~Destroyed /\ ~spinning
    /\ timer
    /\ IF state_ = "Closed" THEN start ELSE UNCHANGED <<outrun, resolves, state_, bounds>>
    /\ UNCHANGED <<user, spinning, timer, managed, socket_, reads, writes, ready, serverVars, cut>>

\* send(), from a user thread: refused only when closed; before there is a
\* socket, the write fails.
send ==
    /\ ~Destroyed /\ state_ # "Closed" /\ Send
    /\ writes' = writes + 1
    /\ UNCHANGED <<startVars, state_, managed, resolves, socket_, reads, ready, timer,
                   serverVars, cut>>

\* Connector::close() and ConnectionManager::stop(): Client::stop() sets the
\* state and leaves the socket, the timer and the resolver as they are.  It
\* waits for the lock start() holds in connect().
stop ==
    /\ managed /\ user = "done" /\ Fault(TRUE)
    /\ managed' = FALSE
    /\ set_state("Closed")
    /\ UNCHANGED <<startVars, resolves, socket_, reads, writes, ready, timer, serverVars, cut>>

------------------------------------------------------------------------------
(* Boost.Asio and the network.                                             *)

ResolveDone ==
    /\ ~Destroyed /\ resolves > 0
    /\ resolves' = resolves - 1
    /\ \E ok \in BOOLEAN : Fault(~ok) /\ ready' = Complete("resolve", ok)
    /\ UNCHANGED <<startVars, state_, managed, socket_, reads, writes, timer, serverVars, cut>>

Fresh == CHOOSE s \in Sessions : session[s].state = "free"

\* The kernel connects to the listening socket before anyone accepts.
ConnectDone ==
    /\ ~Destroyed /\ socket_.at = "connecting"
    /\ \/ /\ acceptor_ = "open"
          /\ \E s \in Sessions : session[s].state = "free"
          /\ session' = [session EXCEPT ![Fresh] = [NewSession EXCEPT !.state = "backlog"]]
          /\ socket_' = [at |-> "up", peer |-> Fresh]
          /\ cut' = cut \ {Fresh}
          /\ ready' = Complete("connect", TRUE)
          /\ UNCHANGED bounds
       \/ /\ Fault(acceptor_ = "open")
          /\ socket_' = [at |-> "none", peer |-> NoSession]
          /\ ready' = Complete("connect", FALSE)
          /\ UNCHANGED <<session, cut>>
    /\ UNCHANGED <<startVars, state_, managed, resolves, reads, writes, timer, acceptVars,
                   connections_>>

\* The client's connection carries data both ways.
Up == socket_.at = "up" /\ socket_.peer \notin cut

ReadDone ==
    /\ ~Destroyed /\ reads > 0 /\ socket_.at # "connecting"
    /\ reads' = reads - 1
    /\ ready' = Complete("read", Up)
    /\ Up => session[socket_.peer].open
    /\ UNCHANGED <<startVars, state_, managed, resolves, socket_, writes, timer, serverVars,
                   cut, bounds>>

WriteDone ==
    /\ ~Destroyed /\ writes > 0
    /\ writes' = writes - 1
    /\ ready' = Complete("write", Up)
    /\ UNCHANGED <<startVars, state_, managed, resolves, socket_, reads, timer, serverVars,
                   cut, bounds>>

LinkBreaks ==
    /\ Up /\ Fault(TRUE)
    /\ CutPeer
    /\ UNCHANGED <<clientVars, serverVars>>

\* The destructor of a client closes its socket and cancels the rest.
Destroy ==
    /\ Destroyed /\ socket_.at # "none"
    /\ socket_' = [at |-> "none", peer |-> NoSession]
    /\ CutPeer
    /\ resolves' = 0 /\ ready' = <<>> /\ timer' = FALSE
    /\ UNCHANGED <<startVars, state_, managed, reads, writes, serverVars, bounds>>

------------------------------------------------------------------------------
(* The acceptor and its sessions.                                          *)

AcceptDone ==
    /\ acceptor_ = "open" /\ accept_ = "waiting"
    /\ \E s \in Sessions : session[s].state = "backlog" /\ arrived' = s
    /\ accept_' = "arrived"
    /\ UNCHANGED <<clientVars, acceptor_, stuck, session, connections_, cut, bounds>>

\* On a closed acceptor every accept fails.
AcceptFails ==
    /\ accept_ = "waiting" /\ Fault(acceptor_ = "open")
    /\ accept_' = "failed"
    /\ UNCHANGED <<clientVars, acceptor_, arrived, stuck, session, connections_, cut>>

\* handle_accept(): the manager inserts the session, which may have been made
\* on a stuck io_service, and starts its first read; an error is logged, and
\* start_accept() waits for the next, for ever on a closed acceptor.
handle_accept ==
    /\ NoSession \notin stuck
    /\ \/ /\ accept_ = "arrived"
          /\ connections_' = connections_ \cup {arrived}
          /\ session' = [session EXCEPT ![arrived] =
                [state |-> "Connecting", open |-> TRUE, reading |-> TRUE, writes |-> 0]]
          /\ accept_' = "started"
          /\ stuck' = stuck \/ (stuck # {} /\ stuck' = stuck \cup {arrived})
       \/ /\ accept_ = "failed" /\ accept_' = "waiting"
          /\ UNCHANGED <<session, connections_, stuck>>
    /\ UNCHANGED <<clientVars, acceptor_, arrived, cut, bounds>>

\* The rest of it: the session is connected, whatever its own thread has made
\* of it meanwhile, and the next accept is started.
handle_accept_returns ==
    /\ accept_ = "started"
    /\ session' = [session EXCEPT ![arrived].state = "Connected"]
    /\ accept_' = "waiting" /\ arrived' = NoSession
    /\ UNCHANGED <<clientVars, acceptor_, stuck, connections_, cut, bounds>>

\* ConnectionManager::stop(id) closes the socket it finds and erases it.
Stopped(s, sess) ==
    IF s \in connections_ THEN [sess EXCEPT ![s].open = FALSE] ELSE sess

\* A mistake LetGoMeansClosed finds: the session is erased, not stopped.
handle_error_erases(s, sess) ==
    IF sess[s].state = "Closed"
    THEN session' = sess /\ UNCHANGED <<connections_, cut>>
    ELSE /\ session' = [sess EXCEPT ![s].state = "Closed"]
         /\ connections_' = connections_ \ {s}
         /\ UNCHANGED cut

\* A mistake SessionEnds finds: the state is set and the session kept.
handle_error_keeps(s, sess) ==
    /\ session' = [sess EXCEPT ![s].state = "Closed"]
    /\ UNCHANGED <<connections_, cut>>

\* handle_error(): the first error of a session closes and stops it.
handle_error(s, sess) ==
    IF sess[s].state = "Closed"
    THEN session' = sess /\ UNCHANGED <<connections_, cut>>
    ELSE /\ session' = Stopped(s, [sess EXCEPT ![s].state = "Closed"])
         /\ connections_' = connections_ \ {s}
         /\ cut' = cut \cup {s}

Broken(s) == s \in cut \/ ~session[s].open

\* The session's read fails, or brings a header whose size is too large.  (A
\* read that succeeds otherwise is followed by the next.)
SessionReadError(s) ==
    /\ session[s].reading /\ s \notin stuck /\ Fault(~Broken(s))
    /\ handle_error(s, [session EXCEPT ![s].reading = FALSE])
    /\ UNCHANGED <<clientVars, acceptVars>>

Busy(s) == session[s].reading \/ session[s].writes > 0

\* The session's read ends inside a message: its io_service's one thread never
\* comes back.  With it go the handlers of the sessions made on the same
\* io_service, and perhaps handle_accept(): any of them, as the pool is given out
\* in turn to everything that asks.
SessionSpins(s) ==
    /\ session[s].reading /\ s \notin stuck /\ Fault(TRUE)
    /\ \E with \in SUBSET ({t \in Sessions : Busy(t)} \cup {NoSession}) :
          stuck' = stuck \cup {s} \cup with
    /\ UNCHANGED <<clientVars, acceptor_, accept_, arrived, session, connections_, cut>>

\* send() by a worker's handler, sendTo() or a broadcast.
SessionSend(s) ==
    /\ session[s].state \in {"Connecting", "Connected"} /\ Send
    /\ session' = [session EXCEPT ![s].writes = @ + 1]
    /\ UNCHANGED <<clientVars, acceptVars, connections_, cut>>

SessionWriteDone(s) ==
    /\ session[s].writes > 0 /\ s \notin stuck
    /\ LET sess == [session EXCEPT ![s].writes = @ - 1]
       IN IF Broken(s) THEN handle_error(s, sess)
                       ELSE session' = sess /\ UNCHANGED <<connections_, cut>>
    /\ UNCHANGED <<clientVars, acceptVars, bounds>>

\* The last shared_ptr to a session the manager let go of is gone.
SessionFreed(s) ==
    /\ session[s].state \in {"Connected", "Closed"} /\ s \notin connections_
    /\ ~session[s].reading /\ session[s].writes = 0
    /\ s # socket_.peer /\ s # arrived
    /\ session' = [session EXCEPT ![s] = NewSession]
    /\ stuck' = stuck \ {s}
    /\ UNCHANGED <<clientVars, acceptor_, accept_, arrived, connections_, cut, bounds>>

\* Acceptor::close(): the listening socket and every managed session are
\* closed.  Connections nobody accepted yet are reset; a handle_accept()
\* that is queued still runs.
close ==
    /\ acceptor_ = "open" /\ Fault(TRUE)
    /\ acceptor_' = "closed"
    /\ LET waiting == {s \in Sessions : session[s].state = "backlog"} \ {arrived}
       IN /\ session' = [s \in Sessions |->
                            IF s \in connections_ THEN [session[s] EXCEPT !.open = FALSE]
                            ELSE IF s \in waiting THEN [NewSession EXCEPT !.state = "Closed"]
                            ELSE session[s]]
          /\ cut' = cut \cup connections_ \cup waiting
    /\ connections_' = {}
    /\ UNCHANGED <<clientVars, accept_, arrived, stuck>>

------------------------------------------------------------------------------
Handlers == handle_resolve \/ handle_connect \/ handle_read \/ handle_write

Next ==
    \/ connect \/ connect_returns
    \/ handle_resolve \/ handle_connect \/ handle_read \/ handle_write
    \/ handle_retry \/ send \/ stop
    \/ ResolveDone \/ ConnectDone \/ ReadDone \/ WriteDone
    \/ LinkBreaks \/ Destroy
    \/ AcceptDone \/ AcceptFails \/ handle_accept \/ handle_accept_returns \/ close
    \/ \E s \in Sessions : SessionReadError(s) \/ SessionSpins(s) \/ SessionSend(s)
                           \/ SessionWriteDone(s) \/ SessionFreed(s)

\* The user's thread returns from connect(), the threads of the io_service
\* pools run what they can, the timer comes due and operations complete; nobody
\* has to send, stop or close, and nothing has to fail.
Fairness ==
    /\ WF_vars(connect \/ connect_returns)
    /\ WF_vars(Handlers) /\ WF_vars(handle_retry)
    /\ WF_vars(ResolveDone) /\ WF_vars(ConnectDone)
    /\ WF_vars(ReadDone) /\ WF_vars(AcceptDone)
    /\ WF_vars(handle_accept \/ handle_accept_returns)
    /\ \A s \in Sessions : /\ WF_vars(Broken(s) /\ SessionReadError(s))
                           /\ WF_vars(SessionWriteDone(s)) /\ WF_vars(SessionFreed(s))

Spec == Init /\ [][Next]_vars /\ Fairness

------------------------------------------------------------------------------
\* A client that is not closed has a resolution, a connect or a read under
\* way, so that something will either bring it on or close it for the retry
\* timer to see: the state is never left behind by handlers of an earlier
\* socket that run after a newer one was begun.  There are two exceptions.  The
\* first start() sets the state after it began the resolution: if that has
\* already failed on the io thread, the client is Resolving for good, until a
\* send() fails.  And a message that is not whole holds the io thread.
Stranded ==
    /\ state_ # "Closed" /\ ~Destroyed
    /\ resolves = 0 /\ reads = 0 /\ socket_.at # "connecting"
    /\ \A i \in DOMAIN ready : ready[i].op = "write"

NeverStranded == Stranded => outrun \/ spinning

\* A client with a retry interval whose connection broke, or could not be
\* made, is connected and reading again and again, unless its owner let go of
\* it, the server closed, or one of the two exceptions above left it stranded.
\* (Its state may say Resolving all the same, when the first start() was late.)
Reading == Up /\ reads + Queued({"read"}) > 0

Reconnects ==
    Retry => []<>(\/ Reading \/ Destroyed \/ acceptor_ = "closed"
                  \/ spinning \/ (Stranded /\ outrun))

\* A session the manager does not hold any more has its socket closed: no
\* descriptor is left open behind a connection that was let go.
LetGoMeansClosed ==
    \A s \in Sessions \ connections_ : ~session[s].open

\* A session whose connection is gone is closed and leaves the manager, unless
\* it, or another session on the same io_service, holds the thread on a
\* message that is not whole.
SessionEnds ==
    \A s \in Sessions :
        (s \in connections_ /\ s \in cut) ~> (s \notin connections_ \/ s \in stuck)
==============================================================================
