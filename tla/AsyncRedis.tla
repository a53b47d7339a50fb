------------------------------ MODULE AsyncRedis ------------------------------
(***************************************************************************)
(* The asynchronous Redis client of src/common/redis.cpp and redis_cmd.cpp *)
(* over hiredis.  A command is a task of the AsyncScheduler the client is: *)
(* any thread emits it; the event loop's thread runs the scheduler by a    *)
(* timer, which hands each command to the connection context_ points to,   *)
(* connecting first if there is none.  hiredis answers the commands of one *)
(* connection in order, and with NULL those that are left when it ends.    *)
(*                                                                         *)
(* One key of the server is modelled, with the command that wrote it last, *)
(* so that a reply tells what it has seen.  The other commands of          *)
(* redis_cmd.h (EXPIRE, HMSET, LPUSH, ZADD ...) differ from SET, GET and   *)
(* DEL in their arguments and in ReplyT, the type their reply has in C++.  *)
(***************************************************************************)
EXTENDS Naturals, Sequences, FiniteSets, SequencesExt

CONSTANTS
    Commands,       \* the RedisCommand objects, each emitted at most once
    Op,             \* what each asks the server: SET, GET or DEL
    Timed,          \* commands with a timeout that have no on_timeout()
    TimedCallback,  \* commands with a timeout and an on_timeout()
    Contexts,       \* bound: redisAsyncContext objects at one time
    MaxFaults       \* bound: failed and broken connections, calls of close()

NULL == 0
Nobody == "nobody"

ASSUME AsyncRedisAssumption ==
    /\ Nobody \notin Commands
    /\ Op \in [Commands -> {"SET", "GET", "DEL"}]
    /\ Timed \subseteq Commands /\ TimedCallback \subseteq Commands \ Timed
    /\ Contexts \subseteq Nat \ {0} /\ IsFiniteSet(Contexts)
    /\ MaxFaults \in Nat

VARIABLES
    context_,       \* the connection commands are handed to, or NULL
    conn,           \* per context: its state, the commands handed to it that
                    \* wait for a reply, and the replies that are on their way
    left,           \* per context: commands the server has not executed yet
    queue_ready_,   \* emitted commands
    running,        \* the commands run() took and has not called yet
    queue_wait_,    \* called commands that wait for a reply
    wait_by_time_,  \* called commands that may time out
    reply_status_,  \* per command
    seen,           \* per command: the reply it was parsed from
    ended,          \* commands whose done() or timeout() ran
    key,            \* the server's key: is it set, and by which command
    before,         \* per emitted command: those that were okay by then
    abandoned,      \* close() was called while commands waited for replies
    crashed,        \* what undefined behaviour the program died of, if any
    faults

clientVars == <<queue_ready_, running, queue_wait_, wait_by_time_, reply_status_,
                seen, ended, before>>
vars == <<context_, conn, left, clientVars, key, abandoned, crashed, faults>>

RedisCmdStatus == {"no", "okay", "nil", "error", "send_error", "wrone_type", "timeout"}

Reply(type, by) == [type |-> type, by |-> by]

Replies == [type : {"STRING", "STATUS", "INTEGER", "NIL", "ERROR", "NULL"},
            by : Commands \cup {Nobody}]

NewConn(state) == [state |-> state, sent |-> <<>>, replies |-> <<>>]

TypeOK ==
    /\ context_ \in Contexts \cup {NULL}
    /\ conn \in [Contexts -> [state : {"free", "connecting", "connected",
                                       "connecting, closing", "connected, closing"},
                              sent : Seq(Commands), replies : Seq(Replies)]]
    /\ left \in [Contexts -> Seq(Commands)]
    /\ queue_ready_ \in Seq(Commands) /\ running \in Seq(Commands)
    /\ queue_wait_ \subseteq Commands /\ wait_by_time_ \subseteq Commands
    /\ reply_status_ \in [Commands -> RedisCmdStatus]
    /\ seen \in [Commands -> Replies]
    /\ ended \subseteq Commands
    /\ key \in [set : BOOLEAN, by : Commands \cup {Nobody}]
    /\ DOMAIN before \subseteq Commands /\ before \in [DOMAIN before -> SUBSET Commands]
    /\ abandoned \in BOOLEAN /\ crashed \in {"no", "no context", "freed twice"}
    /\ faults \in 0 .. MaxFaults

Init ==
    /\ context_ = NULL
    /\ conn = [k \in Contexts |-> NewConn("free")]
    /\ left = [k \in Contexts |-> <<>>]
    /\ queue_ready_ = <<>> /\ running = <<>>
    /\ queue_wait_ = {} /\ wait_by_time_ = {}
    /\ reply_status_ = [c \in Commands |-> "no"]
    /\ seen = [c \in Commands |-> Reply("NULL", Nobody)]
    /\ ended = {}
    /\ key = [set |-> FALSE, by |-> Nobody]
    /\ before = [c \in {} |-> {}]
    /\ abandoned = FALSE /\ crashed = "no" /\ faults = 0

------------------------------------------------------------------------------
Emitted == DOMAIN before

Fault == faults < MaxFaults /\ faults' = faults + 1

\* The commands whose callback was told okay.
Okay == {c \in ended : reply_status_[c] = "okay"}

\* cmd(), exec(): any thread puts a command in the ready queue.
emit(c) ==
    /\ crashed = "no" /\ c \notin Emitted
    /\ queue_ready_' = Append(queue_ready_, c)
    /\ before' = [d \in Emitted \cup {c} |-> IF d = c THEN Okay ELSE before[d]]
    /\ UNCHANGED <<context_, conn, left, running, queue_wait_, wait_by_time_,
                   reply_status_, seen, ended, key, abandoned, crashed, faults>>

\* The event loop's thread is free for the next event.
Idle == crashed = "no" /\ running = <<>>

\* RedisCommand::timeout(): on_timeout() is called, or the status is set; the
\* status of a command that was answered before is set as well.
timeout(late) ==
    reply_status_' = [c \in Commands |-> IF c \in late \cap Timed THEN "timeout"
                                                                  ELSE reply_status_[c]]

\* AsyncScheduler::run(), from the timer: the commands whose time is over,
\* then all that are ready.
run ==
    /\ Idle /\ (queue_ready_ # <<>> \/ wait_by_time_ # {})
    /\ \E late \in SUBSET wait_by_time_ :
          /\ late = {} => queue_ready_ # <<>>
          /\ timeout(late)
          /\ queue_wait_' = queue_wait_ \ late
          /\ wait_by_time_' = wait_by_time_ \ late
          /\ ended' = ended \cup late
    /\ running' = queue_ready_ /\ queue_ready_' = <<>>
    /\ UNCHANGED <<context_, conn, left, seen, key, before, abandoned, crashed, faults>>

\* hiredis reports an error of the context before anyone can see its err.
isConnected == context_ # NULL

\* connect(): a new context, or an error at once.
Free == {k \in Contexts : conn[k].state = "free" /\ left[k] = <<>>}

Handed(c, k) ==
    /\ conn' = [conn EXCEPT ![k] =
          IF k = context_ THEN [conn[k] EXCEPT !.sent = Append(conn[k].sent, c)]
          ELSE [NewConn("connecting") EXCEPT !.sent = <<c>>]]
    /\ left' = [left EXCEPT ![k] = Append(@, c)]
    /\ context_' = k
    /\ UNCHANGED <<reply_status_, faults>>

\* A command that could not be handed over has a status, and no callback.
SendError(c) ==
    /\ reply_status_' = [reply_status_ EXCEPT ![c] = "send_error"]
    /\ UNCHANGED <<context_, conn, left>>

\* triggerCall(), RedisCommand::call() and submitToServer().
call ==
    /\ crashed = "no" /\ running # <<>>
    /\ LET c == Head(running)
       IN /\ queue_wait_' = queue_wait_ \cup {c}
          /\ wait_by_time_' = wait_by_time_ \cup ({c} \cap (Timed \cup TimedCallback))
          /\ IF isConnected THEN Handed(c, context_)
             ELSE \/ Free # {} /\ Handed(c, CHOOSE k \in Free : TRUE)
                  \/ Fault /\ SendError(c)
    /\ running' = Tail(running)
    /\ UNCHANGED <<queue_ready_, seen, ended, key, before, abandoned, crashed>>

------------------------------------------------------------------------------
(* Replies.                                                                *)

\* redis::SET(), GET() and DEL(): the C++ type of the reply, and the replies
\* that parseReplyObject() expects for it.
ReplyT(c) == IF Op[c] = "DEL" THEN "uint32_t" ELSE "string"
Expected(type) == IF type = "uint32_t" THEN {"INTEGER"} ELSE {"STRING", "STATUS"}

\* A mistake SeesOwnWrites finds: a NULL reply is parsed like any other.
StatusUnlessError(c, reply) ==
    IF reply.type \in Expected(ReplyT(c)) THEN "okay"
    ELSE IF reply.type = "ERROR" THEN "error"
    ELSE IF reply.type = "NIL" THEN "nil"
    ELSE "okay"

\* processReply(): NULL is an error; isExpectedReply() compares the type of
\* the reply with what is expected.
Status(c, reply) ==
    IF reply.type = "NULL" THEN "error"
    ELSE IF reply.type \in Expected(ReplyT(c)) THEN "okay"
    ELSE IF reply.type = "ERROR" THEN "error"
    ELSE IF reply.type = "NIL" THEN "nil"
    ELSE "wrone_type"

\* A mistake EmittedEnds finds: commands a connection left behind are not
\* told.
AnsweredIfReply(cs, reply) ==
    LET waiting == {c \in DOMAIN reply : c \in cs \cap queue_wait_ /\ reply[c].type # "NULL"}
    IN /\ reply_status_' = [c \in Commands |->
              IF c \in waiting THEN Status(c, reply[c]) ELSE reply_status_[c]]
       /\ seen' = [c \in Commands |-> IF c \in waiting THEN reply[c] ELSE seen[c]]
       /\ queue_wait_' = queue_wait_ \ waiting
       /\ ended' = ended \cup waiting
       /\ crashed' \in {"no"} \cup {"freed twice" : c \in {d \in cs \ queue_wait_ :
                                                             reply[d].type # "NULL"}}

\* redisCommandCallback(): triggerDone() parses the reply and runs the
\* callback of a command that still waits.  The reply of one that does not
\* is freed here and by hiredis once more.
Answered(cs, reply) ==
    LET waiting == cs \cap queue_wait_
    IN /\ reply_status_' = [c \in Commands |->
              IF c \in waiting THEN Status(c, reply[c]) ELSE reply_status_[c]]
       /\ seen' = [c \in Commands |-> IF c \in waiting THEN reply[c] ELSE seen[c]]
       /\ queue_wait_' = queue_wait_ \ waiting
       /\ ended' = ended \cup waiting
       /\ crashed' \in {"no"} \cup {"freed twice" : c \in {d \in cs \ queue_wait_ :
                                                             reply[d].type # "NULL"}}

\* hiredis answers what is left with NULL when it frees a context.
AnsweredNull(k) ==
    LET cs == ToSet(conn[k].sent)
    IN Answered(cs, [c \in cs |-> Reply("NULL", Nobody)])

Closing(k) == conn[k].state \in {"connecting, closing", "connected, closing"}
Connecting(k) == conn[k].state \in {"connecting", "connecting, closing"}
Connected(k) == conn[k].state \in {"connected", "connected, closing"}

\* A mistake ContextIsAlive finds: a connection that ends is only logged.
onDisconnectedLogs == UNCHANGED context_

\* onDisconnected(): whichever connection it was, context_ is cleared.
onDisconnected == context_' = NULL

\* onConnected(true).
ConnectDone(k) ==
    /\ Idle /\ Connecting(k)
    /\ conn' = [conn EXCEPT ![k].state = IF Closing(k) THEN "connected, closing"
                                                       ELSE "connected"]
    /\ UNCHANGED <<context_, left, clientVars, key, abandoned, crashed, faults>>

\* onConnected(false): reads the error of the connection context_ points to
\* and clears it; hiredis then frees the context.  Without one the program
\* dies.
ConnectFails(k) ==
    /\ Idle /\ Connecting(k) /\ Fault
    /\ IF context_ = NULL
       THEN /\ crashed' = "no context"
            /\ UNCHANGED <<context_, conn, left, clientVars>>
       ELSE /\ context_' = NULL
            /\ AnsweredNull(k)
            /\ conn' = [conn EXCEPT ![k] = NewConn("free")]
            /\ left' = [left EXCEPT ![k] = <<>>]
            /\ UNCHANGED <<queue_ready_, running, wait_by_time_, before>>
    /\ UNCHANGED <<key, abandoned>>

\* A reply has arrived; the last one a closing connection waits for ends it.
ReplyArrives(k) ==
    /\ Idle /\ Connected(k) /\ conn[k].replies # <<>>
    /\ LET c == Head(conn[k].sent)
           last == Closing(k) /\ Len(conn[k].sent) = 1
       IN /\ Answered({c}, [d \in {c} |-> Head(conn[k].replies)])
          /\ conn' = [conn EXCEPT ![k] =
                IF last THEN NewConn("free")
                ELSE [conn[k] EXCEPT !.sent = Tail(conn[k].sent),
                                     !.replies = Tail(conn[k].replies)]]
          /\ IF last THEN onDisconnected ELSE UNCHANGED context_
    /\ UNCHANGED <<left, queue_ready_, running, wait_by_time_, before, key, abandoned, faults>>

\* The connection breaks: the replies on their way are lost, but what was
\* sent may still be executed.
Breaks(k) ==
    /\ Idle /\ Connected(k) /\ Fault
    /\ AnsweredNull(k)
    /\ conn' = [conn EXCEPT ![k] = NewConn("free")]
    /\ onDisconnected
    /\ UNCHANGED <<left, queue_ready_, running, wait_by_time_, before, key, abandoned>>

\* close(): hiredis keeps the context until its commands are answered.
close ==
    /\ Idle /\ context_ # NULL /\ Fault
    /\ conn' = [conn EXCEPT ![context_] =
          IF conn[context_].sent = <<>> THEN NewConn("free")
          ELSE [conn[context_] EXCEPT
                   !.state = IF Connecting(context_) THEN "connecting, closing"
                                                     ELSE "connected, closing"]]
    /\ context_' = NULL
    /\ abandoned' = (abandoned \/ conn[context_].sent # <<>>)
    /\ UNCHANGED <<left, clientVars, key, crashed>>

------------------------------------------------------------------------------
(* The server.                                                             *)

\* What the server answers, by what the key holds.
Answer(c) ==
    IF Op[c] = "SET" THEN Reply("STATUS", c)
    ELSE IF Op[c] = "DEL" THEN Reply("INTEGER", c)
    ELSE Reply(IF key.set THEN "STRING" ELSE "NIL", key.by)

Replied(k, reply) ==
    conn' = IF Connected(k) THEN [conn EXCEPT ![k].replies = Append(@, reply)] ELSE conn

Execute(k) ==
    /\ crashed = "no" /\ left[k] # <<>> /\ (Connected(k) \/ conn[k].state = "free")
    /\ LET c == Head(left[k])
       IN \/ /\ key' = IF Op[c] = "GET" THEN key ELSE [set |-> Op[c] = "SET", by |-> c]
             /\ Replied(k, Answer(c))
             /\ UNCHANGED faults
          \/ Fault /\ Replied(k, Reply("ERROR", Nobody)) /\ UNCHANGED key
    /\ left' = [left EXCEPT ![k] = Tail(@)]
    /\ UNCHANGED <<context_, clientVars, abandoned, crashed>>

\* What a connection that broke had not carried yet is lost with it.
Lost(k) ==
    /\ left[k] # <<>> /\ conn[k].state = "free"
    /\ left' = [left EXCEPT ![k] = <<>>]
    /\ UNCHANGED <<context_, conn, clientVars, key, abandoned, crashed, faults>>

------------------------------------------------------------------------------
Next ==
    \/ \E c \in Commands : emit(c)
    \/ run \/ call \/ close
    \/ \E k \in Contexts : ConnectDone(k) \/ ConnectFails(k) \/ ReplyArrives(k) \/ Breaks(k)
                           \/ Execute(k) \/ Lost(k)

\* The event loop keeps running, its timer comes due, and connections are
\* made and served unless they fail.
Fairness ==
    /\ WF_vars(run) /\ WF_vars(call)
    /\ WF_vars(\E k \in Contexts :
                  ConnectDone(k) \/ ReplyArrives(k) \/ Execute(k) \/ Lost(k))

Spec == Init /\ [][Next]_vars /\ Fairness

------------------------------------------------------------------------------
\* The client never hands a command to a context that hiredis has freed or is
\* closing.  It only dies in its callbacks if close() was called while commands
\* waited for replies, or if a reply came after the timeout of its command.
ContextIsAlive ==
    /\ context_ # NULL => ~Closing(context_) /\ conn[context_].state # "free"
    /\ crashed = "no context" => abandoned
    /\ crashed = "freed twice" => ended \cap (Timed \cup TimedCallback) # {}

\* Whatever broke and was connected again in between, a GET that was answered
\* has seen the writes that were told okay before it was emitted: it does not
\* read what the last of them had overwritten.
SeesOwnWrites ==
    \A g \in ended :
        Op[g] = "GET" /\ reply_status_[g] \in {"okay", "nil"} =>
            \A w \in before[g] : Op[w] \in {"SET", "DEL"} =>
                seen[g].by # Nobody /\ seen[g].by \notin before[w]

\* Every command that was emitted ends: its callback is told of the reply or
\* of the connection that was lost, or it times out.  The exceptions are a
\* command that could not be handed over, and a program that died.  Commands
\* are emitted once and stay ended, so one formula says it of all.
EmittedEnds ==
    <>[](\A c \in Emitted : c \in ended \/ reply_status_[c] = "send_error" \/ crashed # "no")

------------------------------------------------------------------------------
(* The inductive invariant behind ContextIsAlive and SeesOwnWrites.        *)

Distinct(s) == \A i, j \in DOMAIN s : s[i] = s[j] => i = j

\* The commands of a connection: those the client waits for, or those a
\* connection that ended may still bring to the server.
Carried(k) == ToSet(conn[k].sent) \cup ToSet(left[k])

\* A command is in one queue or with one connection, once.
HeldOnce ==
    /\ Distinct(queue_ready_) /\ Distinct(running)
    /\ ToSet(queue_ready_) \cup ToSet(running) \subseteq Emitted
    /\ ToSet(queue_ready_) \cap ToSet(running) = {}
    /\ \A k \in Contexts :
          /\ Distinct(conn[k].sent) /\ Distinct(left[k]) /\ Carried(k) \subseteq Emitted
          /\ Carried(k) \cap (ToSet(queue_ready_) \cup ToSet(running)) = {}
    /\ \A k, l \in Contexts : k # l => Carried(k) \cap Carried(l) = {}

\* The server answers the commands of a connection in the order they were
\* sent: those it has not executed are the last ones sent.
InTurn ==
    \A k \in Contexts :
        IF conn[k].state = "free" THEN conn[k].sent = <<>> /\ conn[k].replies = <<>>
        ELSE /\ Len(conn[k].sent) = Len(conn[k].replies) + Len(left[k])
             /\ \A i \in DOMAIN left[k] : conn[k].sent[Len(conn[k].replies) + i] = left[k][i]
             /\ Connecting(k) => conn[k].replies = <<>>

\* A connection that is not the client's own one was closed before its
\* commands were answered.
OthersWereClosed ==
    \A k \in Contexts : k # context_ /\ conn[k].state # "free" => abandoned

\* What was sent waits for its reply unless it timed out.
SentWaits ==
    /\ wait_by_time_ \subseteq Timed \cup TimedCallback
    /\ \A k \in Contexts :
          ToSet(conn[k].sent) \subseteq queue_wait_ \cup (ended \cap (Timed \cup TimedCallback))

\* The commands the server may still execute.
Pending ==
    (Commands \ Emitted) \cup ToSet(queue_ready_) \cup ToSet(running)
        \cup (UNION {ToSet(left[k]) : k \in Contexts})

\* What was confirmed to a callback is never executed afterwards.
ConfirmedIsOver ==
    /\ \A c \in Commands : reply_status_[c] \in {"okay", "nil"} => c \in ended \ Pending
    /\ \A c \in Emitted : before[c] \cap Pending = {}

\* The reply that is on its way to a command is one the server gives it.
Fitting(c) ==
    {"ERROR"} \cup (IF Op[c] = "SET" THEN {"STATUS"}
                    ELSE IF Op[c] = "DEL" THEN {"INTEGER"} ELSE {"STRING", "NIL"})
RepliesFit ==
    \A k \in Contexts : \A i \in DOMAIN conn[k].replies :
        conn[k].replies[i].type \in Fitting(conn[k].sent[i])

\* The commands the server has executed, as a confirmation of it shows.
Served(k) == {conn[k].sent[i] : i \in {j \in DOMAIN conn[k].replies :
                                        conn[k].replies[j].type # "ERROR"}}
Executed ==
    Okay \cup (UNION {before[c] : c \in Emitted}) \cup (UNION {Served(k) : k \in Contexts})

\* by is not a state of the key that the write w had overwritten.
NotOverwritten(by, w) == Op[w] \in {"SET", "DEL"} => by # Nobody /\ by \notin before[w]

\* What the key holds, and what a reply on its way tells of it, is not older
\* than the writes that were confirmed.
KeyIsNew == \A w \in Executed : NotOverwritten(key.by, w)
RepliesAreNew ==
    \A k \in Contexts : \A i \in DOMAIN conn[k].replies :
        Op[conn[k].sent[i]] = "GET" /\ conn[k].replies[i].type # "ERROR" =>
            \A w \in before[conn[k].sent[i]] : NotOverwritten(conn[k].replies[i].by, w)

IInv ==
    /\ TypeOK /\ ContextIsAlive /\ OthersWereClosed /\ HeldOnce /\ InTurn /\ SentWaits
    /\ ConfirmedIsOver /\ RepliesFit /\ KeyIsNew /\ RepliesAreNew /\ SeesOwnWrites
==============================================================================
