-------------------------- MODULE AsyncClientsProofs --------------------------
(***************************************************************************)
(* Proofs about the two asynchronous clients: AsyncRedis, for any set of   *)
(* commands with and without timeouts, any number of connections and any   *)
(* number of faults; and AsyncMyCache in the program that uses either, for *)
(* any number of calls, alone, in series and in parallel, with and without *)
(* timeouts, and any number of requests that are lost or cannot be sent.   *)
(***************************************************************************)
EXTENDS MCAsyncClients, TLAPS, WellFoundedInduction

-----------------------------------------------------------------------------
(***************************************************************************)
(* Queues of distinct commands, and the commands in them.                  *)
(***************************************************************************)
LEMMA AppendSet ==
  ASSUME NEW S, NEW s \in Seq(S), NEW c \in S
  PROVE  /\ Append(s, c) \in Seq(S)
         /\ ToSet(Append(s, c)) = ToSet(s) \cup {c}
         /\ Distinct(s) /\ c \notin ToSet(s) => Distinct(Append(s, c))
<1> DEFINE t == Append(s, c)
<1>1. /\ t \in Seq(S) /\ Len(t) = Len(s) + 1 /\ Len(s) \in Nat
      /\ DOMAIN s = 1 .. Len(s) /\ DOMAIN t = 1 .. Len(s) + 1
      /\ t[Len(s) + 1] = c /\ \A i \in 1 .. Len(s) : t[i] = s[i]
  OBVIOUS
<1> HIDE DEF t
<1>2. ToSet(t) = ToSet(s) \cup {c}
  <2>1. \A i \in DOMAIN s : i \in DOMAIN t /\ t[i] = s[i]  BY <1>1
  <2>2. Len(s) + 1 \in DOMAIN t  BY <1>1
  <2>3. \A i \in DOMAIN t : i \in DOMAIN s \/ i = Len(s) + 1  BY <1>1
  <2> QED  BY <1>1, <2>1, <2>2, <2>3, Zenon DEF ToSet
<1>3. ASSUME Distinct(s), c \notin ToSet(s), NEW i \in DOMAIN t, NEW j \in DOMAIN t, t[i] = t[j]
      PROVE  i = j
  <2>1. \A k \in DOMAIN s : s[k] # c  BY <1>3 DEF ToSet
  <2> QED  BY <1>1, <1>3, <2>1 DEF Distinct
<1> QED  BY <1>1, <1>2, <1>3 DEF t, Distinct

LEMMA TailSet ==
  ASSUME NEW S, NEW s \in Seq(S), s # <<>>
  PROVE  /\ Tail(s) \in Seq(S) /\ Head(s) \in S /\ Head(s) \in ToSet(s)
         /\ Head(s) = s[1] /\ 1 \in DOMAIN s
         /\ Len(s) \in Nat /\ Len(s) # 0 /\ Len(Tail(s)) = Len(s) - 1
         /\ \A i \in DOMAIN Tail(s) : i \in Nat /\ i + 1 \in DOMAIN s /\ Tail(s)[i] = s[i + 1]
         /\ ToSet(s) = ToSet(Tail(s)) \cup {Head(s)}
         /\ Distinct(s) => Distinct(Tail(s)) /\ Head(s) \notin ToSet(Tail(s))
<1> DEFINE t == Tail(s)
<1>1. /\ t \in Seq(S) /\ Len(s) \in Nat /\ Len(s) # 0 /\ Len(t) = Len(s) - 1 /\ s[1] \in S
      /\ DOMAIN s = 1 .. Len(s) /\ DOMAIN t = 1 .. Len(s) - 1 /\ Head(s) = s[1]
      /\ \A i \in 1 .. Len(s) - 1 : t[i] = s[i + 1]
  OBVIOUS
<1> HIDE DEF t
<1>2. \A i \in DOMAIN t : i \in Nat /\ i + 1 \in DOMAIN s /\ i + 1 # 1 /\ t[i] = s[i + 1]
  BY <1>1
<1>3. 1 \in DOMAIN s  BY <1>1
<1>4. ToSet(s) = ToSet(t) \cup {s[1]}
  <2>1. \A i \in DOMAIN s : i = 1 \/ (i - 1 \in DOMAIN t /\ t[i - 1] = s[i])  BY <1>1
  <2>2. ASSUME NEW x \in ToSet(s) PROVE x \in ToSet(t) \cup {s[1]}
    <3>1. PICK i \in DOMAIN s : x = s[i]  BY <2>2 DEF ToSet
    <3> QED  BY <2>1, <3>1 DEF ToSet
  <2>3. ASSUME NEW x \in ToSet(t) PROVE x \in ToSet(s)  BY <1>2, <2>3 DEF ToSet
  <2>4. s[1] \in ToSet(s)  BY <1>3 DEF ToSet
  <2> QED  BY <2>2, <2>3, <2>4
<1>5. ASSUME Distinct(s) PROVE Distinct(t) /\ s[1] \notin ToSet(t)
  <2>1. \A i, j \in DOMAIN t : t[i] = t[j] => i = j
    <3>1. SUFFICES ASSUME NEW i \in DOMAIN t, NEW j \in DOMAIN t, t[i] = t[j] PROVE i = j
      OBVIOUS
    <3>2. i + 1 = j + 1  BY <1>2, <1>5, <3>1 DEF Distinct
    <3> QED  BY <1>1, <3>2
  <2>2. \A i \in DOMAIN t : t[i] # s[1]  BY <1>2, <1>3, <1>5 DEF Distinct
  <2> QED  BY <2>1, <2>2 DEF Distinct, ToSet
<1>6. Head(s) \in ToSet(s)  BY <1>1, <1>3 DEF ToSet
<1> QED  BY <1>1, <1>2, <1>3, <1>4, <1>5, <1>6 DEF t

LEMMA EmptySet == ToSet(<<>>) = {} /\ Distinct(<<>>)
BY DEF ToSet, Distinct

LEMMA ElementSet ==
  ASSUME NEW S, NEW s \in Seq(S)
  PROVE  ToSet(s) \subseteq S /\ (s # <<>> => ToSet(s) # {})
<1>1. \A i \in DOMAIN s : s[i] \in S  OBVIOUS
<1>2. s # <<>> => 1 \in DOMAIN s  OBVIOUS
<1> QED  BY <1>1, <1>2 DEF ToSet

-----------------------------------------------------------------------------
(***************************************************************************)
(* What the steps do to the connections and to the commands.               *)
(***************************************************************************)
States == {"free", "connecting", "connected", "connecting, closing", "connected, closing"}
Conns == [state : States, sent : Seq(Commands), replies : Seq(Replies)]

\* The connections other than k keep what they have.
Others(k) == \A l \in Contexts : l # k => conn'[l] = conn[l] /\ left'[l] = left[l]

Sends(c, k) ==
  /\ Others(k) /\ context_' = k
  /\ conn'[k].sent = Append(conn[k].sent, c) /\ conn'[k].replies = conn[k].replies
  /\ left'[k] = Append(left[k], c)
  /\ \/ context_ = k /\ conn'[k].state = conn[k].state
     \/ /\ context_ = NULL /\ conn[k].state = "free" /\ left[k] = <<>>
        /\ conn'[k].state = "connecting"

Frees(k) ==
  /\ Others(k) /\ context_' = NULL
  /\ conn'[k].state = "free" /\ conn'[k].sent = <<>> /\ conn'[k].replies = <<>>
  /\ left'[k] \in {left[k], <<>>}

Takes(k) ==
  /\ Others(k) /\ context_' = context_
  /\ conn'[k].state = conn[k].state
  /\ conn'[k].sent = Tail(conn[k].sent) /\ conn'[k].replies = Tail(conn[k].replies)
  /\ left'[k] = left[k]

ConnTypes == conn' \in [Contexts -> Conns] /\ left' \in [Contexts -> Seq(Commands)]

LEMMA TypeFacts ==
  ASSUME TypeOK
  PROVE  /\ context_ \in Contexts \cup {NULL} /\ NULL \notin Contexts
         /\ conn \in [Contexts -> Conns] /\ left \in [Contexts -> Seq(Commands)]
         /\ queue_ready_ \in Seq(Commands) /\ running \in Seq(Commands)
         /\ queue_wait_ \subseteq Commands /\ wait_by_time_ \subseteq Commands
         /\ reply_status_ \in [Commands -> RedisCmdStatus] /\ seen \in [Commands -> Replies]
         /\ ended \subseteq Commands
         /\ Emitted \subseteq Commands /\ before \in [Emitted -> SUBSET Commands]
         /\ \A k \in Contexts : /\ conn[k].state \in States
                                /\ conn[k].sent \in Seq(Commands)
                                /\ conn[k].replies \in Seq(Replies)
                                /\ left[k] \in Seq(Commands)
<1>1. NULL \notin Contexts  BY AsyncRedisAssumption DEF NULL
<1>2. conn \in [Contexts -> Conns]  BY DEF TypeOK, Conns, States
<1> QED  BY <1>1, <1>2 DEF TypeOK, Emitted, Conns

LEMMA ReplyTypes == Reply("NULL", Nobody) \in Replies /\ Reply("ERROR", Nobody) \in Replies
BY DEF Reply, Replies

LEMMA StatusType ==
  ASSUME NEW c, NEW r PROVE Status(c, r) \in RedisCmdStatus
BY DEF Status, RedisCmdStatus

LEMMA NewConnType ==
  ASSUME NEW state \in States
  PROVE  /\ NewConn(state) \in Conns /\ NewConn(state).state = state
         /\ NewConn(state).sent = <<>> /\ NewConn(state).replies = <<>>
<1>1. <<>> \in Seq(Commands) /\ <<>> \in Seq(Replies)  OBVIOUS
<1> QED  BY <1>1 DEF NewConn, Conns

\* One context takes another value.
LEMMA PutConn ==
  ASSUME TypeOK, NEW k \in Contexts, NEW x \in Conns, conn' = [conn EXCEPT ![k] = x]
  PROVE  /\ conn' \in [Contexts -> Conns] /\ conn'[k] = x
         /\ \A l \in Contexts : l # k => conn'[l] = conn[l]
BY TypeFacts

LEMMA PutLeft ==
  ASSUME TypeOK, NEW k \in Contexts, NEW s \in Seq(Commands), left' = [left EXCEPT ![k] = s]
  PROVE  /\ left' \in [Contexts -> Seq(Commands)] /\ left'[k] = s
         /\ \A l \in Contexts : l # k => left'[l] = left[l]
BY TypeFacts

LEMMA HandedStep ==
  ASSUME TypeOK, InTurn, NEW c \in Commands, NEW k \in Contexts, Handed(c, k),
         k = context_ \/ (context_ = NULL /\ k \in Free)
  PROVE  Sends(c, k) /\ ConnTypes
<1> DEFINE x == IF k = context_ THEN [conn[k] EXCEPT !.sent = Append(conn[k].sent, c)]
                ELSE [NewConn("connecting") EXCEPT !.sent = <<c>>]
<1>1. conn' = [conn EXCEPT ![k] = x]  BY TypeFacts DEF Handed
<1>2. Append(left[k], c) \in Seq(Commands) /\ Append(conn[k].sent, c) \in Seq(Commands)
  BY TypeFacts
<1>3. <<c>> \in Seq(Commands)  OBVIOUS
<1>4. /\ x \in Conns /\ x.sent = Append(conn[k].sent, c) /\ x.replies = conn[k].replies
      /\ \/ context_ = k /\ x.state = conn[k].state
         \/ /\ context_ = NULL /\ conn[k].state = "free" /\ left[k] = <<>>
            /\ x.state = "connecting"
  <2>1. CASE k = context_  BY <1>2, <2>1, TypeFacts DEF Conns
  <2>2. CASE k # context_
    <3>1. context_ = NULL /\ conn[k].state = "free" /\ left[k] = <<>>  BY <2>2 DEF Free
    <3>2. conn[k].sent = <<>> /\ conn[k].replies = <<>>  BY <3>1 DEF InTurn
    <3>3. Append(conn[k].sent, c) = <<c>>  BY <3>2
    <3>4. x = [NewConn("connecting") EXCEPT !.sent = <<c>>]  BY <2>2
    <3>5. x = [state |-> "connecting", sent |-> <<c>>, replies |-> <<>>]  BY <3>4 DEF NewConn
    <3>6. <<>> \in Seq(Replies)  OBVIOUS
    <3> QED  BY <1>3, <3>1, <3>2, <3>3, <3>5, <3>6 DEF Conns, States
  <2> QED  BY <2>1, <2>2
<1> HIDE DEF x
<1>5. /\ conn' \in [Contexts -> Conns] /\ conn'[k] = x
      /\ \A l \in Contexts : l # k => conn'[l] = conn[l]
  BY <1>1, <1>4, PutConn
<1>6. /\ left' \in [Contexts -> Seq(Commands)] /\ left'[k] = Append(left[k], c)
      /\ \A l \in Contexts : l # k => left'[l] = left[l]
  BY <1>2, PutLeft DEF Handed
<1>7. context_' = k  BY DEF Handed
<1> QED  BY <1>4, <1>5, <1>6, <1>7 DEF Sends, Others, ConnTypes

LEMMA CallCases ==
  ASSUME IInv, call
  PROVE  /\ running # <<>> /\ Head(running) \in Commands /\ running' = Tail(running)
         /\ queue_wait_' = queue_wait_ \cup {Head(running)}
         /\ wait_by_time_' = wait_by_time_ \cup ({Head(running)} \cap (Timed \cup TimedCallback))
         /\ UNCHANGED <<queue_ready_, seen, ended, key, before, abandoned, crashed>>
         /\ crashed = "no"
         /\ \/ /\ \E k \in Contexts : Sends(Head(running), k)
               /\ ConnTypes /\ UNCHANGED <<reply_status_, faults>>
            \/ /\ reply_status_' = [reply_status_ EXCEPT ![Head(running)] = "send_error"]
               /\ UNCHANGED <<context_, conn, left>> /\ Fault
<1> DEFINE c == Head(running)
<1>0. TypeOK /\ InTurn  BY DEF IInv
<1>1. running # <<>> /\ c \in Commands  BY <1>0, TypeFacts, TailSet DEF call
<1> HIDE DEF c
<1>2. CASE isConnected
  <2>1. context_ \in Contexts  BY <1>0, <1>2, TypeFacts DEF isConnected
  <2>2. Handed(c, context_)  BY <1>2 DEF call, c
  <2>3. Sends(c, context_) /\ ConnTypes  BY <1>0, <1>1, <2>1, <2>2, HandedStep
  <2> QED  BY <1>1, <2>1, <2>2, <2>3 DEF call, c, Handed
<1>3. CASE ~isConnected /\ Free # {} /\ Handed(c, CHOOSE k \in Free : TRUE)
  <2>1. PICK k \in Free : Handed(c, k)  BY <1>3
  <2>2. k \in Contexts /\ context_ = NULL  BY <1>3 DEF Free, isConnected
  <2>3. Sends(c, k) /\ ConnTypes  BY <1>0, <1>1, <2>1, <2>2, HandedStep
  <2> QED  BY <1>1, <2>1, <2>2, <2>3 DEF call, c, Handed
<1>4. CASE Fault /\ SendError(c)  BY <1>1, <1>4 DEF call, c, SendError
<1> QED  BY <1>2, <1>3, <1>4 DEF call, c

LEMMA AnsweredStep ==
  ASSUME TypeOK, NEW cs \in SUBSET Commands, NEW reply, Answered(cs, reply),
         \A c \in cs : reply[c] \in Replies
  PROVE  /\ reply_status_' \in [Commands -> RedisCmdStatus] /\ seen' \in [Commands -> Replies]
         /\ queue_wait_' = queue_wait_ \ cs /\ ended' = ended \cup (cs \cap queue_wait_)
         /\ \A c \in Commands :
              IF c \in cs /\ c \in queue_wait_
              THEN reply_status_'[c] = Status(c, reply[c]) /\ seen'[c] = reply[c]
              ELSE reply_status_'[c] = reply_status_[c] /\ seen'[c] = seen[c]
         /\ crashed' \in {"no", "freed twice"}
         /\ cs \subseteq queue_wait_ => crashed' = "no"
<1>1. /\ reply_status_' = [c \in Commands |-> IF c \in cs \cap queue_wait_
                                              THEN Status(c, reply[c]) ELSE reply_status_[c]]
      /\ seen' = [c \in Commands |-> IF c \in cs \cap queue_wait_ THEN reply[c] ELSE seen[c]]
      /\ queue_wait_' = queue_wait_ \ (cs \cap queue_wait_)
      /\ ended' = ended \cup (cs \cap queue_wait_)
      /\ crashed' \in {"no"} \cup {"freed twice" : c \in {d \in cs \ queue_wait_ :
                                                            reply[d].type # "NULL"}}
  BY Zenon DEF Answered
<1>2. \A c \in Commands : Status(c, reply[c]) \in RedisCmdStatus  BY StatusType
<1> HIDE DEF Status
<1> QED  BY <1>1, <1>2, TypeFacts

\* The commands that are told that their connection ended.
LEMMA NullStep ==
  ASSUME TypeOK, NEW k \in Contexts, AnsweredNull(k)
  PROVE  /\ reply_status_' \in [Commands -> RedisCmdStatus] /\ seen' \in [Commands -> Replies]
         /\ queue_wait_' = queue_wait_ \ ToSet(conn[k].sent)
         /\ ended' = ended \cup (ToSet(conn[k].sent) \cap queue_wait_)
         /\ crashed' = "no"
         /\ \A c \in Commands : reply_status_'[c] # "error" =>
              reply_status_'[c] = reply_status_[c] /\ seen'[c] = seen[c]
<1>0. PICK cs, reply : /\ cs = ToSet(conn[k].sent)
                       /\ reply = [c \in cs |-> Reply("NULL", Nobody)]
  OBVIOUS
<1>1. cs \in SUBSET Commands  BY <1>0, TypeFacts, ElementSet
<1>2. Answered(cs, reply)  BY <1>0 DEF AnsweredNull
<1>3. \A c \in cs : reply[c] = Reply("NULL", Nobody)  BY <1>0
<1>4. \A c \in cs : reply[c] \in Replies /\ reply[c].type = "NULL"
  BY <1>3, ReplyTypes DEF Reply
<1>5. \A c \in cs : Status(c, reply[c]) = "error"  BY <1>4 DEF Status
<1>a. \A c \in cs : reply[c] \in Replies  BY <1>4
<1>6. /\ reply_status_' \in [Commands -> RedisCmdStatus] /\ seen' \in [Commands -> Replies]
      /\ queue_wait_' = queue_wait_ \ cs /\ ended' = ended \cup (cs \cap queue_wait_)
      /\ \A c \in Commands :
           IF c \in cs /\ c \in queue_wait_
           THEN reply_status_'[c] = Status(c, reply[c]) /\ seen'[c] = reply[c]
           ELSE reply_status_'[c] = reply_status_[c] /\ seen'[c] = seen[c]
  BY <1>1, <1>2, <1>a, AnsweredStep
<1>7. crashed' = "no"
  <2>1. {d \in cs \ queue_wait_ : reply[d].type # "NULL"} = {}  BY <1>4
  <2>2. crashed' \in {"no"} \cup {"freed twice" : c \in {d \in cs \ queue_wait_ :
                                                             reply[d].type # "NULL"}}
    BY <1>2, Zenon DEF Answered
  <2> QED  BY <2>1, <2>2
<1> QED  BY <1>5, <1>6, <1>7, <1>0

LEMMA CloseStep ==
  ASSUME TypeOK, close
  PROVE  /\ ConnTypes /\ context_ \in Contexts /\ context_' = NULL
         /\ Others(context_) /\ left' = left
         /\ abandoned' = (abandoned \/ conn[context_].sent # <<>>)
         /\ \/ conn[context_].sent = <<>> /\ Frees(context_)
            \/ /\ conn[context_].sent # <<>>
               /\ conn'[context_].sent = conn[context_].sent
               /\ conn'[context_].replies = conn[context_].replies
               /\ conn'[context_].state = IF Connecting(context_) THEN "connecting, closing"
                                                                  ELSE "connected, closing"
<1> DEFINE k == context_
           st == IF Connecting(k) THEN "connecting, closing" ELSE "connected, closing"
           x == IF conn[k].sent = <<>> THEN NewConn("free") ELSE [conn[k] EXCEPT !.state = st]
<1>1. k \in Contexts  BY TypeFacts DEF close
<1>2. conn' = [conn EXCEPT ![k] = x] /\ left' = left /\ context_' = NULL
  BY DEF close
<1>3. st \in States  BY DEF States
<1> HIDE DEF k, st
<1>4. conn[k] \in Conns  BY <1>1, TypeFacts
<1>5. /\ x \in Conns
      /\ \/ conn[k].sent = <<>> /\ x.state = "free" /\ x.sent = <<>> /\ x.replies = <<>>
         \/ /\ conn[k].sent # <<>> /\ x.sent = conn[k].sent /\ x.replies = conn[k].replies
            /\ x.state = st
  <2>1. CASE conn[k].sent = <<>>  BY <2>1, NewConnType DEF States
  <2>2. CASE conn[k].sent # <<>>  BY <1>3, <1>4, <2>2 DEF Conns
  <2> QED  BY <2>1, <2>2
<1> HIDE DEF x
<1>6. /\ conn' \in [Contexts -> Conns] /\ conn'[k] = x
      /\ \A l \in Contexts : l # k => conn'[l] = conn[l]
  BY <1>1, <1>2, <1>5, PutConn
<1>7. Others(k) /\ ConnTypes  BY <1>2, <1>6, TypeFacts DEF Others, ConnTypes
<1>8. abandoned' = (abandoned \/ conn[k].sent # <<>>)  BY DEF close, k
<1>9. \/ conn[k].sent = <<>> /\ Frees(k)
      \/ /\ conn[k].sent # <<>> /\ conn'[k].sent = conn[k].sent
         /\ conn'[k].replies = conn[k].replies /\ conn'[k].state = st
  BY <1>2, <1>5, <1>6, <1>7 DEF Frees
<1> QED  BY <1>1, <1>2, <1>7, <1>8, <1>9 DEF k, st

LEMMA FreesStep ==
  ASSUME TypeOK, NEW k \in Contexts, conn' = [conn EXCEPT ![k] = NewConn("free")],
         left' = left \/ left' = [left EXCEPT ![k] = <<>>], context_' = NULL
  PROVE  Frees(k) /\ ConnTypes
<1>1. "free" \in States  BY DEF States
<1>2. /\ conn' \in [Contexts -> Conns] /\ conn'[k] = NewConn("free")
      /\ \A l \in Contexts : l # k => conn'[l] = conn[l]
  BY <1>1, PutConn, NewConnType
<1>3. <<>> \in Seq(Commands)  OBVIOUS
<1>4. /\ left' \in [Contexts -> Seq(Commands)] /\ left'[k] \in {left[k], <<>>}
      /\ \A l \in Contexts : l # k => left'[l] = left[l]
  BY <1>3, TypeFacts
<1> QED  BY <1>1, <1>2, <1>4, NewConnType DEF Frees, Others, ConnTypes

LEMMA FailsStep ==
  ASSUME TypeOK, NEW k \in Contexts, ConnectFails(k)
  PROVE  /\ Connecting(k) /\ crashed = "no" /\ UNCHANGED <<queue_ready_, running, wait_by_time_, before, key, abandoned>>
         /\ Fault
         /\ \/ /\ context_ = NULL /\ crashed' = "no context"
               /\ UNCHANGED <<context_, conn, left, clientVars>>
            \/ /\ context_ # NULL /\ Frees(k) /\ ConnTypes /\ AnsweredNull(k) /\ left'[k] = <<>>
<1>1. Connecting(k) /\ Fault /\ crashed = "no" /\ UNCHANGED <<key, abandoned>>
  BY DEF ConnectFails, Idle
<1>2. CASE context_ = NULL
  BY <1>1, <1>2 DEF ConnectFails, clientVars
<1>3. CASE context_ # NULL
  <2>1. /\ context_' = NULL /\ AnsweredNull(k) /\ conn' = [conn EXCEPT ![k] = NewConn("free")]
        /\ left' = [left EXCEPT ![k] = <<>>]
        /\ UNCHANGED <<queue_ready_, running, wait_by_time_, before>>
    BY <1>3 DEF ConnectFails
  <2>2. Frees(k) /\ ConnTypes /\ left'[k] = <<>>  BY <2>1, FreesStep, TypeFacts
  <2> QED  BY <1>1, <1>3, <2>1, <2>2
<1> QED  BY <1>2, <1>3

LEMMA BreaksStep ==
  ASSUME TypeOK, NEW k \in Contexts, Breaks(k)
  PROVE  /\ Connected(k) /\ crashed = "no" /\ Fault /\ AnsweredNull(k) /\ Frees(k) /\ ConnTypes
         /\ UNCHANGED <<left, queue_ready_, running, wait_by_time_, before, key, abandoned>>
BY FreesStep DEF Breaks, onDisconnected, Idle

\* The first command sent has its reply, and is not to be executed any more.
LEMMA FirstIsOver ==
  ASSUME IInv, NEW k \in Contexts, conn[k].replies # <<>>
  PROVE  /\ conn[k].sent # <<>> /\ conn[k].state # "free"
         /\ Head(conn[k].sent) \in ToSet(conn[k].sent) /\ Head(conn[k].sent) \in Commands
         /\ Head(conn[k].replies) \in Replies
         /\ Head(conn[k].sent) \notin Pending
         /\ Len(conn[k].sent) = 1 => left[k] = <<>>
<1> DEFINE s == conn[k].sent
           r == conn[k].replies
           e == left[k]
           c == Head(s)
<1>0. TypeOK /\ InTurn /\ HeldOnce  BY DEF IInv
<1>1. s \in Seq(Commands) /\ r \in Seq(Replies) /\ e \in Seq(Commands) /\ r # <<>>
  BY <1>0, TypeFacts
<1>2. /\ conn[k].state # "free" /\ Len(s) = Len(r) + Len(e)
      /\ \A i \in DOMAIN e : s[Len(r) + i] = e[i]
  BY <1>0 DEF InTurn
<1>3. Distinct(s) /\ Carried(k) = ToSet(s) \cup ToSet(e)  BY <1>0 DEF HeldOnce, Carried
<1> HIDE DEF s, r, e
<1>4. /\ Len(s) \in Nat /\ Len(r) \in Nat /\ Len(e) \in Nat /\ Len(r) # 0
      /\ DOMAIN s = 1 .. Len(s) /\ DOMAIN e = 1 .. Len(e)
  BY <1>1
<1>5. s # <<>>
  <2>1. Len(s) # 0  BY <1>2, <1>4
  <2> QED  BY <2>1
<1>6. c \in ToSet(s) /\ c \in Commands /\ c = s[1] /\ 1 \in DOMAIN s  BY <1>1, <1>5, TailSet
<1>7. Head(r) \in Replies  BY <1>1, TailSet
<1>8. c \notin ToSet(e)
  <2>1. ASSUME NEW i \in DOMAIN e PROVE e[i] # s[1]
    <3>1. Len(r) + i \in DOMAIN s /\ Len(r) + i # 1  BY <1>2, <1>4
    <3> QED  BY <1>2, <1>3, <1>6, <3>1 DEF Distinct
  <2> QED  BY <1>6, <2>1 DEF ToSet
<1>9. c \notin Pending
  <2>1. c \in Carried(k)  BY <1>3, <1>6
  <2>2. c \in Emitted /\ c \notin ToSet(queue_ready_) /\ c \notin ToSet(running)
    BY <1>0, <2>1 DEF HeldOnce
  <2>3. \A l \in Contexts : c \notin ToSet(left[l])
    BY <1>0, <1>8, <2>1 DEF HeldOnce, Carried, e
  <2> QED  BY <2>2, <2>3 DEF Pending
<1>10. Len(s) = 1 => e = <<>>
  <2>1. \A m, n \in Nat : m # 0 /\ 1 = m + n => n = 0  OBVIOUS
  <2>2. Len(s) = 1 => Len(e) = 0  BY <1>2, <1>4, <2>1
  <2> QED  BY <1>1, <2>2
<1> QED  BY <1>2, <1>5, <1>6, <1>7, <1>9, <1>10 DEF s, r, e

\* The command c is told of the reply r, if it waits for it.
Told(c, r) ==
  /\ c \in queue_wait_ => reply_status_'[c] = Status(c, r) /\ seen'[c] = r
  /\ \A d \in Commands : d # c \/ c \notin queue_wait_ =>
       reply_status_'[d] = reply_status_[d] /\ seen'[d] = seen[d]

LEMMA ReplyStep ==
  ASSUME IInv, NEW k \in Contexts, ReplyArrives(k), NEW c, c = Head(conn[k].sent),
         NEW r, r = Head(conn[k].replies)
  PROVE  /\ Connected(k) /\ crashed = "no" /\ conn[k].replies # <<>>
         /\ UNCHANGED <<left, queue_ready_, running, wait_by_time_, before, key, abandoned, faults>>
         /\ \/ Takes(k) /\ ConnTypes
            \/ Closing(k) /\ left[k] = <<>> /\ Frees(k) /\ ConnTypes
         /\ reply_status_' \in [Commands -> RedisCmdStatus] /\ seen' \in [Commands -> Replies]
         /\ queue_wait_' = queue_wait_ \ {c} /\ ended' = ended \cup ({c} \cap queue_wait_)
         /\ Told(c, r)
         /\ crashed' \in {"no", "freed twice"}
         /\ c \in queue_wait_ => crashed' = "no"
<1>0. TypeOK  BY DEF IInv
<1>1. /\ Connected(k) /\ crashed = "no" /\ conn[k].replies # <<>>
      /\ UNCHANGED <<left, queue_ready_, running, wait_by_time_, before, key, abandoned, faults>>
  BY DEF ReplyArrives, Idle
<1>2. c \in Commands /\ r \in Replies /\ conn[k].sent # <<>>  BY <1>1, FirstIsOver
<1>3. PICK cs, reply : cs = {c} /\ reply = [d \in {c} |-> r]  OBVIOUS
<1>4. Answered(cs, reply)  BY <1>3 DEF ReplyArrives
<1>5. cs \in SUBSET Commands /\ reply[c] = r  BY <1>2, <1>3
<1>6. \A d \in cs : reply[d] \in Replies  BY <1>2, <1>3, <1>5
<1>7. /\ reply_status_' \in [Commands -> RedisCmdStatus] /\ seen' \in [Commands -> Replies]
      /\ queue_wait_' = queue_wait_ \ cs /\ ended' = ended \cup (cs \cap queue_wait_)
      /\ \A d \in Commands :
           IF d \in cs /\ d \in queue_wait_
           THEN reply_status_'[d] = Status(d, reply[d]) /\ seen'[d] = reply[d]
           ELSE reply_status_'[d] = reply_status_[d] /\ seen'[d] = seen[d]
  BY <1>0, <1>4, <1>5, <1>6, AnsweredStep
<1>a. crashed' \in {"no", "freed twice"}
  BY <1>0, <1>4, <1>5, <1>6, AnsweredStep
<1>b. cs \subseteq queue_wait_ => crashed' = "no"
  BY <1>0, <1>4, <1>5, <1>6, AnsweredStep
<1>8. /\ queue_wait_' = queue_wait_ \ {c} /\ ended' = ended \cup ({c} \cap queue_wait_)
      /\ c \in queue_wait_ => crashed' = "no"
      /\ Told(c, r)
  BY <1>2, <1>3, <1>5, <1>7, <1>b DEF Told
<1>9. \/ Takes(k) /\ ConnTypes
      \/ Closing(k) /\ left[k] = <<>> /\ Frees(k) /\ ConnTypes
  <2>1. CASE Closing(k) /\ Len(conn[k].sent) = 1
    <3>1. conn' = [conn EXCEPT ![k] = NewConn("free")] /\ context_' = NULL
      BY <2>1 DEF ReplyArrives, onDisconnected
    <3> QED  BY <1>0, <1>1, <2>1, <3>1, FreesStep, FirstIsOver
  <2>2. CASE ~(Closing(k) /\ Len(conn[k].sent) = 1)
    <3> DEFINE x == [conn[k] EXCEPT !.sent = Tail(conn[k].sent), !.replies = Tail(conn[k].replies)]
    <3>1. conn' = [conn EXCEPT ![k] = x] /\ context_' = context_
      BY <2>2 DEF ReplyArrives
    <3>2. Tail(conn[k].sent) \in Seq(Commands) /\ Tail(conn[k].replies) \in Seq(Replies)
      BY <1>0, <1>1, <1>2, TypeFacts
    <3>3. /\ x \in Conns /\ x.state = conn[k].state /\ x.sent = Tail(conn[k].sent)
          /\ x.replies = Tail(conn[k].replies)
      BY <1>0, <3>2, TypeFacts DEF Conns
    <3> HIDE DEF x
    <3>4. /\ conn' \in [Contexts -> Conns] /\ conn'[k] = x
          /\ \A l \in Contexts : l # k => conn'[l] = conn[l]
      BY <1>0, <3>1, <3>3, PutConn
    <3> QED  BY <1>0, <1>1, <3>1, <3>3, <3>4, TypeFacts DEF Takes, Others, ConnTypes
  <2> QED  BY <2>1, <2>2
<1> QED  BY <1>1, <1>7, <1>8, <1>9, <1>a

LEMMA DoneStep ==
  ASSUME TypeOK, NEW k \in Contexts, ConnectDone(k)
  PROVE  /\ Connecting(k) /\ crashed = "no" /\ Others(k) /\ ConnTypes
         /\ UNCHANGED <<context_, left, clientVars, key, abandoned, crashed, faults>>
         /\ conn'[k].sent = conn[k].sent /\ conn'[k].replies = conn[k].replies
         /\ conn'[k].state = IF Closing(k) THEN "connected, closing" ELSE "connected"
<1> DEFINE st == IF Closing(k) THEN "connected, closing" ELSE "connected"
<1>1. /\ Connecting(k) /\ crashed = "no"
      /\ UNCHANGED <<context_, left, clientVars, key, abandoned, crashed, faults>>
      /\ conn' = [conn EXCEPT ![k].state = st]
  BY DEF ConnectDone, Idle
<1>2. st \in States  BY DEF States
<1> HIDE DEF st
<1>3. /\ conn' \in [Contexts -> Conns] /\ conn'[k].state = st
      /\ conn'[k].sent = conn[k].sent /\ conn'[k].replies = conn[k].replies
      /\ \A l \in Contexts : l # k => conn'[l] = conn[l]
  BY <1>1, <1>2, TypeFacts DEF Conns
<1> QED  BY <1>1, <1>3, TypeFacts DEF Others, ConnTypes, st

LEMMA LostStep ==
  ASSUME TypeOK, NEW k \in Contexts, Lost(k)
  PROVE  /\ Others(k) /\ ConnTypes /\ conn' = conn /\ left'[k] = <<>> /\ conn[k].state = "free"
         /\ UNCHANGED <<context_, clientVars, key, abandoned, crashed, faults>>
<1>1. <<>> \in Seq(Commands)  OBVIOUS
<1> QED  BY <1>1, TypeFacts DEF Lost, Others, ConnTypes

\* The server executes a command, or answers it with an error.
Effect(c, r) ==
  \/ /\ key' = IF Op[c] = "GET" THEN key ELSE [set |-> Op[c] = "SET", by |-> c]
     /\ r = Answer(c) /\ UNCHANGED faults
  \/ r = Reply("ERROR", Nobody) /\ UNCHANGED key /\ Fault

Serves(c, k, r) ==
  /\ left[k] # <<>> /\ c = Head(left[k]) /\ c \in Commands /\ r \in Replies /\ Effect(c, r)
  /\ Others(k) /\ left'[k] = Tail(left[k])
  /\ conn'[k].state = conn[k].state /\ conn'[k].sent = conn[k].sent
  /\ \/ Connected(k) /\ conn'[k].replies = Append(conn[k].replies, r)
     \/ conn[k].state = "free" /\ conn' = conn

LEMMA AnswerType ==
  ASSUME TypeOK, NEW c \in Commands
  PROVE  Answer(c) \in Replies
<1>1. key.by \in Commands \cup {Nobody}  BY DEF TypeOK
<1> QED  BY <1>1 DEF Answer, Reply, Replies

LEMMA ExecuteStep ==
  ASSUME TypeOK, NEW k \in Contexts, Execute(k)
  PROVE  /\ ConnTypes /\ crashed = "no" /\ UNCHANGED <<context_, clientVars, abandoned, crashed>>
         /\ \E r : Serves(Head(left[k]), k, r)
<1>0. PICK c : c = Head(left[k])  OBVIOUS
<1>1. left[k] # <<>> /\ c \in Commands /\ Tail(left[k]) \in Seq(Commands)
  BY <1>0, TypeFacts, TailSet DEF Execute
<1>2. PICK r \in Replies : Effect(c, r) /\ Replied(k, r)
  <2>1. \/ Effect(c, Answer(c)) /\ Replied(k, Answer(c))
        \/ Effect(c, Reply("ERROR", Nobody)) /\ Replied(k, Reply("ERROR", Nobody))
    BY <1>0 DEF Execute, Effect
  <2>2. Answer(c) \in Replies /\ Reply("ERROR", Nobody) \in Replies
    BY <1>1, AnswerType, ReplyTypes
  <2> QED  BY <2>1, <2>2
<1>3. /\ left' \in [Contexts -> Seq(Commands)] /\ left'[k] = Tail(left[k])
      /\ \A l \in Contexts : l # k => left'[l] = left[l]
  BY <1>1, TypeFacts DEF Execute
<1>4. /\ conn' \in [Contexts -> Conns]
      /\ \A l \in Contexts : l # k => conn'[l] = conn[l]
      /\ conn'[k].state = conn[k].state /\ conn'[k].sent = conn[k].sent
      /\ \/ Connected(k) /\ conn'[k].replies = Append(conn[k].replies, r)
         \/ conn[k].state = "free" /\ conn' = conn
  <2>1. CASE Connected(k)
    <3>1. conn' = [conn EXCEPT ![k].replies = Append(conn[k].replies, r)]
      BY <1>2, <2>1 DEF Replied
    <3>2. Append(conn[k].replies, r) \in Seq(Replies)  BY TypeFacts
    <3> QED  BY <2>1, <3>1, <3>2, TypeFacts DEF Conns
  <2>2. CASE ~Connected(k)
    <3>1. conn' = conn /\ conn[k].state = "free"  BY <1>2, <2>2 DEF Replied, Execute
    <3> QED  BY <3>1, TypeFacts
  <2> QED  BY <2>1, <2>2
<1>5. Serves(c, k, r)  BY <1>0, <1>1, <1>2, <1>3, <1>4 DEF Serves, Others
<1> QED  BY <1>0, <1>3, <1>4, <1>5 DEF Execute, ConnTypes

-----------------------------------------------------------------------------
(***************************************************************************)
(* Type correctness.                                                       *)
(***************************************************************************)
LEMMA OkayType == TypeOK => Okay \subseteq Commands
BY TypeFacts DEF Okay

LEMMA FaultType == TypeOK /\ Fault => faults' \in 0 .. MaxFaults
<1> SUFFICES ASSUME TypeOK, Fault PROVE faults' \in 0 .. MaxFaults
  OBVIOUS
<1>1. MaxFaults \in Nat  BY AsyncRedisAssumption
<1>2. faults \in 0 .. MaxFaults /\ faults < MaxFaults /\ faults' = faults + 1
  BY DEF TypeOK, Fault
<1> QED  BY <1>1, <1>2

LEMMA TypesThen ==
  ASSUME TypeOK, ConnTypes, context_' \in Contexts \cup {NULL},
         queue_ready_' \in Seq(Commands), running' \in Seq(Commands),
         queue_wait_' \subseteq Commands, wait_by_time_' \subseteq Commands,
         reply_status_' \in [Commands -> RedisCmdStatus], seen' \in [Commands -> Replies],
         ended' \subseteq Commands,
         key' \in [set : BOOLEAN, by : Commands \cup {Nobody}],
         before' = before, abandoned' \in BOOLEAN,
         crashed' \in {"no", "no context", "freed twice"},
         Fault \/ UNCHANGED faults
  PROVE  TypeOK'
BY FaultType DEF TypeOK, ConnTypes, Conns, States

LEMMA TypeStep == IInv /\ [Next]_vars => TypeOK'
<1> SUFFICES ASSUME IInv, [Next]_vars PROVE TypeOK'
  OBVIOUS
<1>0. TypeOK  BY DEF IInv
<1> DEFINE Same == UNCHANGED <<context_, conn, left>>
<1>s. Same => ConnTypes /\ context_' \in Contexts \cup {NULL}
  BY <1>0, TypeFacts DEF ConnTypes
<1>k. /\ key \in [set : BOOLEAN, by : Commands \cup {Nobody}] /\ abandoned \in BOOLEAN
      /\ crashed \in {"no", "no context", "freed twice"}
  BY <1>0 DEF TypeOK
<1>1. ASSUME NEW c \in Commands, emit(c) PROVE TypeOK'
  <2>1. queue_ready_' \in Seq(Commands)  BY <1>0, <1>1, TypeFacts DEF emit
  <2>2. DOMAIN before' \subseteq Commands /\ before' \in [DOMAIN before' -> SUBSET Commands]
    <3>1. before' = [d \in Emitted \cup {c} |-> IF d = c THEN Okay ELSE before[d]]
      BY <1>1 DEF emit
    <3>2. Emitted \subseteq Commands /\ before \in [Emitted -> SUBSET Commands]
      BY <1>0, TypeFacts
    <3>3. Okay \subseteq Commands  BY <1>0, OkayType
    <3>4. \A d \in Emitted : before[d] \in SUBSET Commands  BY <3>2
    <3> QED  BY <1>1, <3>1, <3>2, <3>3, <3>4
  <2> QED  BY <1>0, <1>1, <2>1, <2>2 DEF emit, TypeOK
<1>2. CASE run
  <2>1. PICK late \in SUBSET wait_by_time_ :
          /\ timeout(late) /\ queue_wait_' = queue_wait_ \ late
          /\ wait_by_time_' = wait_by_time_ \ late /\ ended' = ended \cup late
    BY <1>2 DEF run
  <2>2. reply_status_' \in [Commands -> RedisCmdStatus]
    BY <1>0, <2>1, TypeFacts DEF timeout, RedisCmdStatus
  <2>3. <<>> \in Seq(Commands)  OBVIOUS
  <2> QED  BY <1>0, <1>2, <1>s, <1>k, <2>1, <2>2, <2>3, TypeFacts, TypesThen DEF run
<1>3. CASE call
  <2>1. Tail(running) \in Seq(Commands)  BY <1>0, <1>3, CallCases, TypeFacts
  <2>2. "send_error" \in RedisCmdStatus  BY DEF RedisCmdStatus
  <2>3. CASE (\E k \in Contexts : Sends(Head(running), k)) /\ ConnTypes
                 /\ UNCHANGED <<reply_status_, faults>>
    <3>1. context_' \in Contexts  BY <2>3 DEF Sends
    <3> QED  BY <1>0, <1>3, <1>k, <2>1, <2>3, <3>1, CallCases, TypeFacts, TypesThen
  <2>4. CASE /\ reply_status_' = [reply_status_ EXCEPT ![Head(running)] = "send_error"]
             /\ UNCHANGED <<context_, conn, left>> /\ Fault
    <3>1. reply_status_' \in [Commands -> RedisCmdStatus]
      BY <1>0, <1>3, <2>2, <2>4, CallCases, TypeFacts
    <3> QED  BY <1>0, <1>3, <1>s, <1>k, <2>1, <2>4, <3>1, CallCases, TypeFacts, TypesThen
  <2> QED  BY <1>3, <2>3, <2>4, CallCases
<1>4. CASE close
  <2>1. /\ Fault /\ UNCHANGED <<clientVars, key, crashed>> /\ abandoned' \in BOOLEAN
    BY <1>4 DEF close
  <2> QED  BY <1>0, <1>4, <1>k, <2>1, CloseStep, TypeFacts, TypesThen DEF clientVars
<1>5. ASSUME NEW k \in Contexts, ConnectDone(k) PROVE TypeOK'
  BY <1>0, <1>5, <1>k, DoneStep, TypeFacts, TypesThen DEF clientVars
<1>6. ASSUME NEW k \in Contexts, ConnectFails(k) PROVE TypeOK'
  <2>0. Fault /\ UNCHANGED <<queue_ready_, running, wait_by_time_, before, key, abandoned>>
    BY <1>0, <1>6, FailsStep
  <2>1. CASE crashed' = "no context" /\ UNCHANGED <<context_, conn, left, clientVars>>
    BY <1>0, <1>s, <1>k, <2>0, <2>1, TypeFacts, TypesThen DEF clientVars
  <2>2. CASE Frees(k) /\ ConnTypes /\ AnsweredNull(k)
    <3>1. context_' = NULL  BY <2>2 DEF Frees
    <3>2. ToSet(conn[k].sent) \subseteq Commands  BY <1>0, TypeFacts, ElementSet
    <3>3. /\ queue_wait_' \subseteq Commands /\ ended' \subseteq Commands /\ crashed' = "no"
          /\ reply_status_' \in [Commands -> RedisCmdStatus] /\ seen' \in [Commands -> Replies]
      BY <1>0, <2>2, <3>2, NullStep, TypeFacts
    <3> QED  BY <1>0, <1>k, <2>0, <2>2, <3>1, <3>3, TypeFacts, TypesThen
  <2> QED  BY <1>0, <1>6, <2>1, <2>2, FailsStep
<1>7. ASSUME NEW k \in Contexts, Breaks(k) PROVE TypeOK'
  <2>0. /\ Fault /\ UNCHANGED <<queue_ready_, running, wait_by_time_, before, key, abandoned>>
        /\ AnsweredNull(k) /\ ConnTypes /\ Frees(k)
    BY <1>0, <1>7, BreaksStep
  <2>1. context_' = NULL  BY <2>0 DEF Frees
  <2>2. ToSet(conn[k].sent) \subseteq Commands  BY <1>0, TypeFacts, ElementSet
  <2>3. /\ queue_wait_' \subseteq Commands /\ ended' \subseteq Commands /\ crashed' = "no"
        /\ reply_status_' \in [Commands -> RedisCmdStatus] /\ seen' \in [Commands -> Replies]
    BY <1>0, <2>0, <2>2, NullStep, TypeFacts
  <2> QED  BY <1>0, <1>k, <2>0, <2>1, <2>3, TypeFacts, TypesThen
<1>8. ASSUME NEW k \in Contexts, ReplyArrives(k) PROVE TypeOK'
  <2>0. PICK c, r : c = Head(conn[k].sent) /\ r = Head(conn[k].replies)  OBVIOUS
  <2>1. /\ UNCHANGED <<queue_ready_, running, wait_by_time_, before, key, abandoned, faults>>
        /\ reply_status_' \in [Commands -> RedisCmdStatus] /\ seen' \in [Commands -> Replies]
        /\ queue_wait_' = queue_wait_ \ {c} /\ ended' = ended \cup ({c} \cap queue_wait_)
        /\ crashed' \in {"no", "freed twice"} /\ ConnTypes
    BY <1>8, <2>0, ReplyStep
  <2>2. Takes(k) \/ Frees(k)  BY <1>8, <2>0, ReplyStep
  <2>3. context_' \in Contexts \cup {NULL}  BY <1>0, <2>2, TypeFacts DEF Takes, Frees
  <2> QED  BY <1>0, <1>k, <2>1, <2>3, TypeFacts, TypesThen
<1>9. ASSUME NEW k \in Contexts, Execute(k) PROVE TypeOK'
  <2>0. PICK c, r : c = Head(left[k]) /\ Serves(c, k, r)  BY <1>0, <1>9, ExecuteStep
  <2>1. c \in Commands /\ Effect(c, r)  BY <2>0 DEF Serves
  <2>2. key' \in [set : BOOLEAN, by : Commands \cup {Nobody}]
    <3>1. PICK b \in BOOLEAN : b = (Op[c] = "SET")  OBVIOUS
    <3>2. key' = key \/ key' = [set |-> b, by |-> c]  BY <2>1, <3>1 DEF Effect
    <3>3. [set |-> b, by |-> c] \in [set : BOOLEAN, by : Commands \cup {Nobody}]
      BY <2>1, Zenon
    <3> QED  BY <1>k, <3>2, <3>3, Zenon
  <2>3. Fault \/ UNCHANGED faults  BY <2>1 DEF Effect
  <2> QED  BY <1>0, <1>9, <1>k, <2>2, <2>3, ExecuteStep, TypeFacts, TypesThen DEF clientVars
<1>10. ASSUME NEW k \in Contexts, Lost(k) PROVE TypeOK'
  BY <1>0, <1>10, <1>k, LostStep, TypeFacts, TypesThen DEF clientVars
<1>11. CASE UNCHANGED vars  BY <1>0, <1>11 DEF vars, clientVars, TypeOK
<1> QED  BY <1>1, <1>2, <1>3, <1>4, <1>5, <1>6, <1>7, <1>8, <1>9, <1>10, <1>11 DEF Next

-----------------------------------------------------------------------------
(***************************************************************************)
(* The context commands are handed to.                                     *)
(***************************************************************************)
LEMMA AliveThen ==
  ASSUME IInv, TypeOK', ended \subseteq ended',
         \A k \in Contexts : k = context_' => conn'[k].state \in {"connecting", "connected"},
         crashed' = "no context" => abandoned',
         crashed' = "freed twice" => ended' \cap (Timed \cup TimedCallback) # {},
         \A k \in Contexts : k # context_' /\ conn'[k].state # "free" => abandoned'
  PROVE  ContextIsAlive' /\ OthersWereClosed'
<1>1. context_' # NULL => context_' \in Contexts  BY DEF TypeOK
<1>2. context_' # NULL => conn'[context_'].state \in {"connecting", "connected"}  BY <1>1
<1> QED  BY <1>2 DEF ContextIsAlive, OthersWereClosed, Closing

LEMMA AliveNow ==
  ASSUME IInv
  PROVE  /\ \A k \in Contexts : k = context_ => conn[k].state \in {"connecting", "connected"}
         /\ crashed = "no context" => abandoned
         /\ crashed = "freed twice" => ended \cap (Timed \cup TimedCallback) # {}
         /\ \A k \in Contexts : k # context_ /\ conn[k].state # "free" => abandoned
<1>1. TypeOK /\ ContextIsAlive /\ OthersWereClosed  BY DEF IInv
<1>2. ASSUME NEW k \in Contexts, k = context_
      PROVE  conn[k].state \in {"connecting", "connected"}
  <2>1. conn[k].state \in States /\ k # NULL  BY <1>1, TypeFacts
  <2> QED  BY <1>1, <1>2, <2>1 DEF ContextIsAlive, Closing, States
<1> QED  BY <1>1, <1>2 DEF ContextIsAlive, OthersWereClosed

LEMMA AliveQuiet ==
  ASSUME IInv, TypeOK', UNCHANGED <<context_, abandoned, crashed>>, ended \subseteq ended',
         \A k \in Contexts : conn'[k].state = conn[k].state
  PROVE  ContextIsAlive' /\ OthersWereClosed'
BY AliveNow, AliveThen

LEMMA AliveFreed ==
  ASSUME IInv, TypeOK', NEW k \in Contexts, Frees(k), conn[k].state # "free",
         UNCHANGED abandoned, ended \subseteq ended', crashed' = "no context" => abandoned',
         crashed' = "freed twice" => ended' \cap (Timed \cup TimedCallback) # {}
  PROVE  ContextIsAlive' /\ OthersWereClosed'
<1>0. NULL \notin Contexts /\ context_' = NULL /\ conn'[k].state = "free"
  BY TypeFacts DEF IInv, Frees
<1>1. ASSUME NEW l \in Contexts, conn'[l].state # "free" PROVE abandoned
  <2>1. l # k /\ conn[l].state # "free"  BY <1>0, <1>1 DEF Frees, Others
  <2>2. CASE l # context_  BY <2>1, <2>2, AliveNow
  <2>3. CASE l = context_  BY <2>1, <2>3, AliveNow
  <2> QED  BY <2>2, <2>3
<1> QED  BY <1>0, <1>1, AliveThen

LEMMA AliveStep == IInv /\ [Next]_vars => ContextIsAlive' /\ OthersWereClosed'
<1> SUFFICES ASSUME IInv, [Next]_vars PROVE ContextIsAlive' /\ OthersWereClosed'
  OBVIOUS
<1>0. TypeOK /\ TypeOK'  BY TypeStep DEF IInv
<1>n. NULL \notin Contexts  BY <1>0, TypeFacts
<1>1. ASSUME NEW c \in Commands, emit(c) PROVE ContextIsAlive' /\ OthersWereClosed'
  BY <1>0, <1>1, AliveQuiet DEF emit
<1>2. CASE run
  <2>1. /\ UNCHANGED <<context_, abandoned, crashed>> /\ ended \subseteq ended'
        /\ \A k \in Contexts : conn'[k].state = conn[k].state
    BY <1>2 DEF run
  <2> QED  BY <1>0, <2>1, AliveQuiet
<1>3. CASE call
  <2>0. UNCHANGED <<ended, abandoned, crashed>> /\ crashed = "no"  BY <1>3, CallCases
  <2>1. ASSUME NEW k \in Contexts, Sends(Head(running), k)
        PROVE  ContextIsAlive' /\ OthersWereClosed'
    <3>1. context_' = k /\ Others(k)  BY <2>1 DEF Sends
    <3>2. conn'[k].state \in {"connecting", "connected"}
      BY <2>1, AliveNow DEF Sends
    <3>3. ASSUME NEW l \in Contexts, l # k, conn'[l].state # "free" PROVE abandoned
      <4>1. conn[l].state # "free"  BY <3>1, <3>3 DEF Others
      <4>2. l # context_  BY <2>1, <3>3, <1>n DEF Sends
      <4> QED  BY <4>1, <4>2, AliveNow
    <3> QED  BY <1>0, <2>0, <3>1, <3>2, <3>3, AliveThen
  <2>2. CASE UNCHANGED <<context_, conn, left>>  BY <1>0, <2>0, <2>2, AliveQuiet
  <2> QED  BY <1>3, <2>1, <2>2, CallCases
<1>4. CASE close
  <2>0. /\ UNCHANGED <<ended, crashed>> /\ crashed = "no"
    BY <1>4 DEF close, clientVars, Idle
  <2>1. context_ \in Contexts /\ context_' = NULL /\ Others(context_)
    BY <1>0, <1>4, CloseStep
  <2>2. CASE conn[context_].sent = <<>> /\ Frees(context_)
    <3>1. UNCHANGED abandoned
      <4>1. abandoned \in BOOLEAN  BY <1>0 DEF TypeOK
      <4>2. abandoned' = (abandoned \/ conn[context_].sent # <<>>)  BY <1>0, <1>4, CloseStep
      <4> QED  BY <2>2, <4>1, <4>2, Zenon
    <3>2. conn[context_].state # "free"  BY <2>1, AliveNow
    <3> QED  BY <1>0, <2>0, <2>1, <2>2, <3>1, <3>2, AliveFreed
  <2>3. CASE conn[context_].sent # <<>>
    <3>1. abandoned' = TRUE
      <4>2. abandoned' = (abandoned \/ conn[context_].sent # <<>>)  BY <1>0, <1>4, CloseStep
      <4> QED  BY <2>3, <4>2, Zenon
    <3> QED  BY <1>0, <1>n, <2>0, <2>1, <3>1, AliveThen
  <2> QED  BY <1>0, <1>4, <2>2, <2>3, CloseStep
<1>5. ASSUME NEW k \in Contexts, ConnectDone(k) PROVE ContextIsAlive' /\ OthersWereClosed'
  <2>1. /\ UNCHANGED <<context_, ended, abandoned, crashed>> /\ Others(k) /\ Connecting(k)
        /\ conn'[k].state = IF Closing(k) THEN "connected, closing" ELSE "connected"
    BY <1>0, <1>5, DoneStep DEF clientVars
  <2>2. \A l \in Contexts : l = context_' => conn'[l].state \in {"connecting", "connected"}
    BY <2>1, AliveNow DEF Others, Closing
  <2>3. \A l \in Contexts : l # context_' /\ conn'[l].state # "free" => abandoned'
    BY <2>1, AliveNow DEF Others, Connecting
  <2> QED  BY <1>0, <2>1, <2>2, <2>3, AliveNow, AliveThen
<1>6. ASSUME NEW k \in Contexts, ConnectFails(k) PROVE ContextIsAlive' /\ OthersWereClosed'
  <2>0. UNCHANGED abandoned /\ conn[k].state # "free"
    BY <1>0, <1>6, FailsStep DEF Connecting
  <2>1. CASE /\ context_ = NULL /\ crashed' = "no context"
             /\ UNCHANGED <<context_, conn, left, clientVars>>
    <3>1. abandoned  BY <1>n, <2>0, <2>1, AliveNow
    <3>2. UNCHANGED <<context_, conn, ended>>  BY <2>1 DEF clientVars
    <3> QED  BY <1>0, <2>0, <2>1, <3>1, <3>2, AliveNow, AliveThen
  <2>2. CASE Frees(k) /\ AnsweredNull(k)
    <3>1. ended \subseteq ended' /\ crashed' = "no"  BY <1>0, <2>2, NullStep
    <3> QED  BY <1>0, <2>0, <2>2, <3>1, AliveFreed
  <2> QED  BY <1>0, <1>6, <2>1, <2>2, FailsStep
<1>7. ASSUME NEW k \in Contexts, Breaks(k) PROVE ContextIsAlive' /\ OthersWereClosed'
  <2>0. UNCHANGED abandoned /\ conn[k].state # "free" /\ Frees(k) /\ AnsweredNull(k)
    BY <1>0, <1>7, BreaksStep DEF Connected
  <2>1. ended \subseteq ended' /\ crashed' = "no"  BY <1>0, <2>0, NullStep
  <2> QED  BY <1>0, <2>0, <2>1, AliveFreed
<1>8. ASSUME NEW k \in Contexts, ReplyArrives(k) PROVE ContextIsAlive' /\ OthersWereClosed'
  <2>0. PICK c, r : c = Head(conn[k].sent) /\ r = Head(conn[k].replies)  OBVIOUS
  <2>1. /\ UNCHANGED abandoned /\ Connected(k) /\ conn[k].replies # <<>>
        /\ ended' = ended \cup ({c} \cap queue_wait_)
        /\ crashed' \in {"no", "freed twice"} /\ (c \in queue_wait_ => crashed' = "no")
    BY <1>8, <2>0, ReplyStep
  <2>2. c \in ToSet(conn[k].sent)  BY <2>0, <2>1, FirstIsOver
  <2>3. c \in queue_wait_ \cup (ended \cap (Timed \cup TimedCallback))
    BY <2>2 DEF IInv, SentWaits
  <2>4. /\ ended \subseteq ended' /\ (crashed' = "no context" => abandoned')
        /\ crashed' = "freed twice" => ended' \cap (Timed \cup TimedCallback) # {}
    BY <2>1, <2>3
  <2>5. conn[k].state # "free"  BY <2>1 DEF Connected
  <2>6. CASE Frees(k)  BY <1>0, <2>1, <2>4, <2>5, <2>6, AliveFreed
  <2>7. CASE Takes(k)
    <3>1. context_' = context_ /\ \A l \in Contexts : conn'[l].state = conn[l].state
      BY <2>7 DEF Takes, Others
    <3> QED  BY <1>0, <2>1, <2>4, <3>1, AliveNow, AliveThen
  <2> QED  BY <1>8, <2>0, <2>6, <2>7, ReplyStep
<1>9. ASSUME NEW k \in Contexts, Execute(k) PROVE ContextIsAlive' /\ OthersWereClosed'
  <2>0. PICK c, r : Serves(c, k, r)  BY <1>0, <1>9, ExecuteStep
  <2>1. \A l \in Contexts : conn'[l].state = conn[l].state  BY <2>0 DEF Serves, Others
  <2>2. UNCHANGED <<context_, abandoned, crashed, ended>>
    BY <1>0, <1>9, ExecuteStep DEF clientVars
  <2> QED  BY <1>0, <2>1, <2>2, AliveQuiet
<1>10. ASSUME NEW k \in Contexts, Lost(k) PROVE ContextIsAlive' /\ OthersWereClosed'
  BY <1>0, <1>10, LostStep, AliveQuiet DEF clientVars
<1>11. CASE UNCHANGED vars  BY <1>0, <1>11, AliveQuiet DEF vars, clientVars
<1> QED  BY <1>1, <1>2, <1>3, <1>4, <1>5, <1>6, <1>7, <1>8, <1>9, <1>10, <1>11 DEF Next

-----------------------------------------------------------------------------
(***************************************************************************)
(* Where the commands are.                                                 *)
(***************************************************************************)
Shrinks ==
  /\ UNCHANGED <<queue_ready_, running, before>>
  /\ \A l \in Contexts :
       /\ Distinct(conn'[l].sent) /\ ToSet(conn'[l].sent) \subseteq ToSet(conn[l].sent)
       /\ Distinct(left'[l]) /\ ToSet(left'[l]) \subseteq ToSet(left[l])

LEMMA ShrinksWhen ==
  ASSUME IInv, NEW k \in Contexts, Others(k), UNCHANGED <<queue_ready_, running, before>>,
         \/ conn'[k].sent \in {conn[k].sent, <<>>}
         \/ conn[k].sent # <<>> /\ conn'[k].sent = Tail(conn[k].sent),
         \/ left'[k] \in {left[k], <<>>}
         \/ left[k] # <<>> /\ left'[k] = Tail(left[k])
  PROVE  Shrinks
<1>0. TypeOK /\ HeldOnce  BY DEF IInv
<1>1. \A l \in Contexts : /\ Distinct(conn[l].sent) /\ Distinct(left[l])
                          /\ conn[l].sent \in Seq(Commands) /\ left[l] \in Seq(Commands)
  BY <1>0, TypeFacts DEF HeldOnce
<1>2. Distinct(conn'[k].sent) /\ ToSet(conn'[k].sent) \subseteq ToSet(conn[k].sent)
  <2>1. CASE conn'[k].sent \in {conn[k].sent, <<>>}  BY <1>1, <2>1, EmptySet
  <2>2. CASE conn[k].sent # <<>> /\ conn'[k].sent = Tail(conn[k].sent)
    BY <1>1, <2>2, TailSet
  <2> QED  BY <2>1, <2>2
<1>3. Distinct(left'[k]) /\ ToSet(left'[k]) \subseteq ToSet(left[k])
  <2>1. CASE left'[k] \in {left[k], <<>>}  BY <1>1, <2>1, EmptySet
  <2>2. CASE left[k] # <<>> /\ left'[k] = Tail(left[k])  BY <1>1, <2>2, TailSet
  <2> QED  BY <2>1, <2>2
<1>4. ASSUME NEW l \in Contexts, l # k
      PROVE  conn'[l].sent = conn[l].sent /\ left'[l] = left[l]
  BY <1>4 DEF Others
<1> QED  BY <1>1, <1>2, <1>3, <1>4 DEF Shrinks

LEMMA ShrinksStep ==
  ASSUME IInv,
         \/ close \/ UNCHANGED vars
         \/ \E k \in Contexts : ConnectDone(k) \/ ConnectFails(k) \/ ReplyArrives(k) \/ Breaks(k)
                                \/ Execute(k) \/ Lost(k)
  PROVE  Shrinks
<1>0. TypeOK /\ HeldOnce  BY DEF IInv
<1>1. CASE close
  <2>1. UNCHANGED <<queue_ready_, running, before>>  BY <1>1 DEF close, clientVars
  <2>2. context_ \in Contexts /\ Others(context_) /\ left' = left  BY <1>0, <1>1, CloseStep
  <2>3. conn'[context_].sent \in {conn[context_].sent, <<>>}
    BY <1>0, <1>1, CloseStep DEF Frees
  <2> QED  BY <2>1, <2>2, <2>3, ShrinksWhen
<1>2. CASE UNCHANGED vars
  BY <1>0, <1>2 DEF vars, clientVars, Shrinks, HeldOnce
<1>3. ASSUME NEW k \in Contexts, ConnectDone(k) PROVE Shrinks
  BY <1>0, <1>3, DoneStep, ShrinksWhen DEF clientVars
<1>4. ASSUME NEW k \in Contexts, ConnectFails(k) PROVE Shrinks
  <2>0. UNCHANGED <<queue_ready_, running, before>>  BY <1>0, <1>4, FailsStep
  <2>1. CASE UNCHANGED <<conn, left>>
    BY <2>0, <2>1, ShrinksWhen DEF Others
  <2>2. CASE Frees(k)
    <3>1. Others(k) /\ conn'[k].sent = <<>> /\ left'[k] \in {left[k], <<>>}
      BY <2>2 DEF Frees
    <3> QED  BY <2>0, <3>1, ShrinksWhen
  <2> QED  BY <1>0, <1>4, <2>1, <2>2, FailsStep
<1>5. ASSUME NEW k \in Contexts, Breaks(k) PROVE Shrinks
  <2>0. UNCHANGED <<queue_ready_, running, before>> /\ Frees(k)  BY <1>0, <1>5, BreaksStep
  <2>1. Others(k) /\ conn'[k].sent = <<>> /\ left'[k] \in {left[k], <<>>}
    BY <2>0 DEF Frees
  <2> QED  BY <2>0, <2>1, ShrinksWhen
<1>6. ASSUME NEW k \in Contexts, ReplyArrives(k) PROVE Shrinks
  <2>0. PICK c, r : c = Head(conn[k].sent) /\ r = Head(conn[k].replies)  OBVIOUS
  <2>1. /\ UNCHANGED <<queue_ready_, running, before>> /\ conn[k].replies # <<>>
        /\ Takes(k) \/ Frees(k)
    BY <1>6, <2>0, ReplyStep
  <2>2. conn[k].sent # <<>>  BY <2>1, FirstIsOver
  <2>3. /\ Others(k) /\ left'[k] \in {left[k], <<>>}
        /\ \/ conn'[k].sent = <<>>
           \/ conn'[k].sent = Tail(conn[k].sent)
    BY <2>1 DEF Takes, Frees
  <2> QED  BY <2>1, <2>2, <2>3, ShrinksWhen
<1>7. ASSUME NEW k \in Contexts, Execute(k) PROVE Shrinks
  <2>0. PICK c, r : Serves(c, k, r)  BY <1>0, <1>7, ExecuteStep
  <2>1. /\ Others(k) /\ left[k] # <<>> /\ left'[k] = Tail(left[k])
        /\ conn'[k].sent = conn[k].sent
    BY <2>0 DEF Serves
  <2>2. UNCHANGED <<queue_ready_, running, before>>
    BY <1>0, <1>7, ExecuteStep DEF clientVars
  <2> QED  BY <2>1, <2>2, ShrinksWhen
<1>8. ASSUME NEW k \in Contexts, Lost(k) PROVE Shrinks
  BY <1>0, <1>8, LostStep, ShrinksWhen DEF clientVars
<1> QED  BY <1>1, <1>2, <1>3, <1>4, <1>5, <1>6, <1>7, <1>8

LEMMA ShrinksKeeps ==
  ASSUME IInv, Shrinks
  PROVE  HeldOnce' /\ Pending' \subseteq Pending
<1>0. HeldOnce  BY DEF IInv
<1>1. queue_ready_' = queue_ready_ /\ running' = running /\ before' = before /\ Emitted' = Emitted
  BY DEF Shrinks, Emitted
<1>2. \A l \in Contexts : /\ Distinct(conn'[l].sent) /\ Distinct(left'[l])
                          /\ Carried(l)' \subseteq Carried(l)
  BY DEF Shrinks, Carried
<1>3. HeldOnce'
  <2>1. \A k \in Contexts : /\ Distinct(conn'[k].sent) /\ Distinct(left'[k])
                            /\ Carried(k)' \subseteq Emitted
                            /\ Carried(k)' \cap (ToSet(queue_ready_) \cup ToSet(running)) = {}
    BY <1>0, <1>2 DEF HeldOnce
  <2>2. \A k, l \in Contexts : k # l => Carried(k)' \cap Carried(l)' = {}
    BY <1>0, <1>2 DEF HeldOnce
  <2> QED  BY <1>0, <1>1, <2>1, <2>2 DEF HeldOnce
<1>4. Pending' \subseteq Pending
  <2>1. \A l \in Contexts : ToSet(left'[l]) \subseteq ToSet(left[l])  BY DEF Shrinks
  <2> QED  BY <1>1, <2>1 DEF Pending
<1> QED  BY <1>3, <1>4

LEMMA EmitHeld ==
  ASSUME IInv, NEW c \in Commands, emit(c)
  PROVE  HeldOnce' /\ Pending' \subseteq Pending
<1>0. TypeOK /\ HeldOnce  BY DEF IInv
<1>1. /\ c \notin Emitted /\ queue_ready_' = Append(queue_ready_, c)
      /\ conn' = conn /\ left' = left /\ running' = running
  BY DEF emit
<1>2. Emitted' = Emitted \cup {c}  BY DEF emit, Emitted
<1>3. /\ queue_ready_ \in Seq(Commands) /\ Distinct(queue_ready_) /\ c \notin ToSet(queue_ready_)
  BY <1>0, <1>1, TypeFacts DEF HeldOnce
<1>4. Distinct(queue_ready_') /\ ToSet(queue_ready_') = ToSet(queue_ready_) \cup {c}
  BY <1>1, <1>3, AppendSet
<1>5. \A k \in Contexts : Carried(k)' = Carried(k)  BY <1>1 DEF Carried
<1>6. HeldOnce'
  <2>1. \A k \in Contexts : /\ Distinct(conn'[k].sent) /\ Distinct(left'[k])
                            /\ Carried(k)' \subseteq Emitted'
                            /\ Carried(k)' \cap (ToSet(queue_ready_') \cup ToSet(running')) = {}
    BY <1>0, <1>1, <1>2, <1>4, <1>5 DEF HeldOnce
  <2>2. \A k, l \in Contexts : k # l => Carried(k)' \cap Carried(l)' = {}
    BY <1>0, <1>5 DEF HeldOnce
  <2>3. ToSet(queue_ready_') \cup ToSet(running') \subseteq Emitted'
    BY <1>0, <1>1, <1>2, <1>4 DEF HeldOnce
  <2>4. ToSet(queue_ready_') \cap ToSet(running') = {} /\ Distinct(running')
    BY <1>0, <1>1, <1>4 DEF HeldOnce
  <2> QED  BY <1>4, <2>1, <2>2, <2>3, <2>4 DEF HeldOnce
<1>7. Pending' \subseteq Pending
  <2>1. c \in Pending  BY <1>1 DEF Pending
  <2>2. Pending' = ((Commands \ Emitted') \cup ToSet(queue_ready_') \cup ToSet(running)
                       \cup UNION {ToSet(left[k]) : k \in Contexts})
    BY <1>1 DEF Pending
  <2> QED  BY <1>2, <1>4, <2>1, <2>2 DEF Pending
<1> QED  BY <1>6, <1>7

LEMMA RunHeld ==
  ASSUME IInv, run
  PROVE  HeldOnce' /\ Pending' \subseteq Pending
<1>0. TypeOK /\ HeldOnce  BY DEF IInv
<1>1. /\ running = <<>> /\ running' = queue_ready_ /\ queue_ready_' = <<>>
      /\ conn' = conn /\ left' = left /\ before' = before
  BY DEF run, Idle
<1>2. Emitted' = Emitted  BY <1>1 DEF Emitted
<1>3. ToSet(queue_ready_') = {} /\ Distinct(queue_ready_')  BY <1>1, EmptySet
<1>4. \A k \in Contexts : Carried(k)' = Carried(k)  BY <1>1 DEF Carried
<1>5. HeldOnce'
  <2>1. \A k \in Contexts : /\ Distinct(conn'[k].sent) /\ Distinct(left'[k])
                            /\ Carried(k)' \subseteq Emitted'
                            /\ Carried(k)' \cap (ToSet(queue_ready_') \cup ToSet(running')) = {}
    BY <1>0, <1>1, <1>2, <1>3, <1>4 DEF HeldOnce
  <2>2. \A k, l \in Contexts : k # l => Carried(k)' \cap Carried(l)' = {}
    BY <1>0, <1>4 DEF HeldOnce
  <2> QED  BY <1>0, <1>1, <1>2, <1>3, <2>1, <2>2 DEF HeldOnce
<1>6. Pending' \subseteq Pending  BY <1>1, <1>2, <1>3 DEF Pending
<1> QED  BY <1>5, <1>6

LEMMA CallHeld ==
  ASSUME IInv, call
  PROVE  HeldOnce' /\ Pending' \subseteq Pending
<1>0. TypeOK /\ HeldOnce  BY DEF IInv
<1>a. PICK c : c = Head(running)  OBVIOUS
<1>1. /\ running # <<>> /\ c \in Commands /\ running' = Tail(running)
      /\ queue_ready_' = queue_ready_ /\ before' = before
  BY <1>a, CallCases
<1>2. Emitted' = Emitted  BY <1>1 DEF Emitted
<1>3. /\ c \in ToSet(running) /\ ToSet(running) = ToSet(running') \cup {c}
      /\ Distinct(running') /\ c \notin ToSet(running')
  <2>1. running \in Seq(Commands) /\ Distinct(running)  BY <1>0, TypeFacts DEF HeldOnce
  <2> QED  BY <1>a, <1>1, <2>1, TailSet
<1>4. c \in Emitted /\ c \notin ToSet(queue_ready_) /\ \A l \in Contexts : c \notin Carried(l)
  BY <1>0, <1>3 DEF HeldOnce
<1>5. CASE UNCHANGED <<conn, left>>
  <2>1. \A k \in Contexts : Carried(k)' = Carried(k)  BY <1>5 DEF Carried
  <2>2. \A k \in Contexts : /\ Distinct(conn'[k].sent) /\ Distinct(left'[k])
                            /\ Carried(k)' \subseteq Emitted'
                            /\ Carried(k)' \cap (ToSet(queue_ready_') \cup ToSet(running')) = {}
    BY <1>0, <1>1, <1>2, <1>3, <1>5, <2>1 DEF HeldOnce
  <2>3. \A k, l \in Contexts : k # l => Carried(k)' \cap Carried(l)' = {}
    BY <1>0, <2>1 DEF HeldOnce
  <2>4. HeldOnce'  BY <1>0, <1>1, <1>2, <1>3, <2>2, <2>3 DEF HeldOnce
  <2>5. Pending' \subseteq Pending  BY <1>1, <1>2, <1>3, <1>5 DEF Pending
  <2> QED  BY <2>4, <2>5
<1>6. ASSUME NEW k \in Contexts, Sends(c, k) PROVE HeldOnce' /\ Pending' \subseteq Pending
  <2>1. /\ Others(k) /\ conn'[k].sent = Append(conn[k].sent, c)
        /\ left'[k] = Append(left[k], c)
    BY <1>6 DEF Sends
  <2>2. /\ conn[k].sent \in Seq(Commands) /\ left[k] \in Seq(Commands)
        /\ Distinct(conn[k].sent) /\ Distinct(left[k])
        /\ c \notin ToSet(conn[k].sent) /\ c \notin ToSet(left[k])
    BY <1>0, <1>4, TypeFacts DEF HeldOnce, Carried
  <2>3. /\ Distinct(conn'[k].sent) /\ ToSet(conn'[k].sent) = ToSet(conn[k].sent) \cup {c}
        /\ Distinct(left'[k]) /\ ToSet(left'[k]) = ToSet(left[k]) \cup {c}
    BY <1>1, <2>1, <2>2, AppendSet
  <2>4. Carried(k)' = Carried(k) \cup {c}  BY <2>3 DEF Carried
  <2>5. \A l \in Contexts : l # k => Carried(l)' = Carried(l)  BY <2>1 DEF Carried, Others
  <2>6. \A l \in Contexts : Distinct(conn'[l].sent) /\ Distinct(left'[l])
    BY <1>0, <2>1, <2>3 DEF Others, HeldOnce
  <2>7. \A l \in Contexts : /\ Carried(l)' \subseteq Emitted'
                            /\ Carried(l)' \cap (ToSet(queue_ready_') \cup ToSet(running')) = {}
    <3>1. ASSUME NEW l \in Contexts
          PROVE  /\ Carried(l)' \subseteq Carried(l) \cup {c}
                 /\ Carried(l) \subseteq Emitted
                 /\ Carried(l) \cap (ToSet(queue_ready_) \cup ToSet(running)) = {}
      BY <1>0, <2>4, <2>5 DEF HeldOnce
    <3> QED  BY <1>1, <1>2, <1>3, <1>4, <3>1
  <2>8. ASSUME NEW l \in Contexts, NEW m \in Contexts, l # m
        PROVE  Carried(l)' \cap Carried(m)' = {}
    <3>1. Carried(l) \cap Carried(m) = {}  BY <1>0, <2>8 DEF HeldOnce
    <3> QED  BY <1>4, <2>4, <2>5, <2>8, <3>1
  <2>9. HeldOnce'  BY <1>0, <1>1, <1>2, <1>3, <2>6, <2>7, <2>8 DEF HeldOnce
  <2>10. Pending' \subseteq Pending
    <3>1. \A l \in Contexts : ToSet(left'[l]) \subseteq ToSet(left[l]) \cup {c}
      BY <2>1, <2>3 DEF Others
    <3>2. c \in Pending  BY <1>3 DEF Pending
    <3>3. \A l \in Contexts : ToSet(left[l]) \subseteq Pending  BY DEF Pending
    <3>4. UNION {ToSet(left'[l]) : l \in Contexts} \subseteq Pending  BY <3>1, <3>2, <3>3
    <3>5. (Commands \ Emitted) \cup ToSet(queue_ready_) \cup ToSet(running) \subseteq Pending
      BY DEF Pending
    <3>6. Pending' = ((Commands \ Emitted') \cup ToSet(queue_ready_') \cup ToSet(running')
                        \cup UNION {ToSet(left'[l]) : l \in Contexts})
      BY DEF Pending
    <3> QED  BY <1>1, <1>2, <1>3, <3>4, <3>5, <3>6
  <2> QED  BY <2>9, <2>10
<1> QED  BY <1>a, <1>5, <1>6, CallCases

LEMMA HeldStep == IInv /\ [Next]_vars => HeldOnce' /\ Pending' \subseteq Pending
BY EmitHeld, RunHeld, CallHeld, ShrinksStep, ShrinksKeeps DEF Next

-----------------------------------------------------------------------------
(***************************************************************************)
(* What was sent waits for its reply, and is answered in order.            *)
(***************************************************************************)
LEMMA WaitsStep == IInv /\ [Next]_vars => SentWaits'
<1> SUFFICES ASSUME IInv, [Next]_vars PROVE SentWaits'
  OBVIOUS
<1> DEFINE T == Timed \cup TimedCallback
<1>0. TypeOK /\ HeldOnce /\ SentWaits  BY DEF IInv
<1>a. wait_by_time_ \subseteq T /\ \A l \in Contexts :
         ToSet(conn[l].sent) \subseteq queue_wait_ \cup (ended \cap T)
  BY <1>0 DEF SentWaits
<1>b. ASSUME wait_by_time_' \subseteq T,
             \A l \in Contexts : ToSet(conn'[l].sent) \subseteq queue_wait_' \cup (ended' \cap T)
      PROVE  SentWaits'
  BY <1>b DEF SentWaits
<1>c. ASSUME UNCHANGED <<queue_wait_, wait_by_time_, ended>>,
             \A l \in Contexts : conn'[l].sent \in {conn[l].sent, <<>>}
      PROVE  SentWaits'
  BY <1>a, <1>b, <1>c, EmptySet
<1>d. \A k, l \in Contexts : k # l => ToSet(conn[k].sent) \cap ToSet(conn[l].sent) = {}
  BY <1>0 DEF HeldOnce, Carried
<1>e. ASSUME NEW k \in Contexts, Frees(k), AnsweredNull(k), UNCHANGED wait_by_time_
      PROVE  SentWaits'
  <2>1. /\ queue_wait_' = queue_wait_ \ ToSet(conn[k].sent) /\ ended \subseteq ended'
        /\ conn'[k].sent = <<>> /\ Others(k)
    BY <1>0, <1>e, NullStep DEF Frees
  <2>2. ASSUME NEW l \in Contexts
        PROVE  ToSet(conn'[l].sent) \subseteq queue_wait_' \cup (ended' \cap T)
    <3>1. CASE l = k  BY <2>1, <3>1, EmptySet
    <3>2. CASE l # k
      <4>1. conn'[l].sent = conn[l].sent  BY <2>1, <3>2 DEF Others
      <4> QED  BY <1>a, <1>d, <2>1, <3>2, <4>1
    <3> QED  BY <3>1, <3>2
  <2> QED  BY <1>a, <1>b, <1>e, <2>2
<1> HIDE DEF T
<1>1. ASSUME NEW c \in Commands, emit(c) PROVE SentWaits'
  BY <1>1, <1>c DEF emit
<1>2. CASE run
  <2>1. PICK late \in SUBSET wait_by_time_ :
          /\ queue_wait_' = queue_wait_ \ late
          /\ wait_by_time_' = wait_by_time_ \ late /\ ended' = ended \cup late
    BY <1>2 DEF run
  <2>2. conn' = conn  BY <1>2 DEF run
  <2> QED  BY <1>a, <1>b, <2>1, <2>2
<1>3. CASE call
  <2>a. PICK c : c = Head(running)  OBVIOUS
  <2>1. /\ c \in Commands /\ queue_wait_' = queue_wait_ \cup {c} /\ ended' = ended
        /\ wait_by_time_' = wait_by_time_ \cup ({c} \cap T)
    BY <1>3, <2>a, CallCases DEF T
  <2>2. CASE UNCHANGED conn  BY <1>a, <1>b, <2>1, <2>2
  <2>3. ASSUME NEW k \in Contexts, Sends(c, k) PROVE SentWaits'
    <3>1. Others(k) /\ conn'[k].sent = Append(conn[k].sent, c)  BY <2>3 DEF Sends
    <3>2. ToSet(conn'[k].sent) = ToSet(conn[k].sent) \cup {c}
      BY <1>0, <2>1, <3>1, TypeFacts, AppendSet
    <3>3. \A l \in Contexts : ToSet(conn'[l].sent) \subseteq ToSet(conn[l].sent) \cup {c}
      BY <3>1, <3>2 DEF Others
    <3> QED  BY <1>a, <1>b, <2>1, <3>3
  <2> QED  BY <1>3, <2>a, <2>2, <2>3, CallCases
<1>4. CASE close
  <2>1. UNCHANGED <<queue_wait_, wait_by_time_, ended>>  BY <1>4 DEF close, clientVars
  <2>2. Others(context_) /\ conn'[context_].sent \in {conn[context_].sent, <<>>}
    BY <1>0, <1>4, CloseStep DEF Frees
  <2> QED  BY <1>c, <2>1, <2>2 DEF Others
<1>5. ASSUME NEW k \in Contexts, ConnectDone(k) PROVE SentWaits'
  BY <1>0, <1>5, <1>c, DoneStep DEF Others, clientVars
<1>6. ASSUME NEW k \in Contexts, ConnectFails(k) PROVE SentWaits'
  <2>1. CASE UNCHANGED <<context_, conn, left, clientVars>>  BY <1>c, <2>1 DEF clientVars
  <2> QED  BY <1>0, <1>6, <1>e, <2>1, FailsStep
<1>7. ASSUME NEW k \in Contexts, Breaks(k) PROVE SentWaits'
  BY <1>0, <1>7, <1>e, BreaksStep
<1>8. ASSUME NEW k \in Contexts, ReplyArrives(k) PROVE SentWaits'
  <2>0. PICK c, r : c = Head(conn[k].sent) /\ r = Head(conn[k].replies)  OBVIOUS
  <2>1. /\ UNCHANGED wait_by_time_ /\ queue_wait_' = queue_wait_ \ {c}
        /\ ended \subseteq ended' /\ conn[k].replies # <<>> /\ (Takes(k) \/ Frees(k))
    BY <1>8, <2>0, ReplyStep
  <2>2. conn[k].sent # <<>> /\ c \in ToSet(conn[k].sent)  BY <2>0, <2>1, FirstIsOver
  <2>3. conn[k].sent \in Seq(Commands) /\ Distinct(conn[k].sent)
    BY <1>0, TypeFacts DEF HeldOnce
  <2>4. ToSet(conn[k].sent) = ToSet(Tail(conn[k].sent)) \cup {c} /\ c \notin ToSet(Tail(conn[k].sent))
    BY <2>0, <2>2, <2>3, TailSet
  <2>5. Others(k) /\ conn'[k].sent \in {Tail(conn[k].sent), <<>>}
    BY <2>1 DEF Takes, Frees
  <2>6. ASSUME NEW l \in Contexts
        PROVE  ToSet(conn'[l].sent) \subseteq ToSet(conn[l].sent) \ {c}
    <3>1. CASE l = k  BY <2>4, <2>5, <3>1, EmptySet
    <3>2. CASE l # k  BY <1>d, <2>2, <2>5, <3>2 DEF Others
    <3> QED  BY <3>1, <3>2
  <2> QED  BY <1>a, <1>b, <2>1, <2>6
<1>9. ASSUME NEW k \in Contexts, Execute(k) PROVE SentWaits'
  <2>0. PICK c, r : Serves(c, k, r)  BY <1>0, <1>9, ExecuteStep
  <2>1. \A l \in Contexts : conn'[l].sent = conn[l].sent  BY <2>0 DEF Serves, Others
  <2>2. UNCHANGED <<queue_wait_, wait_by_time_, ended>>
    BY <1>0, <1>9, ExecuteStep DEF clientVars
  <2> QED  BY <1>c, <2>1, <2>2
<1>10. ASSUME NEW k \in Contexts, Lost(k) PROVE SentWaits'
  BY <1>0, <1>10, <1>c, LostStep DEF clientVars
<1>11. CASE UNCHANGED vars  BY <1>11, <1>c DEF vars, clientVars
<1> QED  BY <1>1, <1>2, <1>3, <1>4, <1>5, <1>6, <1>7, <1>8, <1>9, <1>10, <1>11 DEF Next

\* The sequence e holds the last elements of s, those after the first n.
Rest(s, n, e) == Len(s) = n + Len(e) /\ \A i \in DOMAIN e : s[n + i] = e[i]

LEMMA RestSent ==
  ASSUME NEW S, NEW s \in Seq(S), NEW e \in Seq(S), NEW n \in Nat, Rest(s, n, e), NEW c \in S
  PROVE  Rest(Append(s, c), n, Append(e, c))
<1>1. PICK t, f : t = Append(s, c) /\ f = Append(e, c)  OBVIOUS
<1>2. /\ Len(t) = Len(s) + 1 /\ Len(f) = Len(e) + 1 /\ DOMAIN f = 1 .. Len(e) + 1
      /\ Len(s) \in Nat /\ Len(e) \in Nat
      /\ t[Len(s) + 1] = c /\ f[Len(e) + 1] = c
      /\ \A i \in 1 .. Len(s) : t[i] = s[i]
      /\ \A i \in 1 .. Len(e) : f[i] = e[i]
  BY <1>1
<1>3. DOMAIN e = 1 .. Len(e) /\ Len(s) = n + Len(e) /\ \A i \in DOMAIN e : s[n + i] = e[i]
  BY DEF Rest
<1>4. Len(t) = n + Len(f)  BY <1>2, <1>3
<1>5. ASSUME NEW i \in DOMAIN f PROVE t[n + i] = f[i]
  <2>1. CASE i = Len(e) + 1
    <3>1. n + i = Len(s) + 1  BY <1>2, <1>3, <2>1
    <3> QED  BY <1>2, <2>1, <3>1
  <2>2. CASE i # Len(e) + 1
    <3>1. i \in 1 .. Len(e) /\ n + i \in 1 .. Len(s)  BY <1>2, <1>3, <2>2
    <3> QED  BY <1>2, <1>3, <3>1
  <2> QED  BY <2>1, <2>2
<1>6. Rest(t, n, f)  BY <1>4, <1>5 DEF Rest
<1> QED  BY <1>1, <1>6

LEMMA RestTaken ==
  ASSUME NEW S, NEW s \in Seq(S), NEW e \in Seq(S), NEW n \in Nat, n # 0, Rest(s, n, e)
  PROVE  s # <<>> /\ Rest(Tail(s), n - 1, e)
<1>1. DOMAIN e = 1 .. Len(e) /\ Len(e) \in Nat /\ Len(s) = n + Len(e) /\ Len(s) # 0
  BY DEF Rest
<1>2. s # <<>>  BY <1>1
<1>3. PICK t : t = Tail(s)  OBVIOUS
<1>4. Len(t) = Len(s) - 1 /\ \A i \in 1 .. Len(s) - 1 : t[i] = s[i + 1]  BY <1>2, <1>3
<1>5. Len(t) = (n - 1) + Len(e)  BY <1>1, <1>4
<1>6. ASSUME NEW i \in DOMAIN e PROVE t[(n - 1) + i] = e[i]
  <2>1. (n - 1) + i \in 1 .. Len(s) - 1 /\ ((n - 1) + i) + 1 = n + i  BY <1>1
  <2>2. s[n + i] = e[i]  BY DEF Rest
  <2> QED  BY <1>4, <2>1, <2>2
<1>7. Rest(t, n - 1, e)  BY <1>5, <1>6 DEF Rest
<1> QED  BY <1>2, <1>3, <1>7

LEMMA RestServed ==
  ASSUME NEW S, NEW s \in Seq(S), NEW e \in Seq(S), NEW n \in Nat, e # <<>>, Rest(s, n, e)
  PROVE  Rest(s, n + 1, Tail(e)) /\ s[n + 1] = Head(e) /\ n + 1 \in DOMAIN s
<1>1. PICK f : f = Tail(e)  OBVIOUS
<1>2. /\ DOMAIN e = 1 .. Len(e) /\ Len(e) \in Nat /\ Len(e) # 0 /\ Len(f) = Len(e) - 1
      /\ DOMAIN f = 1 .. Len(e) - 1 /\ \A i \in 1 .. Len(e) - 1 : f[i] = e[i + 1]
      /\ Head(e) = e[1] /\ DOMAIN s = 1 .. Len(s)
  BY <1>1
<1>3. Len(s) = n + Len(e) /\ \A i \in DOMAIN e : s[n + i] = e[i]  BY DEF Rest
<1>4. Len(s) = (n + 1) + Len(f)  BY <1>2, <1>3
<1>5. ASSUME NEW i \in DOMAIN f PROVE s[(n + 1) + i] = f[i]
  <2>1. i \in 1 .. Len(e) - 1 /\ i \in Nat  BY <1>2
  <2>2. i + 1 \in DOMAIN e /\ f[i] = e[i + 1]  BY <1>2, <2>1
  <2>3. (n + 1) + i = n + (i + 1)  BY <2>1
  <2> QED  BY <1>3, <2>2, <2>3
<1>6. 1 \in DOMAIN e /\ n + 1 \in DOMAIN s  BY <1>2, <1>3
<1>7. Rest(s, n + 1, f)  BY <1>4, <1>5 DEF Rest
<1> QED  BY <1>1, <1>2, <1>3, <1>6, <1>7

TurnOf(k) ==
  IF conn[k].state = "free" THEN conn[k].sent = <<>> /\ conn[k].replies = <<>>
  ELSE /\ Rest(conn[k].sent, Len(conn[k].replies), left[k])
       /\ Connecting(k) => conn[k].replies = <<>>

LEMMA TurnsAre == InTurn <=> \A k \in Contexts : TurnOf(k)
BY DEF InTurn, TurnOf, Rest

LEMMA TurnSame ==
  ASSUME NEW l \in Contexts, TurnOf(l), conn'[l] = conn[l], left'[l] = left[l]
  PROVE  TurnOf(l)'
BY DEF TurnOf, Rest, Connecting

LEMMA TurnStep == IInv /\ [Next]_vars => InTurn'
<1> SUFFICES ASSUME IInv, [Next]_vars PROVE InTurn'
  OBVIOUS
<1>0. TypeOK /\ \A l \in Contexts : TurnOf(l)  BY TurnsAre DEF IInv
<1>a. (\A l \in Contexts : TurnOf(l)') => InTurn'
  BY DEF InTurn, TurnOf, Rest
<1>b. ASSUME NEW k \in Contexts, Others(k), TurnOf(k)' PROVE InTurn'
  <2>1. \A l \in Contexts : l # k => TurnOf(l)'  BY <1>0, <1>b, TurnSame DEF Others
  <2> QED  BY <1>a, <1>b, <2>1
<1>c. ASSUME UNCHANGED <<conn, left>> PROVE InTurn'  BY <1>0, <1>a, <1>c, TurnSame
<1>d. ASSUME NEW k \in Contexts, Frees(k) PROVE InTurn'
  <2>1. Others(k) /\ TurnOf(k)'  BY <1>d DEF Frees, TurnOf
  <2> QED  BY <1>b, <2>1
<1>t. \A k \in Contexts : /\ conn[k].sent \in Seq(Commands) /\ left[k] \in Seq(Commands)
                          /\ conn[k].replies \in Seq(Replies) /\ Len(conn[k].replies) \in Nat
  BY <1>0, TypeFacts
<1>1. ASSUME NEW c \in Commands, emit(c) PROVE InTurn'  BY <1>1, <1>c DEF emit
<1>2. CASE run  BY <1>2, <1>c DEF run
<1>3. CASE call
  <2>a. PICK c : c = Head(running)  OBVIOUS
  <2>1. c \in Commands  BY <1>3, <2>a, CallCases
  <2>2. CASE UNCHANGED <<context_, conn, left>>  BY <1>c, <2>2
  <2>3. ASSUME NEW k \in Contexts, Sends(c, k) PROVE InTurn'
    <3>1. /\ Others(k) /\ conn'[k].sent = Append(conn[k].sent, c)
          /\ conn'[k].replies = conn[k].replies /\ left'[k] = Append(left[k], c)
      BY <2>3 DEF Sends
    <3>2. /\ Rest(conn[k].sent, Len(conn[k].replies), left[k])
          /\ conn'[k].state # "free"
          /\ Connecting(k)' => conn[k].replies = <<>>
      <4>1. CASE context_ = k /\ conn'[k].state = conn[k].state
        <5>1. conn[k].state \in {"connecting", "connected"}  BY <4>1, AliveNow
        <5> QED  BY <1>0, <4>1, <5>1 DEF TurnOf, Connecting
      <4>2. CASE /\ conn[k].state = "free" /\ left[k] = <<>>
                 /\ conn'[k].state = "connecting"
        <5>1. conn[k].sent = <<>> /\ conn[k].replies = <<>>  BY <1>0, <4>2 DEF TurnOf
        <5> QED  BY <4>2, <5>1 DEF Rest
      <4> QED  BY <2>3, <4>1, <4>2 DEF Sends
    <3>3. Rest(conn'[k].sent, Len(conn'[k].replies), left'[k])
      BY <1>t, <2>1, <3>1, <3>2, RestSent
    <3>4. TurnOf(k)'
      <4>1. Connecting(k)' => conn'[k].replies = <<>>  BY <3>1, <3>2
      <4> QED  BY <3>2, <3>3, <4>1 DEF TurnOf, Rest
    <3> QED  BY <1>b, <3>1, <3>4
  <2> QED  BY <1>3, <2>a, <2>2, <2>3, CallCases
<1>4. CASE close
  <2>0. PICK k \in Contexts : k = context_  BY <1>0, <1>4, CloseStep
  <2>1. CASE Frees(k)  BY <1>d, <2>1
  <2>2. CASE /\ conn'[k].sent = conn[k].sent
             /\ conn'[k].replies = conn[k].replies
             /\ conn'[k].state = IF Connecting(k) THEN "connecting, closing"
                                                  ELSE "connected, closing"
    <3>1. Others(k) /\ left' = left  BY <1>0, <1>4, <2>0, CloseStep
    <3>2. conn[k].state # "free"  BY <2>0, AliveNow
    <3>3. TurnOf(k)'  BY <1>0, <2>2, <3>1, <3>2 DEF TurnOf, Connecting, Rest
    <3> QED  BY <1>b, <3>1, <3>3
  <2> QED  BY <1>0, <1>4, <2>0, <2>1, <2>2, CloseStep
<1>5. ASSUME NEW k \in Contexts, ConnectDone(k) PROVE InTurn'
  <2>1. /\ Connecting(k) /\ Others(k) /\ left' = left
        /\ conn'[k].sent = conn[k].sent /\ conn'[k].replies = conn[k].replies
        /\ conn'[k].state = IF Closing(k) THEN "connected, closing" ELSE "connected"
    BY <1>0, <1>5, DoneStep
  <2>2. conn'[k].state # "free" /\ ~Connecting(k)'  BY <2>1 DEF Connecting
  <2>3. TurnOf(k)'  BY <1>0, <2>1, <2>2 DEF TurnOf, Connecting, Rest
  <2> QED  BY <1>b, <2>1, <2>3
<1>6. ASSUME NEW k \in Contexts, ConnectFails(k) PROVE InTurn'
  BY <1>0, <1>6, <1>c, <1>d, FailsStep
<1>7. ASSUME NEW k \in Contexts, Breaks(k) PROVE InTurn'
  BY <1>0, <1>7, <1>d, BreaksStep
<1>8. ASSUME NEW k \in Contexts, ReplyArrives(k) PROVE InTurn'
  <2>0. PICK c, r : c = Head(conn[k].sent) /\ r = Head(conn[k].replies)  OBVIOUS
  <2>1. Connected(k) /\ conn[k].replies # <<>>  BY <1>8, <2>0, ReplyStep
  <2>2. CASE Takes(k)
    <3>1. /\ Others(k) /\ conn'[k].state = conn[k].state /\ left'[k] = left[k]
          /\ conn'[k].sent = Tail(conn[k].sent) /\ conn'[k].replies = Tail(conn[k].replies)
      BY <2>2 DEF Takes
    <3>2. Len(conn[k].replies) # 0 /\ Len(conn'[k].replies) = Len(conn[k].replies) - 1
      BY <1>t, <2>1, <3>1
    <3>3. Rest(conn[k].sent, Len(conn[k].replies), left[k])
      BY <1>0, <2>1 DEF TurnOf, Connected
    <3>4. Rest(conn'[k].sent, Len(conn'[k].replies), left'[k])
      BY <1>t, <3>1, <3>2, <3>3, RestTaken
    <3>5. conn'[k].state # "free" /\ ~Connecting(k)'
      BY <2>1, <3>1 DEF Connected, Connecting
    <3>6. TurnOf(k)'  BY <3>4, <3>5 DEF TurnOf, Rest
    <3> QED  BY <1>b, <3>1, <3>6
  <2> QED  BY <1>8, <1>d, <2>0, <2>2, ReplyStep
<1>9. ASSUME NEW k \in Contexts, Execute(k) PROVE InTurn'
  <2>0. PICK c, r : Serves(c, k, r)  BY <1>0, <1>9, ExecuteStep
  <2>1. /\ Others(k) /\ left[k] # <<>> /\ left'[k] = Tail(left[k]) /\ r \in Replies
        /\ conn'[k].state = conn[k].state /\ conn'[k].sent = conn[k].sent
    BY <2>0 DEF Serves
  <2>2. CASE Connected(k) /\ conn'[k].replies = Append(conn[k].replies, r)
    <3>1. Rest(conn[k].sent, Len(conn[k].replies), left[k])
      BY <1>0, <2>2 DEF TurnOf, Connected
    <3>2. Len(conn'[k].replies) = Len(conn[k].replies) + 1  BY <1>t, <2>1, <2>2
    <3>3. Rest(conn'[k].sent, Len(conn'[k].replies), left'[k])
      BY <1>t, <2>1, <3>1, <3>2, RestServed
    <3>4. conn'[k].state # "free" /\ ~Connecting(k)'
      BY <2>1, <2>2 DEF Connected, Connecting
    <3>5. TurnOf(k)'  BY <3>3, <3>4 DEF TurnOf, Rest
    <3> QED  BY <1>b, <2>1, <3>5
  <2>3. CASE conn[k].state = "free" /\ conn' = conn
    <3>1. TurnOf(k)'  BY <1>0, <2>3 DEF TurnOf
    <3> QED  BY <1>b, <2>1, <3>1
  <2> QED  BY <2>0, <2>2, <2>3 DEF Serves
<1>10. ASSUME NEW k \in Contexts, Lost(k) PROVE InTurn'
  <2>1. Others(k) /\ conn' = conn /\ conn[k].state = "free"  BY <1>0, <1>10, LostStep
  <2>2. TurnOf(k)'  BY <1>0, <2>1 DEF TurnOf
  <2> QED  BY <1>b, <2>1, <2>2
<1>11. CASE UNCHANGED vars  BY <1>11, <1>c DEF vars
<1> QED  BY <1>1, <1>2, <1>3, <1>4, <1>5, <1>6, <1>7, <1>8, <1>9, <1>10, <1>11 DEF Next

-----------------------------------------------------------------------------
(***************************************************************************)
(* What is confirmed, and the replies on their way.                        *)
(***************************************************************************)
\* No command is told okay or nil.
Quiet ==
  /\ ended \subseteq ended'
  /\ \A c \in Commands : reply_status_'[c] \in {"okay", "nil"} =>
       reply_status_[c] = reply_status_'[c] /\ seen'[c] = seen[c]

LEMMA QuietStep ==
  ASSUME IInv, [Next]_vars
  PROVE  Quiet \/ \E k \in Contexts : ReplyArrives(k)
<1>0. TypeOK  BY DEF IInv
<1>a. UNCHANGED <<reply_status_, seen, ended>> => Quiet  BY DEF Quiet
<1>b. ASSUME NEW k \in Contexts, AnsweredNull(k) PROVE Quiet
  BY <1>0, <1>b, NullStep DEF Quiet
<1>1. ASSUME NEW c \in Commands, emit(c) PROVE Quiet  BY <1>1, <1>a DEF emit
<1>2. CASE run
  <2>1. PICK late \in SUBSET wait_by_time_ : timeout(late) /\ ended' = ended \cup late
    BY <1>2 DEF run
  <2>2. UNCHANGED seen  BY <1>2 DEF run
  <2>3. \A c \in Commands : reply_status_'[c] \in {"timeout", reply_status_[c]}
    BY <2>1 DEF timeout
  <2> QED  BY <2>1, <2>2, <2>3 DEF Quiet
<1>3. CASE call
  <2>1. UNCHANGED <<seen, ended>>  BY <1>3, CallCases
  <2>2. \A c \in Commands : reply_status_'[c] \in {"send_error", reply_status_[c]}
    BY <1>0, <1>3, CallCases, TypeFacts
  <2> QED  BY <2>1, <2>2 DEF Quiet
<1>4. CASE close  BY <1>4, <1>a DEF close, clientVars
<1>5. ASSUME NEW k \in Contexts, ConnectDone(k) PROVE Quiet
  BY <1>0, <1>5, <1>a, DoneStep DEF clientVars
<1>6. ASSUME NEW k \in Contexts, ConnectFails(k) PROVE Quiet
  <2>1. CASE UNCHANGED <<context_, conn, left, clientVars>>  BY <1>a, <2>1 DEF clientVars
  <2> QED  BY <1>0, <1>6, <1>b, <2>1, FailsStep
<1>7. ASSUME NEW k \in Contexts, Breaks(k) PROVE Quiet  BY <1>0, <1>7, <1>b, BreaksStep
<1>8. ASSUME NEW k \in Contexts, Execute(k) PROVE Quiet
  BY <1>0, <1>8, <1>a, ExecuteStep DEF clientVars
<1>9. ASSUME NEW k \in Contexts, Lost(k) PROVE Quiet
  BY <1>0, <1>9, <1>a, LostStep DEF clientVars
<1>10. CASE UNCHANGED vars  BY <1>10, <1>a DEF vars, clientVars
<1> QED  BY <1>1, <1>2, <1>3, <1>4, <1>5, <1>6, <1>7, <1>8, <1>9, <1>10 DEF Next

\* A reply q is on its way to the command d.
Flies(d, q) ==
  \E k \in Contexts : \E i \in DOMAIN conn[k].replies :
      d = conn[k].sent[i] /\ q = conn[k].replies[i]

LEMMA ReplyFlies ==
  ASSUME IInv, NEW k \in Contexts, conn[k].replies # <<>>
  PROVE  Flies(Head(conn[k].sent), Head(conn[k].replies))
<1>1. /\ conn[k].sent # <<>> /\ conn[k].sent \in Seq(Commands)
      /\ conn[k].replies \in Seq(Replies)
  BY FirstIsOver, TypeFacts DEF IInv
<1>2. 1 \in DOMAIN conn[k].replies /\ Head(conn[k].sent) = conn[k].sent[1]
      /\ Head(conn[k].replies) = conn[k].replies[1]
  BY <1>1, TailSet
<1> QED  BY <1>2 DEF Flies

LEMMA RepliedWereSent ==
  ASSUME IInv, NEW k \in Contexts, NEW i \in DOMAIN conn[k].replies
  PROVE  i \in DOMAIN conn[k].sent /\ i \in Nat /\ conn[k].sent[i] \in Emitted
<1>0. TypeOK /\ HeldOnce /\ TurnOf(k)  BY TurnsAre DEF IInv
<1>1. /\ conn[k].replies \in Seq(Replies) /\ conn[k].sent \in Seq(Commands)
      /\ left[k] \in Seq(Commands)
  BY <1>0, TypeFacts
<1>2. conn[k].replies # <<>>  BY <1>1
<1>3. Len(conn[k].sent) = Len(conn[k].replies) + Len(left[k])
  BY <1>0, <1>2 DEF TurnOf, Rest
<1>4. /\ Len(conn[k].sent) \in Nat /\ Len(conn[k].replies) \in Nat /\ Len(left[k]) \in Nat
      /\ i \in 1 .. Len(conn[k].replies) /\ DOMAIN conn[k].sent = 1 .. Len(conn[k].sent)
  BY <1>1
<1>5. i \in DOMAIN conn[k].sent /\ i \in Nat
  <2>1. \A m, n \in Nat : i \in 1 .. m => i \in 1 .. m + n /\ i \in Nat  OBVIOUS
  <2> QED  BY <1>3, <1>4, <2>1
<1>6. conn[k].sent[i] \in Carried(k)  BY <1>5 DEF Carried, ToSet
<1> QED  BY <1>0, <1>5, <1>6 DEF HeldOnce

\* Where the replies of k come from, when no other connection changed.
LEMMA FliesKept ==
  ASSUME NEW k \in Contexts, Others(k), NEW d, NEW q, Flies(d, q)'
  PROVE  \/ Flies(d, q)
         \/ \E i \in DOMAIN conn'[k].replies : d = conn'[k].sent[i] /\ q = conn'[k].replies[i]
<1>1. PICK l \in Contexts : \E i \in DOMAIN conn'[l].replies :
          d = conn'[l].sent[i] /\ q = conn'[l].replies[i]
  BY DEF Flies
<1>2. CASE l = k  BY <1>1, <1>2
<1>3. CASE l # k  BY <1>1, <1>3 DEF Others, Flies
<1> QED  BY <1>2, <1>3

LEMMA FliesStep ==
  ASSUME IInv, [Next]_vars, NEW d, NEW q, Flies(d, q)'
  PROVE  Flies(d, q) \/ \E k \in Contexts : Execute(k) /\ Serves(d, k, q)
<1>0. TypeOK  BY DEF IInv
<1>a. UNCHANGED conn => Flies(d, q)  BY DEF Flies
<1>b. ASSUME NEW k \in Contexts, Frees(k) PROVE Flies(d, q)
  <2>1. Others(k) /\ conn'[k].replies = <<>>  BY <1>b DEF Frees
  <2>2. DOMAIN conn'[k].replies = {}  BY <2>1
  <2> QED  BY <2>1, <2>2, FliesKept
<1>c. ASSUME NEW k \in Contexts, Others(k), conn'[k].sent = conn[k].sent,
             conn'[k].replies = conn[k].replies
      PROVE  Flies(d, q)
  <2>1. \/ Flies(d, q)
        \/ \E i \in DOMAIN conn'[k].replies : d = conn'[k].sent[i] /\ q = conn'[k].replies[i]
    BY <1>c, FliesKept
  <2>2. ASSUME NEW i \in DOMAIN conn'[k].replies, d = conn'[k].sent[i], q = conn'[k].replies[i]
        PROVE  Flies(d, q)
    BY <1>c, <2>2 DEF Flies
  <2> QED  BY <2>1, <2>2
<1>1. ASSUME NEW c \in Commands, emit(c) PROVE Flies(d, q)  BY <1>1, <1>a DEF emit
<1>2. CASE run  BY <1>2, <1>a DEF run
<1>3. CASE call
  <2>a. PICK c : c = Head(running)  OBVIOUS
  <2>1. c \in Commands  BY <1>3, <2>a, CallCases
  <2>2. ASSUME NEW k \in Contexts, Sends(c, k) PROVE Flies(d, q)
    <3>1. /\ Others(k) /\ conn'[k].sent = Append(conn[k].sent, c)
          /\ conn'[k].replies = conn[k].replies
      BY <2>2 DEF Sends
    <3>2. conn[k].sent \in Seq(Commands)  BY <1>0, TypeFacts
    <3>3. \A i \in DOMAIN conn[k].sent : conn'[k].sent[i] = conn[k].sent[i]
      BY <2>1, <3>1, <3>2
    <3>4. \A i \in DOMAIN conn[k].replies : i \in DOMAIN conn[k].sent  BY RepliedWereSent
    <3>o. Others(k)  BY <3>1
    <3>5. \/ Flies(d, q)
          \/ \E i \in DOMAIN conn'[k].replies : d = conn'[k].sent[i] /\ q = conn'[k].replies[i]
      BY <3>o, FliesKept
    <3>6. ASSUME NEW i \in DOMAIN conn'[k].replies, d = conn'[k].sent[i], q = conn'[k].replies[i]
          PROVE  Flies(d, q)
      BY <3>1, <3>3, <3>4, <3>6 DEF Flies
    <3> QED  BY <3>5, <3>6
  <2> QED  BY <1>3, <1>a, <2>a, <2>2, CallCases
<1>4. CASE close  BY <1>0, <1>4, <1>b, <1>c, CloseStep
<1>5. ASSUME NEW k \in Contexts, ConnectDone(k) PROVE Flies(d, q)
  BY <1>0, <1>5, <1>c, DoneStep
<1>6. ASSUME NEW k \in Contexts, ConnectFails(k) PROVE Flies(d, q)
  BY <1>0, <1>6, <1>a, <1>b, FailsStep
<1>7. ASSUME NEW k \in Contexts, Breaks(k) PROVE Flies(d, q)
  BY <1>0, <1>7, <1>b, BreaksStep
<1>8. ASSUME NEW k \in Contexts, ReplyArrives(k) PROVE Flies(d, q)
  <2>0. PICK c, r : c = Head(conn[k].sent) /\ r = Head(conn[k].replies)  OBVIOUS
  <2>1. conn[k].replies # <<>> /\ (Takes(k) \/ Frees(k))  BY <1>8, <2>0, ReplyStep
  <2>2. CASE Takes(k)
    <3>1. /\ Others(k) /\ conn'[k].sent = Tail(conn[k].sent)
          /\ conn'[k].replies = Tail(conn[k].replies)
      BY <2>2 DEF Takes
    <3>2. /\ conn[k].sent # <<>> /\ conn[k].sent \in Seq(Commands)
          /\ conn[k].replies \in Seq(Replies)
      BY <1>0, <2>1, FirstIsOver, TypeFacts
    <3>3. ASSUME NEW i \in DOMAIN conn'[k].replies
          PROVE  /\ i + 1 \in DOMAIN conn[k].replies
                 /\ conn'[k].replies[i] = conn[k].replies[i + 1]
                 /\ conn'[k].sent[i] = conn[k].sent[i + 1]
      <4>1. /\ i \in Nat /\ i # 0 /\ i + 1 \in DOMAIN conn[k].replies
            /\ conn'[k].replies[i] = conn[k].replies[i + 1]
        BY <2>1, <3>1, <3>2, <3>3
      <4>2. i + 1 \in DOMAIN conn[k].sent  BY <4>1, RepliedWereSent
      <4>3. i \in 1 .. Len(conn[k].sent) - 1  BY <3>2, <4>1, <4>2
      <4> QED  BY <3>1, <3>2, <4>1, <4>3
    <3>o. Others(k)  BY <3>1
    <3>5. \/ Flies(d, q)
          \/ \E i \in DOMAIN conn'[k].replies : d = conn'[k].sent[i] /\ q = conn'[k].replies[i]
      BY <3>o, FliesKept
    <3>6. ASSUME NEW i \in DOMAIN conn'[k].replies, d = conn'[k].sent[i], q = conn'[k].replies[i]
          PROVE  Flies(d, q)
      BY <3>3, <3>6 DEF Flies
    <3> QED  BY <3>5, <3>6
  <2> QED  BY <1>b, <2>1, <2>2
<1>9. ASSUME NEW k \in Contexts, Execute(k)
      PROVE  Flies(d, q) \/ \E l \in Contexts : Execute(l) /\ Serves(d, l, q)
  <2>0. PICK c, r : Serves(c, k, r)  BY <1>0, <1>9, ExecuteStep
  <2>1. /\ Others(k) /\ conn'[k].sent = conn[k].sent /\ left[k] # <<>> /\ c = Head(left[k])
        /\ r \in Replies
    BY <2>0 DEF Serves
  <2>2. CASE conn' = conn  BY <1>a, <2>2
  <2>3. CASE Connected(k) /\ conn'[k].replies = Append(conn[k].replies, r)
    <3>1. /\ conn[k].sent \in Seq(Commands) /\ conn[k].replies \in Seq(Replies)
          /\ left[k] \in Seq(Commands) /\ Len(conn[k].replies) \in Nat
      BY <1>0, TypeFacts
    <3>2. Rest(conn[k].sent, Len(conn[k].replies), left[k])
      BY <2>3, TurnsAre DEF IInv, TurnOf, Connected
    <3>3. conn[k].sent[Len(conn[k].replies) + 1] = c  BY <2>1, <3>1, <3>2, RestServed
    <3>4. \A i \in DOMAIN conn'[k].replies :
            \/ i \in DOMAIN conn[k].replies /\ conn'[k].replies[i] = conn[k].replies[i]
            \/ i = Len(conn[k].replies) + 1 /\ conn'[k].replies[i] = r
      BY <2>1, <2>3, <3>1
    <3>5. Flies(d, q) \/ (d = c /\ q = r)
      <4>1. \/ Flies(d, q)
            \/ \E i \in DOMAIN conn'[k].replies : d = conn'[k].sent[i] /\ q = conn'[k].replies[i]
        BY <2>1, FliesKept
      <4>2. ASSUME NEW i \in DOMAIN conn[k].replies, d = conn'[k].sent[i], q = conn[k].replies[i]
            PROVE  Flies(d, q)
        BY <2>1, <4>2 DEF Flies
      <4> QED  BY <2>1, <3>3, <3>4, <4>1, <4>2
    <3> QED  BY <1>9, <2>0, <3>5
  <2> QED  BY <2>0, <2>2, <2>3 DEF Serves
<1>10. ASSUME NEW k \in Contexts, Lost(k) PROVE Flies(d, q)  BY <1>0, <1>10, <1>a, LostStep
<1>11. CASE UNCHANGED vars  BY <1>11, <1>a DEF vars
<1> QED  BY <1>1, <1>2, <1>3, <1>4, <1>5, <1>6, <1>7, <1>8, <1>9, <1>10, <1>11 DEF Next

-----------------------------------------------------------------------------
(***************************************************************************)
(* Reads and confirmed writes.                                             *)
(***************************************************************************)
LEMMA ConfirmedNow ==
  ASSUME IInv
  PROVE  /\ \A c \in Commands : reply_status_[c] \in {"okay", "nil"} => c \in ended /\ c \notin Pending
         /\ \A c \in Emitted : before[c] \cap Pending = {}
         /\ \A c \in Commands : c \notin Pending => c \in Emitted
         /\ \A c \in Okay : c \in Commands /\ reply_status_[c] = "okay"
BY TypeFacts DEF IInv, ConfirmedIsOver, Pending, Okay

LEMMA BeforeStep ==
  ASSUME IInv, [Next]_vars
  PROVE  /\ Emitted \subseteq Emitted' /\ \A c \in Emitted : before'[c] = before[c]
         /\ \A c \in Emitted' \ Emitted : before'[c] = Okay
<1>0. TypeOK  BY DEF IInv
<1>a. ASSUME UNCHANGED before
      PROVE  /\ Emitted \subseteq Emitted' /\ \A c \in Emitted : before'[c] = before[c]
             /\ \A c \in Emitted' \ Emitted : before'[c] = Okay
  BY <1>a DEF Emitted
<1>1. ASSUME NEW d \in Commands, emit(d)
      PROVE  /\ Emitted \subseteq Emitted' /\ \A c \in Emitted : before'[c] = before[c]
             /\ \A c \in Emitted' \ Emitted : before'[c] = Okay
  <2>1. /\ d \notin Emitted
        /\ before' = [c \in Emitted \cup {d} |-> IF c = d THEN Okay ELSE before[c]]
    BY <1>1 DEF emit
  <2>2. Emitted' = Emitted \cup {d}  BY <2>1 DEF Emitted
  <2> HIDE DEF Emitted
  <2> QED  BY <2>1, <2>2
<1>2. run => UNCHANGED before  BY DEF run
<1>3. call => UNCHANGED before  BY DEF call
<1>4. \/ close \/ UNCHANGED vars
      \/ \E k \in Contexts : ConnectDone(k) \/ ConnectFails(k) \/ ReplyArrives(k) \/ Breaks(k)
                             \/ Execute(k) \/ Lost(k)
      => UNCHANGED before
  BY ShrinksStep DEF Shrinks
<1> QED  BY <1>a, <1>1, <1>2, <1>3, <1>4 DEF Next

LEMMA ConfirmedStep == IInv /\ [Next]_vars => ConfirmedIsOver'
<1> SUFFICES ASSUME IInv, [Next]_vars PROVE ConfirmedIsOver'
  OBVIOUS
<1>1. Pending' \subseteq Pending  BY HeldStep
<1>2. ASSUME NEW c \in Emitted' PROVE before'[c] \cap Pending' = {}
  <2>1. CASE c \in Emitted  BY <1>1, <2>1, BeforeStep, ConfirmedNow
  <2>2. CASE c \notin Emitted
    <3>1. before'[c] = Okay  BY <1>2, <2>2, BeforeStep
    <3> QED  BY <1>1, <3>1, ConfirmedNow
  <2> QED  BY <2>1, <2>2
<1>3. ASSUME NEW c \in Commands, reply_status_'[c] \in {"okay", "nil"}
      PROVE  c \in ended' /\ c \notin Pending'
  <2>1. CASE Quiet  BY <1>1, <1>3, <2>1, ConfirmedNow DEF Quiet
  <2>2. ASSUME NEW k \in Contexts, ReplyArrives(k) PROVE c \in ended' /\ c \notin Pending'
    <3>0. PICK d, r : d = Head(conn[k].sent) /\ r = Head(conn[k].replies)  OBVIOUS
    <3>1. conn[k].replies # <<>> /\ ended' = ended \cup ({d} \cap queue_wait_)
      BY <2>2, <3>0, ReplyStep
    <3>a. Told(d, r)
      BY <2>2, <3>0, ReplyStep
    <3>2. d \notin Pending  BY <3>0, <3>1, FirstIsOver
    <3> QED  BY <1>1, <1>3, <3>1, <3>2, <3>a, ConfirmedNow DEF Told
  <2> QED  BY <2>1, <2>2, QuietStep
<1> QED  BY <1>2, <1>3 DEF ConfirmedIsOver

LEMMA FliesNow ==
  ASSUME IInv, NEW d, NEW q, Flies(d, q)
  PROVE  /\ d \in Emitted /\ d \in Commands /\ q.type \in Fitting(d)
         /\ Op[d] = "GET" /\ q.type # "ERROR" => \A w \in before[d] : NotOverwritten(q.by, w)
         /\ q.type # "ERROR" => d \in Executed
<1>0. TypeOK /\ RepliesFit /\ RepliesAreNew  BY DEF IInv
<1>1. PICK k \in Contexts : \E i \in DOMAIN conn[k].replies :
          d = conn[k].sent[i] /\ q = conn[k].replies[i]
  BY DEF Flies
<1>2. PICK i \in DOMAIN conn[k].replies : d = conn[k].sent[i] /\ q = conn[k].replies[i]
  BY <1>1
<1>3. d \in Emitted /\ d \in Commands  BY <1>0, <1>2, RepliedWereSent, TypeFacts
<1>4. q.type \in Fitting(d)  BY <1>0, <1>2 DEF RepliesFit
<1>5. Op[d] = "GET" /\ q.type # "ERROR" => \A w \in before[d] : NotOverwritten(q.by, w)
  BY <1>0, <1>2 DEF RepliesAreNew
<1>6. ASSUME q.type # "ERROR" PROVE d \in Executed
  <2>1. d \in Served(k)  BY <1>2, <1>6 DEF Served
  <2> QED  BY <2>1 DEF Executed
<1> QED  BY <1>3, <1>4, <1>5, <1>6

LEMMA FitStep == IInv /\ [Next]_vars => RepliesFit'
<1> SUFFICES ASSUME IInv, [Next]_vars, NEW k \in Contexts, NEW i \in DOMAIN conn'[k].replies
             PROVE  conn'[k].replies[i].type \in Fitting(conn'[k].sent[i])
  BY DEF RepliesFit, Fitting
<1>1. PICK d, q : d = conn'[k].sent[i] /\ q = conn'[k].replies[i]  OBVIOUS
<1>2. Flies(d, q)'  BY <1>1 DEF Flies
<1>3. CASE Flies(d, q)  BY <1>1, <1>3, FliesNow
<1>4. ASSUME NEW l \in Contexts, Serves(d, l, q) PROVE q.type \in Fitting(d)
  <2>1. d \in Commands /\ (q = Answer(d) \/ q = Reply("ERROR", Nobody))
    BY <1>4 DEF Serves, Effect
  <2>2. Op[d] \in {"SET", "GET", "DEL"}  BY <2>1, AsyncRedisAssumption
  <2> QED  BY <2>1, <2>2 DEF Answer, Reply, Fitting
<1> QED  BY <1>1, <1>2, <1>3, <1>4, FliesStep

LEMMA ExecutedEmitted ==
  ASSUME IInv, NEW w \in Executed
  PROVE  w \in Emitted /\ w \in Commands
<1>0. TypeOK  BY DEF IInv
<1>1. CASE w \in Okay  BY <1>1, ConfirmedNow
<1>2. ASSUME NEW c \in Emitted, w \in before[c] PROVE w \in Emitted /\ w \in Commands
  <2>1. w \in Commands  BY <1>0, <1>2, TypeFacts
  <2> QED  BY <1>2, <2>1, ConfirmedNow
<1>3. ASSUME NEW k \in Contexts, w \in Served(k) PROVE w \in Emitted /\ w \in Commands
  <2>1. PICK i \in DOMAIN conn[k].replies : w = conn[k].sent[i]  BY <1>3 DEF Served
  <2> QED  BY <1>0, <2>1, RepliedWereSent, TypeFacts
<1> QED  BY <1>1, <1>2, <1>3 DEF Executed

\* What is confirmed now was, or is executed now.
LEMMA ExecutedStep ==
  ASSUME IInv, [Next]_vars, NEW w \in Executed'
  PROVE  \/ w \in Executed
         \/ \E k \in Contexts, q \in Replies : Execute(k) /\ Serves(w, k, q) /\ q.type # "ERROR"
<1>0. TypeOK /\ TypeOK'  BY TypeStep DEF IInv
<1>1. ASSUME w \in Okay' PROVE w \in Executed
  <2>1. w \in Commands /\ w \in ended' /\ reply_status_'[w] = "okay"
    BY <1>0, <1>1 DEF Okay, TypeOK
  <2>2. ASSUME reply_status_[w] = "okay" PROVE w \in Executed
    BY <2>1, <2>2, ConfirmedNow DEF Executed, Okay
  <2>3. CASE Quiet  BY <2>1, <2>2, <2>3 DEF Quiet
  <2>4. ASSUME NEW k \in Contexts, ReplyArrives(k) PROVE w \in Executed
    <3>0. PICK c, r : c = Head(conn[k].sent) /\ r = Head(conn[k].replies)  OBVIOUS
    <3>1. Told(c, r) /\ conn[k].replies # <<>>  BY <2>4, <3>0, ReplyStep
    <3>2. Flies(c, r)  BY <3>0, <3>1, ReplyFlies
    <3>3. CASE w # c \/ c \notin queue_wait_  BY <2>1, <2>2, <3>1, <3>3 DEF Told
    <3>4. CASE w = c /\ c \in queue_wait_
      <4>1. Status(c, r) = "okay"  BY <2>1, <3>1, <3>4 DEF Told
      <4>2. r.type # "ERROR"
        BY <4>1 DEF Status, Expected, ReplyT
      <4> QED  BY <3>2, <3>4, <4>2, FliesNow
    <3> QED  BY <3>3, <3>4
  <2> QED  BY <2>3, <2>4, QuietStep
<1>2. ASSUME NEW c \in Emitted', w \in before'[c] PROVE w \in Executed
  <2>1. CASE c \in Emitted  BY <1>2, <2>1, BeforeStep DEF Executed
  <2>2. CASE c \notin Emitted  BY <1>2, <2>2, BeforeStep DEF Executed
  <2> QED  BY <2>1, <2>2
<1>3. ASSUME NEW k \in Contexts, w \in Served(k)'
      PROVE  \/ w \in Executed
             \/ \E l \in Contexts, q \in Replies : Execute(l) /\ Serves(w, l, q) /\ q.type # "ERROR"
  <2>1. PICK i \in DOMAIN conn'[k].replies :
          w = conn'[k].sent[i] /\ conn'[k].replies[i].type # "ERROR"
    BY <1>3 DEF Served
  <2>2. PICK q : q = conn'[k].replies[i]  OBVIOUS
  <2>3. Flies(w, q)' /\ q.type # "ERROR"  BY <2>1, <2>2 DEF Flies
  <2>4. CASE Flies(w, q)  BY <2>3, <2>4, FliesNow
  <2>5. ASSUME NEW l \in Contexts, Execute(l), Serves(w, l, q) PROVE q \in Replies
    BY <2>5 DEF Serves
  <2> QED  BY <2>3, <2>4, <2>5, FliesStep
<1>4. \/ w \in Okay' \/ \E c \in Emitted' : w \in before'[c]
      \/ \E k \in Contexts : w \in Served(k)'
  BY DEF Executed
<1> QED  BY <1>1, <1>2, <1>3, <1>4

\* The server executes what is pending, which no write was confirmed before.
LEMMA ServesPending ==
  ASSUME IInv, NEW k \in Contexts, NEW c, NEW q, Serves(c, k, q)
  PROVE  c \in Pending /\ c # Nobody /\ c \in Emitted /\ \A w \in Emitted : c \notin before[w]
<1>0. TypeOK /\ HeldOnce  BY DEF IInv
<1>1. left[k] # <<>> /\ c = Head(left[k]) /\ c \in Commands  BY DEF Serves
<1>2. c \in ToSet(left[k])  BY <1>0, <1>1, TailSet, TypeFacts
<1>3. c \in Pending  BY <1>2 DEF Pending
<1>4. c \in Emitted  BY <1>0, <1>2 DEF HeldOnce, Carried
<1> QED  BY <1>1, <1>3, <1>4, ConfirmedNow, AsyncRedisAssumption

LEMMA KeyUnlessExecuted ==
  ASSUME IInv, [Next]_vars
  PROVE  key' = key \/ \E k \in Contexts : Execute(k)
<1>0. TypeOK  BY DEF IInv
<1>1. \A k \in Contexts : ReplyArrives(k) => key' = key  BY DEF ReplyArrives
<1>2. \A k \in Contexts : ConnectFails(k) => key' = key  BY DEF ConnectFails
<1>3. \A k \in Contexts : ConnectDone(k) \/ Breaks(k) \/ Lost(k) => key' = key
  BY DEF ConnectDone, Breaks, Lost
<1>4. run \/ close \/ call \/ UNCHANGED vars => key' = key  BY DEF run, close, call, vars
<1>5. \A c \in Commands : emit(c) => key' = key  BY DEF emit
<1> QED  BY <1>1, <1>2, <1>3, <1>4, <1>5 DEF Next

LEMMA KeyStep == IInv /\ [Next]_vars => KeyIsNew'
<1> SUFFICES ASSUME IInv, [Next]_vars, NEW w \in Executed', Op[w] \in {"SET", "DEL"}
             PROVE  key'.by # Nobody /\ key'.by \notin before'[w]
  BY DEF KeyIsNew, NotOverwritten
<1>1. CASE w \in Executed
  <2>1. w \in Emitted /\ before'[w] = before[w]  BY <1>1, ExecutedEmitted, BeforeStep
  <2>2. key.by # Nobody /\ key.by \notin before[w]
    BY <1>1 DEF IInv, KeyIsNew, NotOverwritten
  <2>3. CASE key' = key  BY <2>1, <2>2, <2>3
  <2>4. ASSUME NEW k \in Contexts, Execute(k), key' # key
        PROVE  key'.by # Nobody /\ key'.by \notin before'[w]
    <3>1. PICK c, q : Serves(c, k, q)  BY <2>4, ExecuteStep DEF IInv
    <3>2. key'.by = c  BY <2>4, <3>1 DEF Serves, Effect
    <3> QED  BY <2>1, <3>1, <3>2, ServesPending
  <2> QED  BY <2>3, <2>4, KeyUnlessExecuted
<1>2. ASSUME NEW k \in Contexts, NEW q \in Replies, Serves(w, k, q), q.type # "ERROR"
      PROVE  key'.by # Nobody /\ key'.by \notin before'[w]
  <2>1. w \in Emitted /\ w # Nobody /\ w \notin before[w]  BY <1>2, ServesPending
  <2>2. q # Reply("ERROR", Nobody)  BY <1>2 DEF Reply
  <2>3. key'.by = w  BY <1>2, <2>2 DEF Serves, Effect
  <2> QED  BY <2>1, <2>3, BeforeStep
<1> QED  BY <1>1, <1>2, ExecutedStep

\* What a write had overwritten stays so.
LEMMA NotOverwrittenStays ==
  ASSUME IInv, [Next]_vars, NEW g \in Emitted, NEW w \in before[g], NEW by,
         NotOverwritten(by, w)
  PROVE  Op[w] \in {"SET", "DEL"} => by # Nobody /\ by \notin before'[w]
<1>1. w \in Executed  BY DEF Executed
<1>2. before'[w] = before[w]  BY <1>1, ExecutedEmitted, BeforeStep
<1> QED  BY <1>2 DEF NotOverwritten

LEMMA NewStep == IInv /\ [Next]_vars => RepliesAreNew'
<1> SUFFICES ASSUME IInv, [Next]_vars, NEW k \in Contexts, NEW i \in DOMAIN conn'[k].replies,
                    Op[conn'[k].sent[i]] = "GET", conn'[k].replies[i].type # "ERROR",
                    NEW w \in before'[conn'[k].sent[i]], Op[w] \in {"SET", "DEL"}
             PROVE  conn'[k].replies[i].by # Nobody /\ conn'[k].replies[i].by \notin before'[w]
  BY DEF RepliesAreNew, NotOverwritten
<1>1. PICK d, q : d = conn'[k].sent[i] /\ q = conn'[k].replies[i]  OBVIOUS
<1>2. Flies(d, q)'  BY <1>1 DEF Flies
<1>3. CASE Flies(d, q)
  <2>1. d \in Emitted /\ before'[d] = before[d]  BY <1>3, FliesNow, BeforeStep
  <2>2. w \in before[d]  BY <1>1, <2>1
  <2>3. NotOverwritten(q.by, w)  BY <1>1, <1>3, <2>2, FliesNow
  <2>4. q.by # Nobody /\ q.by \notin before'[w]  BY <2>1, <2>2, <2>3, NotOverwrittenStays
  <2> QED  BY <1>1, <2>4
<1>4. ASSUME NEW l \in Contexts, Serves(d, l, q)
      PROVE  q.by # Nobody /\ q.by \notin before'[w]
  <2>1. d \in Emitted /\ before'[d] = before[d]  BY <1>4, ServesPending, BeforeStep
  <2>2. w \in before[d]  BY <1>1, <2>1
  <2>3. q = Answer(d)  BY <1>1, <1>4 DEF Serves, Effect, Reply
  <2>4. q.by = key.by  BY <1>1, <2>3 DEF Answer, Reply
  <2>5. w \in Executed  BY <2>1, <2>2 DEF Executed
  <2>6. NotOverwritten(q.by, w)  BY <2>4, <2>5 DEF IInv, KeyIsNew
  <2> QED  BY <2>1, <2>2, <2>6, NotOverwrittenStays
<1> QED  BY <1>1, <1>2, <1>3, <1>4, FliesStep

LEMMA SeesStep == IInv /\ [Next]_vars => SeesOwnWrites'
<1> SUFFICES ASSUME IInv, [Next]_vars, NEW g \in ended', Op[g] = "GET",
                    reply_status_'[g] \in {"okay", "nil"}, NEW w \in before'[g],
                    Op[w] \in {"SET", "DEL"}
             PROVE  seen'[g].by # Nobody /\ seen'[g].by \notin before'[w]
  BY DEF SeesOwnWrites
<1>0. TypeOK /\ TypeOK' /\ SeesOwnWrites  BY TypeStep DEF IInv
<1>1. g \in Commands  BY <1>0 DEF TypeOK
<1>2. ASSUME reply_status_[g] = reply_status_'[g], seen'[g] = seen[g]
      PROVE  seen'[g].by # Nobody /\ seen'[g].by \notin before'[w]
  <2>1. g \in ended /\ g \in Emitted  BY <1>1, <1>2, ConfirmedNow
  <2>2. w \in before[g]  BY <2>1, BeforeStep
  <2>3. NotOverwritten(seen[g].by, w)
    BY <1>0, <1>2, <2>1, <2>2 DEF SeesOwnWrites, NotOverwritten
  <2> QED  BY <1>2, <2>1, <2>2, <2>3, NotOverwrittenStays
<1>3. CASE Quiet  BY <1>1, <1>2, <1>3 DEF Quiet
<1>4. ASSUME NEW k \in Contexts, ReplyArrives(k)
      PROVE  seen'[g].by # Nobody /\ seen'[g].by \notin before'[w]
  <2>0. PICK c, r : c = Head(conn[k].sent) /\ r = Head(conn[k].replies)  OBVIOUS
  <2>1. Told(c, r) /\ conn[k].replies # <<>>  BY <1>4, <2>0, ReplyStep
  <2>2. Flies(c, r)  BY <2>0, <2>1, ReplyFlies
  <2>3. CASE g # c \/ c \notin queue_wait_  BY <1>1, <1>2, <2>1, <2>3 DEF Told
  <2>4. CASE g = c /\ c \in queue_wait_
    <3>1. reply_status_'[g] = Status(c, r) /\ seen'[g] = r  BY <2>1, <2>4 DEF Told
    <3>2. r.type # "ERROR"  BY <3>1 DEF Status, Expected, ReplyT
    <3>3. g \in Emitted  BY <2>2, <2>4, FliesNow
    <3>4. w \in before[g]  BY <3>3, BeforeStep
    <3>5. NotOverwritten(r.by, w)  BY <2>2, <2>4, <3>2, <3>4, FliesNow
    <3>6. r.by # Nobody /\ r.by \notin before'[w]  BY <3>3, <3>4, <3>5, NotOverwrittenStays
    <3> QED  BY <3>1, <3>6
  <2> QED  BY <2>3, <2>4
<1> QED  BY <1>3, <1>4, QuietStep

-----------------------------------------------------------------------------
(***************************************************************************)
(* The invariant and what follows from it.                                 *)
(***************************************************************************)
LEMMA InitIInv == Init => IInv
<1> SUFFICES ASSUME Init PROVE IInv
  OBVIOUS
<1>0. <<>> \in Seq(Commands) /\ <<>> \in Seq(Replies)  OBVIOUS
<1>1. \A k \in Contexts : /\ conn[k] = NewConn("free") /\ left[k] = <<>>
  BY DEF Init
<1>2. \A k \in Contexts : /\ conn[k].state = "free" /\ conn[k].sent = <<>> /\ conn[k].replies = <<>>
                          /\ ToSet(conn[k].sent) = {} /\ Distinct(conn[k].sent)
                          /\ ToSet(left[k]) = {} /\ Distinct(left[k])
  BY <1>1, EmptySet, NewConnType DEF States
<1>3. /\ queue_ready_ = <<>> /\ running = <<>>
      /\ ToSet(queue_ready_) = {} /\ Distinct(queue_ready_)
      /\ ToSet(running) = {} /\ Distinct(running)
  BY EmptySet DEF Init
<1>4. Emitted = {}  BY DEF Init, Emitted
<1>5. TypeOK
  <2>1. conn \in [Contexts -> Conns]
    <3>1. NewConn("free") \in Conns  BY NewConnType DEF States
    <3>2. conn = [k \in Contexts |-> NewConn("free")]  BY DEF Init
    <3> QED  BY <3>1, <3>2
  <2>2. /\ reply_status_ \in [Commands -> RedisCmdStatus] /\ seen \in [Commands -> Replies]
        /\ left \in [Contexts -> Seq(Commands)]
    BY <1>0, ReplyTypes DEF Init, RedisCmdStatus
  <2>3. key \in [set : BOOLEAN, by : Commands \cup {Nobody}]  BY DEF Init
  <2>4. DOMAIN before \subseteq Commands /\ before \in [DOMAIN before -> SUBSET Commands]
    BY DEF Init
  <2>5. faults \in 0 .. MaxFaults
    <3>1. MaxFaults \in Nat  BY AsyncRedisAssumption
    <3> QED  BY <3>1 DEF Init
  <2> QED  BY <1>0, <2>1, <2>2, <2>3, <2>4, <2>5 DEF Init, TypeOK, Conns, States
<1>6. ContextIsAlive /\ OthersWereClosed  BY <1>2 DEF Init, ContextIsAlive, OthersWereClosed
<1>7. HeldOnce  BY <1>2, <1>3, <1>4 DEF HeldOnce, Carried
<1>8. InTurn  BY <1>2 DEF InTurn
<1>9. SentWaits  BY <1>2 DEF Init, SentWaits
<1>10. ConfirmedIsOver  BY <1>4 DEF Init, ConfirmedIsOver
<1>11. \A k \in Contexts : DOMAIN conn[k].replies = {}  BY <1>2
<1>12. RepliesFit /\ RepliesAreNew  BY <1>11 DEF RepliesFit, RepliesAreNew
<1>13. Executed = {}
  <2>1. Okay = {}  BY DEF Init, Okay
  <2>2. \A k \in Contexts : Served(k) = {}  BY <1>11 DEF Served
  <2> QED  BY <1>4, <2>1, <2>2 DEF Executed
<1>14. KeyIsNew  BY <1>13 DEF KeyIsNew
<1>15. SeesOwnWrites  BY DEF Init, SeesOwnWrites
<1> QED  BY <1>5, <1>6, <1>7, <1>8, <1>9, <1>10, <1>12, <1>14, <1>15 DEF IInv

LEMMA NextIInv == IInv /\ [Next]_vars => IInv'
BY TypeStep, AliveStep, HeldStep, TurnStep, WaitsStep, ConfirmedStep, FitStep, KeyStep,
   NewStep, SeesStep DEF IInv

\* The inductive invariant holds in every state of the client and the server.
THEOREM Invariance == Spec => []IInv
BY InitIInv, NextIInv, PTL DEF Spec

\* The variables of the client, its connections and the server keep their types.
THEOREM TypeCorrect == Spec => []TypeOK
<1>1. IInv => TypeOK  BY DEF IInv
<1> QED  BY <1>1, Invariance, PTL

\* However connections fail, break and are closed, context_ never points to a
\* context hiredis has freed or is closing; the program only dies in onConnected()
\* or redisCommandCallback() after close() or a timeout left commands behind.
THEOREM CommandsGoToLiveContexts == Spec => []ContextIsAlive
<1>1. IInv => ContextIsAlive  BY DEF IInv
<1> QED  BY <1>1, Invariance, PTL

\* A GET that processReply() accepts has seen every write that was told okay
\* before it was emitted, over whichever connections they went.
THEOREM ReadsSeeConfirmedWrites == Spec => []SeesOwnWrites
<1>1. IInv => SeesOwnWrites  BY DEF IInv
<1> QED  BY <1>1, Invariance, PTL

-----------------------------------------------------------------------------
(***************************************************************************)
(* AsyncMyCache on its scheduler.                                          *)
(***************************************************************************)
LEMMA Calls ==
    /\ Cache!Rpcs \subseteq Nat /\ 0 \notin Cache!Rpcs
    /\ \A r \in Cache!Rpcs : Cache!Parts(r) \subseteq Cache!Rpcs
    /\ \A r \in Cache!Rpcs : parent[r] # 0 =>
          /\ parent[r] \in Cache!Rpcs /\ parent[parent[r]] = 0
          /\ r \in Cache!Parts(parent[r])
          /\ ~Cache!Composite(r) /\ Cache!Composite(parent[r])
    /\ \A r \in Cache!Rpcs : ~Cache!Composite(r) => Cache!Parts(r) = {}
    /\ \A r \in Cache!Rpcs : \A q \in Cache!Parts(r) : parent[q] = r /\ r # 0
BY RpcAssumption DEF Cache!CallShapes, Cache!Rpcs, Cache!Parts, Cache!Composite

Below == {s \in Nat \X Nat : s[1] < s[2]}

LEMMA LeastIs ==
    ASSUME NEW S, S \subseteq Nat, S # {}
    PROVE  Cache!Min(S) \in S /\ \A x \in S : Cache!Min(S) <= x
<1>1. IsWellFoundedOn(Below, Nat)  BY NatLessThanWellFounded DEF OpToRel, Below
<1>2. PICK x \in S : \A y \in S : ~(<<y, x>> \in Below)  BY <1>1, WFMin
<1>3. ASSUME NEW y \in S PROVE x <= y
  <2>1. ~(<<y, x>> \in Below)  BY <1>2
  <2> QED  BY <2>1 DEF Below
<1> QED  BY <1>3 DEF Cache!Min

LEMMA MoreIs ==
    ASSUME NEW count \in [Cache!Rpcs -> Nat], NEW S
    PROVE  /\ Cache!More(count, S) \in [Cache!Rpcs -> Nat]
           /\ \A r \in Cache!Rpcs :
                Cache!More(count, S)[r] = IF r \in S THEN count[r] + 1 ELSE count[r]
BY DEF Cache!More

LEMMA RequestsIs ==
    ASSUME Cache!Shapes, NEW r \in Cache!Rpcs
    PROVE  /\ Cache!Requests(r) \subseteq children[r] /\ Cache!Requests(r) \subseteq Cache!Parts(r)
           /\ Kind[r] = "serials" =>
                 \A q \in Cache!Requests(r) : \A c \in children[r] : q <= c
<1>1. children[r] \subseteq Cache!Parts(r) /\ children[r] \subseteq Nat
  BY Calls DEF Cache!Shapes
<1>2. CASE Kind[r] = "serials" /\ children[r] # {}
  <2>1. Cache!Min(children[r]) \in children[r] /\ \A x \in children[r] : Cache!Min(children[r]) <= x
    BY <1>1, <1>2, LeastIs
  <2> QED  BY <1>1, <1>2, <2>1 DEF Cache!Requests, Cache!triggerFirstRequest
<1>3. CASE ~(Kind[r] = "serials" /\ children[r] # {})
  BY <1>1, <1>3 DEF Cache!Requests, Cache!triggerFirstRequest
<1> QED  BY <1>2, <1>3

(* What a reply to r leads to, if r is not a part, and in its parent if it is. *)
LEMMA ReplyAlone ==
    ASSUME Cache!Shapes, NEW r \in Cache!Rpcs, parent[r] = 0
    PROVE  Cache!childCalled(r) = children /\ Cache!NextOf(r) = {} /\ Cache!Completed(r) = {}
<1>1. wait \subseteq Cache!Rpcs /\ 0 \notin wait  BY Calls DEF Cache!Shapes, Cache!TypeOK
<1> QED  BY <1>1 DEF Cache!childCalled, Cache!NextOf, Cache!Completed

LEMMA NextIs ==
    ASSUME Cache!Shapes, NEW r \in Cache!Rpcs, parent[r] # 0
    PROVE  LET p == parent[r] IN
           /\ Cache!NextOf(r) \subseteq children[p] \ {r}
           /\ Kind[p] # "serials" => Cache!NextOf(r) = {}
           /\ \A n \in Cache!NextOf(r) : \A c \in children[p] \ {r} : n <= c
           /\ Cache!childCalled(r) = children
              \/ Cache!childCalled(r) = [children EXCEPT ![p] = children[p] \ {r}]
<1> DEFINE p == parent[r]
           C == children[p]
<1>1. p \in Cache!Rpcs /\ C \subseteq Cache!Parts(p) /\ C \subseteq Nat
  BY Calls DEF Cache!Shapes, Cache!TypeOK
<1>2. C \ {r} # {} => /\ Cache!Min(C \ {r}) \in C \ {r}
                      /\ \A x \in C \ {r} : Cache!Min(C \ {r}) <= x
  BY <1>1, LeastIs
<1>3. Cache!NextOf(r) \subseteq C \ {r}
  BY <1>1, <1>2 DEF Cache!NextOf
<1>4. \A n \in Cache!NextOf(r) : \A c \in C \ {r} : n <= c
  BY <1>2 DEF Cache!NextOf
<1>5. Kind[p] # "serials" => Cache!NextOf(r) = {}  BY DEF Cache!NextOf
<1>6. Cache!childCalled(r) = children
      \/ Cache!childCalled(r) = [children EXCEPT ![p] = C \ {r}]
  BY DEF Cache!childCalled
<1> QED  BY <1>3, <1>4, <1>5, <1>6

LEMMA ReplyInParent ==
    ASSUME Cache!Shapes, NEW r \in Cache!Rpcs, parent[r] # 0, r \in children[parent[r]],
           Kind[parent[r]] = "serials" => \A c \in children[parent[r]] : r <= c
    PROVE  LET p == parent[r] IN
           /\ Cache!childCalled(r) = [children EXCEPT ![p] = children[p] \ {r}]
           /\ Cache!Completed(r) = IF p \in wait /\ children[p] = {r} THEN {p} ELSE {}
<1> DEFINE p == parent[r]
           C == children[p]
<1>1. p \in Cache!Rpcs /\ C \subseteq Cache!Parts(p) /\ C \subseteq Nat
      /\ DOMAIN children = Cache!Rpcs
  BY Calls DEF Cache!Shapes, Cache!TypeOK
<1>2. Cache!Min(C) \in C /\ \A x \in C : Cache!Min(C) <= x
  BY <1>1, LeastIs
<1>3. Kind[p] = "serials" => r = Cache!Min(C)  BY <1>1, <1>2
<1>4. Cache!childCalled(r) = [children EXCEPT ![p] = C \ {r}]
  BY <1>3 DEF Cache!childCalled
<1>5. Cache!childCalled(r)[p] = C \ {r}  BY <1>1, <1>4
<1>6. Cache!Completed(r) = IF p \in wait /\ C = {r} THEN {p} ELSE {}
  BY <1>5 DEF Cache!Completed
<1> QED  BY <1>4, <1>6

LEMMA TriggerTypes ==
    ASSUME Cache!TypeOK, NEW S, S \subseteq Cache!Rpcs, NEW out, out \subseteq S,
           Cache!triggerRequest(S, out)
    PROVE  /\ by_time' \subseteq Cache!Rpcs /\ sent' \in [Cache!Rpcs -> Nat]
           /\ \A r \in Cache!Rpcs : Cache!Composite(r) => sent'[r] = sent[r]
<1>1. sent \in [Cache!Rpcs -> Nat]  BY DEF Cache!TypeOK
<1>2. sent' \in [Cache!Rpcs -> Nat]
      /\ \A r \in Cache!Rpcs : Cache!Composite(r) => sent'[r] = sent[r]
  BY <1>1, MoreIs DEF Cache!triggerRequest
<1> QED  BY <1>2 DEF Cache!triggerRequest, Cache!TypeOK

LEMMA ShapesStep ==
    ASSUME Cache!Shapes, Cache!Next
    PROVE  Cache!Shapes'
<1>1. /\ made \subseteq Cache!Rpcs /\ ready \subseteq made
      /\ wait \subseteq Cache!Rpcs /\ by_time \subseteq Cache!Rpcs
      /\ children \in [Cache!Rpcs -> SUBSET Cache!Rpcs]
      /\ expired \subseteq TimedRpcs /\ zeroed \subseteq Cache!Rpcs
      /\ pass \in {"poll", "timeouts"} /\ scan \subseteq Cache!Rpcs
      /\ sent \in [Cache!Rpcs -> Nat] /\ replies \in [Cache!Rpcs -> Nat]
      /\ called \in [Cache!Rpcs -> Nat] /\ timeouted \in [Cache!Rpcs -> Nat]
      /\ canceled \in [Cache!Rpcs -> Nat]
      /\ throws \in 0 .. MaxThrows /\ lost \in 0 .. MaxLost
      /\ \A r \in made : parent[r] = 0
      /\ \A r \in Cache!Rpcs : children[r] \subseteq Cache!Parts(r)
      /\ \A r \in Cache!Rpcs : Cache!Composite(r) => sent[r] = 0 /\ replies[r] = 0
  BY DEF Cache!Shapes, Cache!TypeOK
<1>2. TimedRpcs \subseteq Cache!Rpcs /\ MaxThrows \in Nat /\ MaxLost \in Nat
      /\ Cache!Parts(0) \subseteq Cache!Rpcs
  BY RpcAssumption DEF Cache!CallShapes, Cache!Rpcs, Cache!Parts
<1> USE DEF Cache!TypeOK
<1>3. ASSUME NEW r \in Cache!Rpcs, Cache!call(r) PROVE Cache!Shapes'
  <2>1. children' = [children EXCEPT ![r] = Cache!Parts(r)] /\ ready' = ready \cup {r}
        /\ made' = made \cup {r} /\ parent[r] = 0
        /\ UNCHANGED <<wait, by_time, expired, zeroed, pass, scan, sent, replies, called,
                       timeouted, canceled, throws, lost>>
    BY <1>3 DEF Cache!call, Cache!Schedule, Cache!setChildren, Cache!outcome
  <2> QED  BY <1>1, <2>1, Calls DEF Cache!Shapes
<1>4. ASSUME Cache!run PROVE Cache!Shapes'
  <2> DEFINE R == ready \cup UNION {Cache!Requests(r) : r \in ready}
  <2>1. R \subseteq Cache!Rpcs
    <3>1. \A r \in ready : r \in Cache!Rpcs  BY <1>1
    <3>2. \A r \in ready : Cache!Requests(r) \subseteq Cache!Rpcs
      BY <3>1, RequestsIs, Calls
    <3> QED  BY <3>1, <3>2
  <2>2. UNCHANGED <<made, children, expired, zeroed, scan, replies, called, timeouted,
                    canceled, lost>> /\ pass' = "poll"
    BY <1>4 DEF Cache!run, Cache!outcome
  <2>3. \E S \in SUBSET R : \E out \in SUBSET S :
           /\ Cache!triggerRequest(S, out)
           /\ wait' = wait \cup S /\ ready' \subseteq ready
           /\ throws' = throws \/ (throws < MaxThrows /\ throws' = throws + 1)
    <3>1. CASE Cache!triggerRequest(R, R) /\ wait' = wait \cup R /\ ready' = {}
               /\ UNCHANGED throws
      BY <3>1
    <3>2. CASE \E f \in R :
                  /\ ~Cache!Composite(f) /\ throws < MaxThrows
                  /\ throws' = throws + 1
                  /\ Cache!triggerRequest({r \in R : r <= f}, {r \in R : r < f})
                  /\ wait' = wait \cup {r \in R : r <= f}
                  /\ UNCHANGED ready
      <4>1. PICK f \in R :
                  /\ throws < MaxThrows /\ throws' = throws + 1
                  /\ Cache!triggerRequest({r \in R : r <= f}, {r \in R : r < f})
                  /\ wait' = wait \cup {r \in R : r <= f}
                  /\ UNCHANGED ready
        BY <3>2
      <4>2. {r \in R : r < f} \subseteq {r \in R : r <= f}
        BY <2>1 DEF Cache!Rpcs
      <4> QED  BY <4>1, <4>2
    <3> QED  BY <1>4, <3>1, <3>2 DEF Cache!run
  <2> HIDE DEF R
  <2>7. PICK S \in SUBSET R : \E out \in SUBSET S :
           /\ Cache!triggerRequest(S, out)
           /\ wait' = wait \cup S /\ ready' \subseteq ready
           /\ throws' = throws \/ (throws < MaxThrows /\ throws' = throws + 1)
    BY <2>3
  <2>4. PICK out \in SUBSET S :
           /\ Cache!triggerRequest(S, out)
           /\ wait' = wait \cup S /\ ready' \subseteq ready
           /\ throws' = throws \/ (throws < MaxThrows /\ throws' = throws + 1)
    BY <2>7
  <2>5. /\ by_time' \subseteq Cache!Rpcs /\ sent' \in [Cache!Rpcs -> Nat]
        /\ \A r \in Cache!Rpcs : Cache!Composite(r) => sent'[r] = sent[r]
    BY <1>1, <2>1, <2>4, TriggerTypes DEF Cache!Shapes
  <2>6. throws' \in 0 .. MaxThrows  BY <1>1, <1>2, <2>4
  <2> QED  BY <1>1, <2>1, <2>2, <2>4, <2>5, <2>6 DEF Cache!Shapes
<1>5. ASSUME NEW r \in Cache!Rpcs, Cache!onRecv(r) PROVE Cache!Shapes'
  <2>1. replies[r] > 0 /\ replies' = [replies EXCEPT ![r] = replies[r] - 1]
        /\ UNCHANGED <<made, expired, zeroed, timeouted, canceled, lost>>
    BY <1>5 DEF Cache!onRecv
  <2>2. replies' \in [Cache!Rpcs -> Nat]
        /\ \A q \in Cache!Rpcs : Cache!Composite(q) => replies'[q] = 0
    BY <1>1, <2>1
  <2>3. CASE r \in wait
    <3>1. Cache!triggerCall(r)  BY <1>5, <2>3 DEF Cache!onRecv
    <3>2. Cache!NextOf(r) \subseteq Cache!Rpcs
      <4>1. CASE parent[r] = 0  BY <4>1, ReplyAlone
      <4>2. CASE parent[r] # 0  BY <1>1, <4>2, NextIs, Calls
      <4> QED  BY <4>1, <4>2
    <3>3. children' = Cache!childCalled(r) /\ ready' = ready
          /\ called' = Cache!More(called, {r} \cup Cache!Completed(r))
      BY <3>1 DEF Cache!triggerCall
    <3>4. called' \in [Cache!Rpcs -> Nat]  BY <1>1, <3>3, MoreIs
    <3>5. children' \in [Cache!Rpcs -> SUBSET Cache!Rpcs]
          /\ \A q \in Cache!Rpcs : children'[q] \subseteq Cache!Parts(q)
      <4>1. CASE parent[r] = 0  BY <1>1, <3>3, <4>1, ReplyAlone
      <4>2. CASE parent[r] # 0
        <5>1. parent[r] \in Cache!Rpcs  BY <4>2, Calls
        <5>2. children' = children
              \/ children' = [children EXCEPT ![parent[r]] = children[parent[r]] \ {r}]
          BY <3>3, <4>2, NextIs
        <5> QED  BY <1>1, <5>1, <5>2
      <4> QED  BY <4>1, <4>2
    <3>6. \E out \in SUBSET Cache!NextOf(r) : Cache!triggerRequest(Cache!NextOf(r), out)
      BY <3>1 DEF Cache!triggerCall
    <3>7. /\ by_time' \subseteq Cache!Rpcs /\ sent' \in [Cache!Rpcs -> Nat]
          /\ \A q \in Cache!Rpcs : Cache!Composite(q) => sent'[q] = sent[q]
      BY <3>2, <3>6, TriggerTypes DEF Cache!Shapes
    <3>8. /\ wait' \subseteq Cache!Rpcs /\ scan' \subseteq Cache!Rpcs
          /\ pass' \in {"poll", "timeouts"} /\ throws' \in 0 .. MaxThrows
      BY <1>1, <1>2, <3>1, <3>2, <3>7 DEF Cache!triggerCall
    <3> QED  BY <1>1, <2>1, <2>2, <3>3, <3>4, <3>5, <3>7, <3>8 DEF Cache!Shapes
  <2>4. CASE r \notin wait
    <3>1. Cache!Ignored /\ pass' = "timeouts" /\ scan' = by_time
      BY <1>5, <2>4 DEF Cache!onRecv
    <3> QED  BY <1>1, <2>1, <2>2, <3>1 DEF Cache!Ignored, Cache!queues, Cache!Shapes
  <2> QED  BY <2>3, <2>4
<1>6. ASSUME Cache!onIdle PROVE Cache!Shapes'
  BY <1>1, <1>6 DEF Cache!onIdle, Cache!queues, Cache!outcome, Cache!Shapes
<1>7. ASSUME Cache!CheckTimeout PROVE Cache!Shapes'
  <2>1. PICK r : /\ scan' = scan \ {r}
                 /\ IF r \in wait /\ Cache!isTimeout(r) THEN Cache!triggerTimeout(r)
                    ELSE UNCHANGED <<timeouted, canceled, wait, children, zeroed>>
                 /\ by_time' \subseteq by_time
    BY <1>7 DEF Cache!CheckTimeout
  <2>2. UNCHANGED <<made, ready, expired, pass, sent, replies, called, throws, lost>>
    BY <1>7 DEF Cache!CheckTimeout
  <2>3. ASSUME r \in wait, Cache!triggerTimeout(r)
        PROVE  /\ timeouted' \in [Cache!Rpcs -> Nat] /\ canceled' \in [Cache!Rpcs -> Nat]
               /\ wait' \subseteq Cache!Rpcs /\ zeroed' \subseteq Cache!Rpcs
               /\ children' = [children EXCEPT ![r] = {}]
    <3>1. r \in Cache!Rpcs /\ parent[r] \in Cache!Rpcs \cup {0}  BY <1>1, <2>3, Calls
    <3>2. timeouted' \in [Cache!Rpcs -> Nat] /\ canceled' \in [Cache!Rpcs -> Nat]
      BY <1>1, <2>3, MoreIs DEF Cache!triggerTimeout, Cache!canceledAll
    <3> QED  BY <1>1, <2>3, <3>1, <3>2
             DEF Cache!triggerTimeout, Cache!canceledAll, Cache!childTimeouted
  <2>4. CASE r \in wait /\ Cache!isTimeout(r)
    BY <1>1, <2>1, <2>2, <2>3, <2>4 DEF Cache!Shapes
  <2>5. CASE ~(r \in wait /\ Cache!isTimeout(r))
    BY <1>1, <2>1, <2>2, <2>5 DEF Cache!Shapes
  <2> QED  BY <2>4, <2>5
<1>8. ASSUME NEW r \in Cache!Rpcs, Cache!Elapse(r) PROVE Cache!Shapes'
  BY <1>1, <1>8 DEF Cache!Elapse, Cache!queues, Cache!outcome, Cache!Shapes
<1>9. ASSUME NEW r \in Cache!Rpcs, Cache!Answer(r) \/ Cache!Lose(r) PROVE Cache!Shapes'
  <2>1. sent[r] > 0 /\ sent' = [sent EXCEPT ![r] = sent[r] - 1]
        /\ UNCHANGED <<made, ready, wait, by_time, children, expired, zeroed, pass, scan,
                       called, timeouted, canceled, throws>>
    BY <1>9 DEF Cache!Answer, Cache!Lose, Cache!queues, Cache!outcome
  <2>2. ~Cache!Composite(r)  BY <1>1, <2>1
  <2>3. /\ sent' \in [Cache!Rpcs -> Nat]
        /\ \A q \in Cache!Rpcs : Cache!Composite(q) => sent'[q] = 0
    BY <1>1, <2>1
  <2>4. replies' \in [Cache!Rpcs -> Nat] /\ lost' \in 0 .. MaxLost
        /\ \A q \in Cache!Rpcs : Cache!Composite(q) => replies'[q] = 0
    <3>1. CASE Cache!Answer(r)
      BY <1>1, <2>2, <3>1, MoreIs DEF Cache!Answer
    <3>2. CASE Cache!Lose(r)  BY <1>1, <1>2, <3>2 DEF Cache!Lose
    <3> QED  BY <1>9, <3>1, <3>2
  <2> QED  BY <1>1, <2>1, <2>3, <2>4 DEF Cache!Shapes
<1> QED  BY <1>3, <1>4, <1>5, <1>6, <1>7, <1>8, <1>9 DEF Cache!Next, Cache!Loop

(***************************************************************************)
(* The outcome of every RPC.                                               *)
(***************************************************************************)
Fates == <<made, ready, wait, children, called, timeouted, canceled>>

LEMMA NoFate ==
    ASSUME Cache!Outcomes, UNCHANGED Fates
    PROVE  Cache!Outcomes'
<1>1. \A r, p : /\ Cache!CallOK(r)' <=> Cache!CallOK(r)
                /\ Cache!PartOK(r, p)' <=> Cache!PartOK(r, p)
                /\ Cache!SeriesOK(r, p)' <=> Cache!SeriesOK(r, p)
  BY DEF Fates, Cache!CallOK, Cache!PartOK, Cache!SeriesOK
<1> QED  BY <1>1 DEF Cache!Outcomes

LEMMA OutcomesOf ==
    ASSUME Cache!Outcomes
    PROVE  /\ \A r \in Cache!Rpcs : parent[r] = 0 => Cache!CallOK(r)
           /\ \A r \in Cache!Rpcs : parent[r] # 0 =>
                 /\ Cache!PartOK(r, parent[r]) /\ Cache!CallOK(parent[r])
                 /\ Kind[parent[r]] = "serials" => Cache!SeriesOK(r, parent[r])
BY Calls DEF Cache!Outcomes

LEMMA CallStep ==
    ASSUME Cache!Shapes, Cache!Outcomes, NEW n \in Cache!Rpcs, Cache!call(n)
    PROVE  Cache!Outcomes'
<1>1. /\ parent[n] = 0 /\ n \notin made /\ made' = made \cup {n} /\ ready' = ready \cup {n}
      /\ children' = [children EXCEPT ![n] = Cache!Parts(n)]
      /\ UNCHANGED <<wait, called, timeouted, canceled>>
  BY DEF Cache!call, Cache!Schedule, Cache!setChildren, Cache!outcome
<1>2. /\ children \in [Cache!Rpcs -> SUBSET Cache!Rpcs] /\ ready \subseteq made
      /\ \A r \in Cache!Rpcs : children[r] \subseteq Cache!Parts(r)
      /\ called \in [Cache!Rpcs -> Nat] /\ timeouted \in [Cache!Rpcs -> Nat]
      /\ canceled \in [Cache!Rpcs -> Nat]
  BY DEF Cache!Shapes, Cache!TypeOK
<1>3. \A r \in Cache!Rpcs : children'[r] = IF r = n THEN Cache!Parts(n) ELSE children[r]
  BY <1>1, <1>2
<1>4. Cache!CallOK(n)  BY <1>1, OutcomesOf
<1>5. ASSUME NEW r \in Cache!Rpcs, parent[r] = 0 PROVE Cache!CallOK(r)'
  <2>1. Cache!CallOK(r)  BY <1>5, OutcomesOf
  <2> QED  BY <1>1, <1>2, <1>3, <1>4, <2>1 DEF Cache!CallOK
<1>6. ASSUME NEW r \in Cache!Rpcs, NEW p \in Cache!Rpcs, p = parent[r], p # 0
      PROVE  /\ Cache!PartOK(r, p)'
             /\ Kind[p] = "serials" => Cache!SeriesOK(r, p)'
  <2>1. /\ Cache!PartOK(r, p) /\ r \in Cache!Parts(p)
        /\ Kind[p] = "serials" => Cache!SeriesOK(r, p)
    BY <1>6, OutcomesOf, Calls
  <2>2. n \notin wait /\ called[n] = 0 /\ timeouted[n] = 0  BY <1>1, <1>4 DEF Cache!CallOK
  <2>3. CASE p = n
    <3>1. called[r] = 0 /\ canceled[r] = 0 /\ timeouted[r] = 0 /\ r \notin wait
      BY <1>1, <2>1, <2>2, <2>3 DEF Cache!PartOK
    <3>2. \A q \in Cache!Parts(p) : q \in Cache!Rpcs /\ parent[q] = p  BY Calls
    <3>3. \A q \in Cache!Parts(p) : timeouted[q] = 0 /\ q \notin wait
      BY <1>1, <1>6, <2>2, <2>3, <3>2, OutcomesOf DEF Cache!PartOK
    <3> QED  BY <1>1, <1>2, <1>3, <2>1, <2>2, <2>3, <3>1, <3>3
             DEF Cache!PartOK, Cache!SeriesOK
  <2>4. CASE p # n
    <3>1. children'[p] = children[p]  BY <1>3, <2>4
    <3> QED  BY <1>1, <2>1, <2>4, <3>1 DEF Cache!PartOK, Cache!SeriesOK
  <2> QED  BY <2>3, <2>4
<1> QED  BY <1>5, <1>6, Calls DEF Cache!Outcomes

LEMMA RunStep ==
    ASSUME Cache!Shapes, Cache!Outcomes, Cache!run, throws = 0, throws' = 0
    PROVE  Cache!Outcomes'
<1> DEFINE R == ready \cup UNION {Cache!Requests(r) : r \in ready}
<1>1. /\ wait' = wait \cup R /\ ready' = {}
      /\ UNCHANGED <<made, children, called, timeouted, canceled>>
  BY DEF Cache!run, Cache!outcome
<1>2. /\ children \in [Cache!Rpcs -> SUBSET Cache!Rpcs]
      /\ ready \subseteq made /\ made \subseteq Cache!Rpcs /\ wait \subseteq Cache!Rpcs
      /\ \A r \in made : parent[r] = 0
      /\ \A r \in Cache!Rpcs : children[r] \subseteq Cache!Parts(r)
      /\ called \in [Cache!Rpcs -> Nat] /\ timeouted \in [Cache!Rpcs -> Nat]
      /\ canceled \in [Cache!Rpcs -> Nat]
  BY DEF Cache!Shapes, Cache!TypeOK
<1>3. ASSUME NEW r \in Cache!Rpcs, parent[r] = 0 PROVE r \in R <=> r \in ready
  <2>1. \A t \in ready : Cache!Requests(t) \subseteq Cache!Parts(t)  BY <1>2, RequestsIs
  <2>2. \A t \in ready : r \notin Cache!Parts(t)  BY <1>2, <1>3, Calls
  <2> QED  BY <2>1, <2>2
<1>4. ASSUME NEW r \in Cache!Rpcs, NEW p \in Cache!Rpcs, p = parent[r], p # 0, r \in R
      PROVE  /\ p \in ready /\ r \in children[p]
             /\ Kind[p] = "serials" => \A c \in children[p] : r <= c
  <2>1. r \notin ready  BY <1>2, <1>4
  <2>2. PICK t \in ready : r \in Cache!Requests(t)  BY <1>4, <2>1
  <2>3. t \in Cache!Rpcs /\ r \in Cache!Parts(t)  BY <1>2, <2>2, RequestsIs
  <2>4. t = p  BY <1>4, <2>3, Calls
  <2> QED  BY <2>2, <2>3, <2>4, RequestsIs
<1> HIDE DEF R
<1>5. ASSUME NEW r \in Cache!Rpcs, parent[r] = 0 PROVE Cache!CallOK(r)'
  <2>1. Cache!CallOK(r)  BY <1>5, OutcomesOf
  <2> QED  BY <1>1, <1>2, <1>3, <1>5, <2>1 DEF Cache!CallOK
<1>6. ASSUME NEW r \in Cache!Rpcs, NEW p \in Cache!Rpcs, p = parent[r], p # 0
      PROVE  /\ Cache!PartOK(r, p)'
             /\ Kind[p] = "serials" => Cache!SeriesOK(r, p)'
  <2>1. /\ Cache!PartOK(r, p) /\ r \in Cache!Parts(p) /\ Cache!CallOK(p) /\ parent[p] = 0
        /\ Kind[p] = "serials" => Cache!SeriesOK(r, p)
    BY <1>6, OutcomesOf, Calls
  <2>2. p \in R <=> p \in ready  BY <1>3, <2>1
  <2>3. r \in R => /\ p \in ready /\ r \in children[p]
                   /\ Kind[p] = "serials" => \A c \in children[p] : r <= c
    BY <1>4, <1>6
  <2>4. p \in ready => children[p] = Cache!Parts(p) /\ p \notin wait /\ p \in made
    BY <1>2, <2>1 DEF Cache!CallOK
  <2>5. Cache!PartOK(r, p)'
    BY <1>1, <1>2, <2>1, <2>2, <2>3, <2>4 DEF Cache!PartOK
  <2>6. ASSUME Kind[p] = "serials" PROVE Cache!SeriesOK(r, p)'
    <3>1. \A c \in children[p] : c \in Nat /\ r \in Nat  BY <1>2, Calls
    <3> QED  BY <1>1, <1>2, <2>1, <2>2, <2>3, <2>4, <2>6, <3>1 DEF Cache!SeriesOK
  <2> QED  BY <2>5, <2>6
<1> QED  BY <1>5, <1>6, Calls DEF Cache!Outcomes

LEMMA CallReplyStep ==
    ASSUME Cache!Shapes, Cache!Outcomes, NEW r \in wait, ~Cache!Composite(r),
           Cache!triggerCall(r), UNCHANGED <<made, timeouted, canceled>>,
           throws = 0, throws' = 0
    PROVE  Cache!Outcomes'
<1> DEFINE p == parent[r]
           Done == {r} \cup Cache!Completed(r)
           Then == Cache!NextOf(r)
<1>1. /\ children \in [Cache!Rpcs -> SUBSET Cache!Rpcs]
      /\ ready \subseteq made /\ made \subseteq Cache!Rpcs /\ wait \subseteq Cache!Rpcs
      /\ \A q \in made : parent[q] = 0
      /\ \A q \in Cache!Rpcs : children[q] \subseteq Cache!Parts(q)
      /\ called \in [Cache!Rpcs -> Nat] /\ timeouted \in [Cache!Rpcs -> Nat]
      /\ canceled \in [Cache!Rpcs -> Nat]
  BY DEF Cache!Shapes, Cache!TypeOK
<1>2. /\ children' = Cache!childCalled(r) /\ ready' = ready
      /\ wait' = (wait \cup Then) \ Done
      /\ \A q \in Cache!Rpcs : called'[q] = IF q \in Done THEN called[q] + 1 ELSE called[q]
  <2>1. called' = Cache!More(called, Done)  BY DEF Cache!triggerCall
  <2> QED  BY <1>1, <2>1, MoreIs DEF Cache!triggerCall
<1>3. r \in Cache!Rpcs /\ Cache!Parts(r) = {}  BY <1>1, Calls
<1>4. CASE p = 0
  <2>1. children' = children /\ wait' = wait \ {r}
        /\ \A q \in Cache!Rpcs : called'[q] = IF q = r THEN called[q] + 1 ELSE called[q]
    BY <1>2, <1>3, <1>4, ReplyAlone
  <2>2. ASSUME NEW q \in Cache!Rpcs, parent[q] = 0 PROVE Cache!CallOK(q)'
    <3>1. Cache!CallOK(q)  BY <2>2, OutcomesOf
    <3> QED  BY <1>1, <1>2, <2>1, <2>2, <3>1 DEF Cache!CallOK
  <2>3. ASSUME NEW q \in Cache!Rpcs, NEW o \in Cache!Rpcs, o = parent[q], o # 0
        PROVE  /\ Cache!PartOK(q, o)'
               /\ Kind[o] = "serials" => Cache!SeriesOK(q, o)'
    <3>1. /\ Cache!PartOK(q, o) /\ q \in Cache!Parts(o)
          /\ Kind[o] = "serials" => Cache!SeriesOK(q, o)
      BY <2>3, OutcomesOf, Calls
    <3>2. q # r /\ o # r  BY <1>3, <1>4, <2>3, <3>1
    <3>3. \A c \in Cache!Parts(o) : c \in Cache!Rpcs /\ c # r  BY <1>4, <2>3, Calls
    <3> QED  BY <1>2, <2>1, <3>1, <3>2, <3>3 DEF Cache!PartOK, Cache!SeriesOK
  <2> QED  BY <2>2, <2>3, Calls DEF Cache!Outcomes
<1>5. CASE p # 0
  <2> DEFINE C == children[p]
  <2>1. /\ p \in Cache!Rpcs /\ parent[p] = 0 /\ r \in Cache!Parts(p) /\ p # r
        /\ Cache!PartOK(r, p) /\ Cache!CallOK(p)
        /\ Kind[p] = "serials" => Cache!SeriesOK(r, p)
    BY <1>3, <1>5, Calls, OutcomesOf
  <2>2. p \in wait /\ r \in C /\ timeouted[r] = 0 /\ called[r] = 0 /\ canceled[r] = 0
    BY <2>1 DEF Cache!PartOK
  <2>3. p \in made /\ p \notin ready /\ called[p] = 0 /\ timeouted[p] = 0 /\ canceled[p] = 0
    BY <2>1, <2>2 DEF Cache!CallOK
  <2>4. C \subseteq Cache!Parts(p) /\ C \subseteq Nat /\ \A c \in C : c \in Cache!Rpcs
    BY <1>1, <2>1, Calls
  <2>5. Kind[p] = "serials" => \A c \in C : r <= c
    BY <1>3, <2>1, <2>2, <2>4 DEF Cache!SeriesOK, Cache!Rpcs
  <2>6. /\ children' = [children EXCEPT ![p] = C \ {r}]
        /\ Done = IF C = {r} THEN {r, p} ELSE {r}
    BY <1>2, <1>3, <1>5, <2>2, <2>5, ReplyInParent
  <2>7. /\ Then \subseteq C \ {r}
        /\ Kind[p] # "serials" => Then = {}
        /\ \A n \in Then : \A c \in C \ {r} : n <= c
    BY <1>3, <1>5, NextIs
  <2> HIDE DEF p, Done, Then, C
  <2>8. \A q \in Cache!Rpcs : children'[q] = IF q = p THEN C \ {r} ELSE children[q]
    BY <1>1, <2>1, <2>6 DEF C
  <2>9. \A q \in Cache!Rpcs : parent[q] = 0 => q \notin Then /\ q # r
    BY <1>5, <2>1, <2>4, <2>7, Calls DEF p
  <2>10. ASSUME NEW q \in Cache!Rpcs, parent[q] = 0 PROVE Cache!CallOK(q)'
    <3>1. Cache!CallOK(q)  BY <2>10, OutcomesOf
    <3>2. q # p => q \notin Done  BY <2>6, <2>9, <2>10
    <3>3. CASE q = p
      BY <1>2, <2>3, <2>6, <2>8, <2>9, <2>10, <3>3 DEF Cache!CallOK
    <3>4. CASE q # p
      BY <1>1, <1>2, <2>8, <2>9, <2>10, <3>1, <3>2, <3>4 DEF Cache!CallOK
    <3> QED  BY <3>3, <3>4
  <2>11. ASSUME NEW q \in Cache!Rpcs, NEW o \in Cache!Rpcs, o = parent[q], o # 0, o # p
         PROVE  /\ Cache!PartOK(q, o)'
                /\ Kind[o] = "serials" => Cache!SeriesOK(q, o)'
    <3>1. /\ Cache!PartOK(q, o) /\ q \in Cache!Parts(o)
          /\ Kind[o] = "serials" => Cache!SeriesOK(q, o)
      BY <2>11, OutcomesOf, Calls
    <3>2. \A c \in Cache!Parts(o) : c \in Cache!Rpcs /\ c \notin Cache!Parts(p) /\ c # p
      BY <2>1, <2>11, Calls
    <3>3. \A c \in Cache!Parts(o) : c \notin Done /\ c \notin Then
      BY <2>1, <2>4, <2>6, <2>7, <3>2
    <3>4. o \notin Done /\ o \notin Then /\ parent[o] = 0
      BY <2>6, <2>9, <2>11, Calls
    <3>5. children'[o] = children[o] /\ children[o] \subseteq Cache!Parts(o)
      BY <1>1, <2>8, <2>11
    <3> QED  BY <1>2, <3>1, <3>2, <3>3, <3>4, <3>5 DEF Cache!PartOK, Cache!SeriesOK
  <2>12. ASSUME NEW q \in Cache!Rpcs, q \in Cache!Parts(p)
         PROVE  /\ Cache!PartOK(q, p)'
                /\ Kind[p] = "serials" => Cache!SeriesOK(q, p)'
    <3>1. /\ Cache!PartOK(q, p) /\ q # p
          /\ Kind[p] = "serials" => Cache!SeriesOK(q, p)
      BY <2>1, <2>12, OutcomesOf, Calls
    <3>2. \A c \in Cache!Parts(p) : called'[c] = IF c = r THEN 1 ELSE called[c]
      <4>1. \A c \in Cache!Parts(p) : c \in Cache!Rpcs /\ c # p  BY <2>1, Calls
      <4> QED  BY <1>2, <2>2, <2>6, <4>1
    <3>3. children'[p] = C \ {r}  BY <2>1, <2>8
    <3>4. p \in wait' <=> C # {r}  BY <1>2, <2>1, <2>2, <2>6, <2>9
    <3>5. q \in wait' <=> (q \in wait \/ q \in Then) /\ q # r  BY <1>2, <2>6, <3>1
    <3>6. q \in Then => timeouted[q] = 0
      <4> SUFFICES ASSUME q \in Then PROVE timeouted[q] = 0  OBVIOUS
      <4>1. q \in C /\ q # r /\ Kind[p] = "serials"  BY <2>7
      <4>2. r < q  BY <1>3, <2>4, <2>5, <4>1 DEF Cache!Rpcs
      <4> QED  BY <2>2, <3>1, <4>1, <4>2 DEF Cache!SeriesOK, C
    <3>7. called'[p] = IF C = {r} THEN 1 ELSE 0  BY <1>2, <2>1, <2>3, <2>6
    <3>8. Cache!PartOK(q, p)'
      <4>0. /\ called'[q] = IF q = r THEN 1 ELSE called[q]
            /\ timeouted' = timeouted /\ canceled' = canceled /\ made' = made
            /\ q \in C => called[q] = 0 /\ canceled[q] = 0
            /\ q \notin C => called[q] = 1 /\ canceled[q] = 0 /\ timeouted[q] = 0
            /\ q \in wait => q \in C /\ timeouted[q] = 0
            /\ timeouted[q] \in Nat /\ called[q] + timeouted[q] <= 1
        BY <1>1, <2>2, <2>12, <3>1, <3>2 DEF Cache!PartOK, C
      <4>1. q \in wait' => p \in wait' /\ q \in C \ {r} /\ timeouted'[q] = 0
        BY <2>7, <3>4, <3>5, <3>6, <4>0
      <4>2. q \in C \ {r} => called'[q] = 0 /\ canceled'[q] = 0  BY <4>0
      <4>3. q \notin C \ {r} => called'[q] = 1 /\ canceled'[q] = 0 /\ timeouted'[q] = 0
        BY <2>2, <4>0
      <4>4. called'[q] + timeouted'[q] <= 1 /\ called'[q] + canceled'[q] <= 1
        BY <4>0, <4>2, <4>3
      <4>5. called'[p] > 0 => called'[q] = 1  BY <3>7, <4>3
      <4>6. p \in made' /\ p \notin ready' /\ ~(timeouted'[p] > 0)  BY <1>2, <2>3
      <4> QED  BY <3>3, <4>1, <4>2, <4>3, <4>4, <4>5, <4>6 DEF Cache!PartOK
    <3>9. ASSUME Kind[p] = "serials" PROVE Cache!SeriesOK(q, p)'
      <4>1. q \in Nat /\ r \in Nat /\ Cache!Parts(p) \subseteq Nat  BY <1>3, <2>1, Calls
      <4>2. \A c \in C \ {r} : c < q => q \notin wait'
        BY <2>2, <2>4, <2>7, <3>1, <3>5, <3>9, <4>1 DEF Cache!SeriesOK, C
      <4>3. \A c \in C \ {r} : c < q /\ q \in C \ {r} => timeouted[q] = 0
        BY <3>1, <3>9 DEF Cache!SeriesOK, C
      <4>4. \A c \in C \ {r} : q \notin C \ {r} => q < c
        <5>1. q \notin C => \A c \in C : q < c  BY <2>2, <3>1, <3>9 DEF Cache!SeriesOK, C
        <5>2. q = r => \A c \in C \ {r} : q < c  BY <2>4, <2>5, <3>9, <4>1
        <5> QED  BY <5>1, <5>2
      <4>5. called'[q] > 0 => \A c \in Cache!Parts(p) : c < q => called'[c] = 1
        <5>1. called[q] > 0 => \A c \in Cache!Parts(p) : c < q => called[c] = 1
          BY <3>1, <3>9 DEF Cache!SeriesOK
        <5>2. \A c \in Cache!Parts(p) : c < r => called[c] = 1
          <6> SUFFICES ASSUME NEW c \in Cache!Parts(p), c < r PROVE called[c] = 1  OBVIOUS
          <6>1. c \notin C  BY <2>4, <2>5, <3>9, <4>1
          <6>3. c \in Cache!Rpcs /\ parent[c] = p /\ p # 0  BY <2>1, Calls
          <6>2. Cache!PartOK(c, p)  BY <6>3, OutcomesOf
          <6> QED  BY <2>2, <6>1, <6>2 DEF Cache!PartOK, C
        <5> QED  BY <2>12, <3>2, <5>1, <5>2
      <4> QED  BY <3>3, <4>2, <4>3, <4>4, <4>5 DEF Cache!SeriesOK
    <3> QED  BY <3>8, <3>9
  <2>13. ASSUME NEW q \in Cache!Rpcs, parent[q] # 0
         PROVE  /\ Cache!PartOK(q, parent[q])'
                /\ Kind[parent[q]] = "serials" => Cache!SeriesOK(q, parent[q])'
    <3>1. parent[q] \in Cache!Rpcs /\ q \in Cache!Parts(parent[q])  BY <2>13, Calls
    <3>2. CASE parent[q] = p  BY <2>12, <3>1, <3>2
    <3>3. CASE parent[q] # p  BY <2>11, <2>13, <3>1, <3>3
    <3> QED  BY <3>2, <3>3
  <2> QED  BY <2>10, <2>13 DEF Cache!Outcomes
<1> QED  BY <1>4, <1>5

LEMMA TimeoutStep ==
    ASSUME Cache!Shapes, Cache!Outcomes, NEW r \in wait, Cache!triggerTimeout(r),
           UNCHANGED <<made, ready, called>>
    PROVE  Cache!Outcomes'
<1>1. /\ children \in [Cache!Rpcs -> SUBSET Cache!Rpcs]
      /\ ready \subseteq made /\ made \subseteq Cache!Rpcs /\ wait \subseteq Cache!Rpcs
      /\ \A q \in made : parent[q] = 0
      /\ \A q \in Cache!Rpcs : children[q] \subseteq Cache!Parts(q)
      /\ called \in [Cache!Rpcs -> Nat] /\ timeouted \in [Cache!Rpcs -> Nat]
      /\ canceled \in [Cache!Rpcs -> Nat]
  BY DEF Cache!Shapes, Cache!TypeOK
<1>2. r \in Cache!Rpcs /\ children[r] \subseteq Cache!Parts(r)  BY <1>1
<1>3. /\ wait' = wait \ ({r} \cup children[r])
      /\ \A q \in Cache!Rpcs : children'[q] = IF q = r THEN {} ELSE children[q]
      /\ \A q \in Cache!Rpcs :
            /\ timeouted'[q] = IF q = r THEN timeouted[q] + 1 ELSE timeouted[q]
            /\ canceled'[q] = IF q \in children[r] THEN canceled[q] + 1 ELSE canceled[q]
  BY <1>1, MoreIs DEF Cache!triggerTimeout, Cache!canceledAll
<1>4. parent[r] # 0 => children[r] = {}  BY <1>2, Calls
<1>5. \A q \in Cache!Rpcs : parent[q] = 0 => q \notin children[r]  BY <1>2, Calls
<1>6. ASSUME NEW q \in Cache!Rpcs, parent[q] = 0 PROVE Cache!CallOK(q)'
  <2>1. Cache!CallOK(q)  BY <1>6, OutcomesOf
  <2>2. q \in wait' <=> q \in wait /\ q # r  BY <1>3, <1>5, <1>6
  <2>3. canceled'[q] = canceled[q]  BY <1>3, <1>5, <1>6
  <2>4. CASE q = r
    <3>1. /\ called[q] = 0 /\ timeouted[q] = 0 /\ canceled[q] = 0
          /\ q \in made /\ q \notin ready
      BY <2>1, <2>4 DEF Cache!CallOK
    <3>2. q \notin wait' /\ timeouted'[q] = 1  BY <1>3, <2>2, <2>4, <3>1
    <3> QED  BY <2>3, <3>1, <3>2 DEF Cache!CallOK
  <2>5. CASE q # r
    <3>1. children'[q] = children[q] /\ timeouted'[q] = timeouted[q]  BY <1>3, <2>5
    <3> QED  BY <2>1, <2>2, <2>3, <2>5, <3>1 DEF Cache!CallOK
  <2> QED  BY <2>4, <2>5
<1>7. ASSUME NEW q \in Cache!Rpcs, NEW p \in Cache!Rpcs, p = parent[q], p # 0
      PROVE  /\ Cache!PartOK(q, p)'
             /\ Kind[p] = "serials" => Cache!SeriesOK(q, p)'
  <2>1. /\ Cache!PartOK(q, p) /\ q \in Cache!Parts(p) /\ Cache!CallOK(p) /\ parent[p] = 0
        /\ p # q
        /\ Kind[p] = "serials" => Cache!SeriesOK(q, p)
    BY <1>7, OutcomesOf, Calls
  <2>2. CASE p = r
    <3>1. called[p] = 0 /\ p \in made /\ p \notin ready /\ timeouted[p] = 0
      BY <2>1, <2>2 DEF Cache!CallOK
    <3>2. q \notin wait' /\ children'[p] = {} /\ p \notin wait' /\ timeouted'[q] = timeouted[q]
      BY <1>2, <1>3, <2>1, <2>2 DEF Cache!PartOK
    <3>3. called[q] + canceled'[q] = 1
      BY <1>1, <1>3, <2>1, <2>2 DEF Cache!PartOK
    <3>4. called[q] + timeouted[q] <= 1  BY <2>1 DEF Cache!PartOK
    <3>5. Cache!PartOK(q, p)'
      BY <1>1, <3>1, <3>2, <3>3, <3>4 DEF Cache!PartOK
    <3>6. Kind[p] = "serials" => Cache!SeriesOK(q, p)'
      BY <2>1, <3>2 DEF Cache!SeriesOK
    <3> QED  BY <3>5, <3>6
  <2>3. CASE p # r
    <3>1. q \notin children[r]  BY <1>2, <1>7, <2>3, Calls
    <3>2. p \notin children[r]  BY <1>5, <2>1
    <3>3. /\ q \in wait' <=> q \in wait /\ q # r
          /\ p \in wait' <=> p \in wait
          /\ children'[p] = children[p] /\ canceled'[q] = canceled[q]
          /\ timeouted'[q] = IF q = r THEN timeouted[q] + 1 ELSE timeouted[q]
          /\ timeouted'[p] = timeouted[p]
      BY <1>3, <2>3, <3>1, <3>2
    <3>4. q = r => /\ p \in wait /\ q \in children[p] /\ timeouted[q] = 0 /\ called[q] = 0
                   /\ p \in made /\ p \notin ready
      BY <2>1 DEF Cache!PartOK, Cache!CallOK
    <3>5. Cache!PartOK(q, p)'
      BY <1>1, <2>1, <3>3, <3>4 DEF Cache!PartOK
    <3>6. ASSUME Kind[p] = "serials" PROVE Cache!SeriesOK(q, p)'
      <4>1. Cache!SeriesOK(q, p)  BY <2>1, <3>6
      <4>2. q = r => \A c \in children[p] : ~(c < q)  BY <4>1 DEF Cache!SeriesOK
      <4> QED  BY <3>3, <4>1, <4>2 DEF Cache!SeriesOK
    <3> QED  BY <3>5, <3>6
  <2> QED  BY <2>2, <2>3
<1> QED  BY <1>6, <1>7, Calls DEF Cache!Outcomes

LEMMA OutcomesStep ==
    ASSUME Cache!Shapes, throws = 0 => Cache!Outcomes, Cache!Next
    PROVE  throws' = 0 => Cache!Outcomes'
<1> SUFFICES ASSUME throws' = 0 PROVE Cache!Outcomes'  OBVIOUS
<1>1. throws \in Nat /\ throws' \in Nat /\ (throws' = throws \/ throws' = throws + 1)
  <2>1. throws \in 0 .. MaxThrows /\ MaxThrows \in Nat
    BY RpcAssumption DEF Cache!Shapes, Cache!TypeOK, Cache!CallShapes
  <2>2. Cache!run => throws' = throws \/ throws' = throws + 1  BY DEF Cache!run
  <2>3. \A r \in Cache!Rpcs : Cache!onRecv(r) => throws' = throws \/ throws' = throws + 1
    BY DEF Cache!onRecv, Cache!triggerCall, Cache!Ignored
  <2>4. Cache!onIdle \/ Cache!CheckTimeout => throws' = throws
    BY DEF Cache!onIdle, Cache!CheckTimeout
  <2>5. \A r \in Cache!Rpcs :
           Cache!call(r) \/ Cache!Elapse(r) \/ Cache!Answer(r) \/ Cache!Lose(r) =>
               throws' = throws
    BY DEF Cache!call, Cache!Elapse, Cache!Answer, Cache!Lose
  <2>6. throws' = throws \/ throws' = throws + 1
    BY <2>2, <2>3, <2>4, <2>5 DEF Cache!Next, Cache!Loop
  <2> QED  BY <2>1, <2>6
<1>2. throws = 0 /\ Cache!Outcomes  BY <1>1
<1>3. ASSUME NEW r \in Cache!Rpcs, Cache!onRecv(r) PROVE Cache!Outcomes'
  <2>1. replies[r] > 0 /\ UNCHANGED <<made, timeouted, canceled>>
        /\ IF r \in wait THEN Cache!triggerCall(r) ELSE Cache!Ignored
    BY <1>3 DEF Cache!onRecv
  <2>2. ~Cache!Composite(r)  BY <2>1 DEF Cache!Shapes
  <2>3. CASE r \in wait  BY <1>2, <2>1, <2>2, <2>3, CallReplyStep
  <2>4. CASE r \notin wait
    BY <1>2, <2>1, <2>4, NoFate DEF Cache!Ignored, Cache!queues, Fates
  <2> QED  BY <2>3, <2>4
<1>4. ASSUME Cache!CheckTimeout PROVE Cache!Outcomes'
  <2>1. PICK r : IF r \in wait /\ Cache!isTimeout(r) THEN Cache!triggerTimeout(r)
                 ELSE UNCHANGED <<timeouted, canceled, wait, children, zeroed>>
    BY <1>4 DEF Cache!CheckTimeout
  <2>2. UNCHANGED <<made, ready, called>>  BY <1>4 DEF Cache!CheckTimeout
  <2>3. CASE r \in wait /\ Cache!triggerTimeout(r)  BY <1>2, <2>2, <2>3, TimeoutStep
  <2>4. CASE UNCHANGED <<timeouted, canceled, wait, children, zeroed>>
    BY <1>2, <2>2, <2>4, NoFate DEF Fates
  <2> QED  BY <2>1, <2>3, <2>4
<1>5. ASSUME NEW r \in Cache!Rpcs, Cache!call(r) PROVE Cache!Outcomes'
  BY <1>2, <1>5, CallStep
<1>6. ASSUME Cache!run PROVE Cache!Outcomes'  BY <1>2, <1>6, RunStep
<1>7. ASSUME NEW r \in Cache!Rpcs, Cache!Elapse(r) \/ Cache!Answer(r) \/ Cache!Lose(r)
      PROVE  Cache!Outcomes'
  <2>1. UNCHANGED Fates
    BY <1>7 DEF Cache!Elapse, Cache!Answer, Cache!Lose, Cache!queues, Cache!outcome, Fates
  <2> QED  BY <1>2, <2>1, NoFate
<1>8. ASSUME Cache!onIdle PROVE Cache!Outcomes'
  <2>1. UNCHANGED Fates  BY <1>8 DEF Cache!onIdle, Cache!queues, Cache!outcome, Fates
  <2> QED  BY <1>2, <2>1, NoFate
<1> QED  BY <1>3, <1>4, <1>5, <1>6, <1>7, <1>8 DEF Cache!Next, Cache!Loop

-----------------------------------------------------------------------------
(***************************************************************************)
(* The program: each client goes through the steps it goes through alone.  *)
(***************************************************************************)
LEMMA CallsInit == Cache!Init => Cache!IInv
<1> SUFFICES ASSUME Cache!Init PROVE Cache!IInv  OBVIOUS
<1>1. /\ made = {} /\ ready = {} /\ wait = {} /\ by_time = {} /\ expired = {} /\ zeroed = {}
      /\ children = [r \in Cache!Rpcs |-> {}] /\ pass = "poll" /\ scan = {}
      /\ sent = Cache!Zero /\ replies = Cache!Zero
      /\ called = Cache!Zero /\ timeouted = Cache!Zero /\ canceled = Cache!Zero
      /\ throws = 0 /\ lost = 0
  BY DEF Cache!Init, Cache!NewRpcs
<1>2. Cache!Zero \in [Cache!Rpcs -> Nat] /\ \A r \in Cache!Rpcs : Cache!Zero[r] = 0
  BY DEF Cache!Zero
<1>3. Cache!Shapes
  <2>1. 0 \in 0 .. MaxThrows /\ 0 \in 0 .. MaxLost
    BY RpcAssumption DEF Cache!CallShapes
  <2> QED  BY <1>1, <1>2, <2>1 DEF Cache!Shapes, Cache!TypeOK
<1>4. \A r \in Cache!Rpcs : children[r] = {} /\ called[r] = 0 /\ timeouted[r] = 0
                            /\ canceled[r] = 0
  BY <1>1, <1>2
<1>5. ASSUME NEW r \in Cache!Rpcs, parent[r] = 0 PROVE Cache!CallOK(r)
  BY <1>1, <1>4 DEF Cache!CallOK
<1>6. ASSUME NEW r \in Cache!Rpcs, NEW p \in Cache!Rpcs PROVE Cache!PartOK(r, p) /\ Cache!SeriesOK(r, p)
  <2>1. Cache!PartOK(r, p)  BY <1>1, <1>4 DEF Cache!PartOK
  <2>2. Cache!SeriesOK(r, p)  BY <1>1, <1>4 DEF Cache!SeriesOK
  <2> QED  BY <2>1, <2>2
<1>7. Cache!Outcomes  BY <1>5, <1>6, Calls DEF Cache!Outcomes
<1> QED  BY <1>3, <1>7 DEF Cache!IInv

LEMMA CallsNext == Cache!IInv /\ [RedisStep \/ CacheStep]_allvars => Cache!IInv'
<1> SUFFICES ASSUME Cache!IInv, [RedisStep \/ CacheStep]_allvars PROVE Cache!IInv'  OBVIOUS
<1>1. CASE CacheStep
  <2>1. Cache!Next  BY <1>1 DEF CacheStep
  <2> QED  BY <2>1, ShapesStep, OutcomesStep DEF Cache!IInv
<1>2. CASE UNCHANGED cachevars
  <2>1. Cache!Shapes'
    BY <1>2 DEF cachevars, Cache!IInv, Cache!Shapes, Cache!TypeOK
  <2>2. throws' = throws /\ UNCHANGED Fates  BY <1>2 DEF cachevars, Fates
  <2> QED  BY <2>1, <2>2, NoFate DEF Cache!IInv
<1> QED  BY <1>1, <1>2 DEF RedisStep, allvars

LEMMA FinalIs == Cache!IInv => OutcomeIsFinal
<1> SUFFICES ASSUME Cache!Shapes, Cache!Outcomes, NEW r \in Cache!Rpcs
             PROVE  /\ called[r] + timeouted[r] <= 1 /\ called[r] + canceled[r] <= 1
                    /\ Cache!Composite(r) /\ called[r] > 0 =>
                          \A p \in Cache!Parts(r) : called[p] = 1
                    /\ timeouted[r] > 0 =>
                          \A p \in Cache!Parts(r) : called[p] + canceled[p] = 1
                    /\ Kind[r] = "serials" =>
                          \A p, q \in Cache!Parts(r) : q < p /\ called[p] > 0 => called[q] = 1
  BY DEF Cache!IInv, OutcomeIsFinal, Cache!OutcomeIsFinal
<1>1. called[r] \in Nat /\ timeouted[r] \in Nat /\ canceled[r] \in Nat
  BY DEF Cache!Shapes, Cache!TypeOK
<1>2. called[r] + timeouted[r] <= 1 /\ called[r] + canceled[r] <= 1
  <2>1. CASE parent[r] = 0
    <3>1. Cache!CallOK(r)  BY <2>1, OutcomesOf
    <3> QED  BY <1>1, <3>1 DEF Cache!CallOK
  <2>2. CASE parent[r] # 0
    <3>1. Cache!PartOK(r, parent[r])  BY <2>2, OutcomesOf
    <3> QED  BY <3>1 DEF Cache!PartOK
  <2> QED  BY <2>1, <2>2
<1>3. ASSUME NEW p \in Cache!Parts(r)
      PROVE  /\ Cache!PartOK(p, r)
             /\ Kind[r] = "serials" => Cache!SeriesOK(p, r)
  <2>1. p \in Cache!Rpcs /\ parent[p] = r /\ r # 0  BY <1>3, Calls
  <2> QED  BY <2>1, OutcomesOf
<1>4. \A p \in Cache!Parts(r) : /\ called[r] > 0 => called[p] = 1
                                /\ timeouted[r] > 0 => called[p] + canceled[p] = 1
  BY <1>3 DEF Cache!PartOK
<1>5. Kind[r] = "serials" =>
          \A p, q \in Cache!Parts(r) : q < p /\ called[p] > 0 => called[q] = 1
  BY <1>3 DEF Cache!SeriesOK
<1> QED  BY <1>2, <1>4, <1>5

\* The inductive invariant of the calls of AsyncMyCacheClient holds in every state.
THEOREM CallInvariance == ClientsSpec => []Cache!IInv
<1>1. ClientsInit => Cache!IInv  BY CallsInit DEF ClientsInit
<1> QED  BY <1>1, CallsNext, PTL DEF ClientsSpec

\* Unless a request could not be sent, a call of AsyncMyCacheClient is called or
\* times out, once, and never both called and cancelled: triggerTimeout() cancels
\* what a composite still waits for, and neither onRecv() nor CheckTimeout finds
\* that again.  A composite is called after all its parts, a series in turn.
THEOREM OutcomesAreFinal == ClientsSpec => []OutcomeIsFinal
BY CallInvariance, FinalIs, PTL

\* Neither client sees the other: the program's steps are, for each, its own steps
\* and steps that change nothing of it, under the fairness of its own thread.
THEOREM EachClientAlone == ClientsSpec => Spec /\ Cache!Spec
<1>1. ClientsInit => Init /\ Cache!Init  BY DEF ClientsInit
<1>2. [RedisStep \/ CacheStep]_allvars => [Next]_vars
  BY DEF RedisStep, CacheStep, allvars
<1>3. [RedisStep \/ CacheStep]_allvars => [Cache!Next]_(Cache!vars)
  BY DEF RedisStep, CacheStep, allvars, cachevars, Cache!vars, Cache!queues, Cache!outcome
<1> QED  BY <1>1, <1>2, <1>3, PTL DEF ClientsSpec, Spec, Cache!Spec
=============================================================================
