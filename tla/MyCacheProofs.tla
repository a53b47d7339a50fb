--------------------------- MODULE MyCacheProofs ----------------------------
(***************************************************************************)
(* Proofs about MyCache, for any number of clients, workers, keys, retries *)
(* and failures.                                                           *)
(***************************************************************************)
EXTENDS MyCache, TLAPS

-----------------------------------------------------------------------------
(***************************************************************************)
(* Boxes of messages.  What is taken from the head of a box, where a       *)
(* socket has one message, leaves none of that socket; and a message of a  *)
(* socket that has none may be put at one place of one box.                *)
(***************************************************************************)
LEMMA TailElements ==
  ASSUME NEW S, NEW s \in Seq(S), s # <<>>
  PROVE  /\ Tail(s) \in Seq(S) /\ 1 \in DOMAIN s /\ Head(s) = s[1] /\ Head(s) \in S
         /\ \A j \in DOMAIN Tail(s) :
              j \in Nat /\ j + 1 \in DOMAIN s /\ j + 1 # 1 /\ Tail(s)[j] = s[j + 1]
OBVIOUS

LEMMA AppendElements ==
  ASSUME NEW S, NEW s \in Seq(S), NEW e \in S
  PROVE  /\ Append(s, e) \in Seq(S)
         /\ \A j \in DOMAIN Append(s, e) :
              IF j = Len(s) + 1 THEN Append(s, e)[j] = e
                                ELSE j \in DOMAIN s /\ Append(s, e)[j] = s[j]
OBVIOUS

LEMMA PushType ==
  ASSUME NEW S, NEW X, NEW f \in [X -> Seq(S)], NEW x, NEW e \in S
  PROVE  /\ [f EXCEPT ![x] = Append(@, e)] \in [X -> Seq(S)]
         /\ x \in X => [f EXCEPT ![x] = Append(@, e)][x] = Append(f[x], e)
         /\ \A y \in X : y # x => [f EXCEPT ![x] = Append(@, e)][y] = f[y]
<1>1. \A y \in X : Append(f[y], e) \in Seq(S)  OBVIOUS
<1> QED  BY <1>1

LEMMA PopType ==
  ASSUME NEW S, NEW X, NEW f \in [X -> Seq(S)], NEW x \in X, f[x] # <<>>
  PROVE  /\ Head(f[x]) \in S /\ [f EXCEPT ![x] = Tail(@)] \in [X -> Seq(S)]
         /\ [f EXCEPT ![x] = Tail(@)][x] = Tail(f[x])
         /\ \A y \in X : y # x => [f EXCEPT ![x] = Tail(@)][y] = f[y]
<1>1. f[x] \in Seq(S)  OBVIOUS
<1>2. Head(f[x]) \in S /\ Tail(f[x]) \in Seq(S)  BY <1>1, TailElements
<1> QED  BY <1>2

LEMMA ClearType ==
  ASSUME NEW S, NEW X, NEW f \in [X -> Seq(S)], NEW x \in X
  PROVE  /\ [f EXCEPT ![x] = <<>>] \in [X -> Seq(S)]
         /\ [f EXCEPT ![x] = <<>>][x] = <<>>
         /\ \A y \in X : y # x => [f EXCEPT ![x] = <<>>][y] = f[y]
<1>1. <<>> \in Seq(S)  OBVIOUS
<1> QED  BY <1>1

LEMMA TakeSole ==
  ASSUME NEW X, NEW B, NEW C, DOMAIN B = X, DOMAIN C = X, Sole(B),
         NEW b \in X, 1 \in DOMAIN B[b],
         \A j \in DOMAIN C[b] :
            j \in Nat /\ j + 1 \in DOMAIN B[b] /\ j + 1 # 1 /\ C[b][j] = B[b][j + 1],
         \A d \in X : d # b => C[d] = B[d]
  PROVE  Sole(C) /\ Absent(C, B[b][1]) /\ \A m : Absent(B, m) => Absent(C, m)
<1>1. /\ 1 \in DOMAIN B[b]
      /\ \A j \in DOMAIN C[b] :
           j \in Nat /\ j + 1 \in DOMAIN B[b] /\ j + 1 # 1 /\ C[b][j] = B[b][j + 1]
  OBVIOUS
<1>2. ASSUME NEW d \in X, NEW i \in DOMAIN C[d]
      PROVE  IF d = b THEN i + 1 \in DOMAIN B[d] /\ i \in Nat /\ C[d][i] = B[d][i + 1]
                      ELSE i \in DOMAIN B[d] /\ C[d][i] = B[d][i]
  BY <1>1
<1>3. DOMAIN B = X /\ DOMAIN C = X  OBVIOUS
<1>4. Sole(C)
  <2> SUFFICES ASSUME NEW d \in X, NEW e \in X, NEW i \in DOMAIN C[d], NEW j \in DOMAIN C[e],
                      Same(C[d][i], C[e][j])
               PROVE  d = e /\ i = j
    BY <1>3 DEF Sole
  <2> DEFINE f == IF d = b THEN i + 1 ELSE i
  <2> DEFINE g == IF e = b THEN j + 1 ELSE j
  <2>1. f \in DOMAIN B[d] /\ C[d][i] = B[d][f]  BY <1>2
  <2>2. g \in DOMAIN B[e] /\ C[e][j] = B[e][g]  BY <1>2
  <2>3. d = e /\ f = g
    <3> HIDE DEF f, g
    <3> QED  BY <1>3, <2>1, <2>2 DEF Sole
  <2>4. CASE d = b  BY <1>2, <2>3, <2>4
  <2>5. CASE d # b  BY <2>3, <2>5
  <2> QED  BY <2>4, <2>5
<1>5. Absent(C, B[b][1])
  <2> SUFFICES ASSUME NEW d \in X, NEW i \in DOMAIN C[d], Same(C[d][i], B[b][1])
               PROVE  FALSE
    BY <1>3 DEF Absent
  <2>1. CASE d = b
    <3>1. i + 1 \in DOMAIN B[b] /\ C[d][i] = B[b][i + 1] /\ i + 1 # 1  BY <1>1, <2>1
    <3> QED  BY <1>1, <1>3, <3>1 DEF Sole
  <2>2. CASE d # b  BY <1>1, <1>2, <1>3, <2>2 DEF Sole
  <2> QED  BY <2>1, <2>2
<1>6. ASSUME NEW m, Absent(B, m) PROVE Absent(C, m)
  BY <1>2, <1>3, <1>6 DEF Absent
<1> QED  BY <1>1, <1>4, <1>5, <1>6

\* A message that is the same as no other: none, or one of a named client.
Free(m) == m.n = 0 \/ m.client \in Named

LEMMA PutSole ==
  ASSUME NEW X, NEW B, NEW C, DOMAIN B = X, DOMAIN C = X, Sole(B),
         NEW b \in X, NEW m, Absent(B, m),
         \A j \in DOMAIN C[b] : \/ Free(C[b][j]) \/ Same(C[b][j], m)
                                \/ j \in DOMAIN B[b] /\ C[b][j] = B[b][j],
         \A i, j \in DOMAIN C[b] : Same(C[b][i], m) /\ Same(C[b][j], m) => i = j,
         \A d \in X : d # b => C[d] = B[d]
  PROVE  Sole(C) /\ \A k : Absent(B, k) /\ ~Same(m, k) => Absent(C, k)
<1>1. ASSUME NEW d \in X, NEW i \in DOMAIN C[d]
      PROVE  \/ i \in DOMAIN B[d] /\ C[d][i] = B[d][i]
             \/ d = b /\ Same(C[d][i], m)
             \/ Free(C[d][i])
  OBVIOUS
<1>2. \A d \in X : \A i \in DOMAIN B[d] : ~Same(B[d][i], m)  BY DEF Absent
<1>3. Sole(C)
  <2> SUFFICES ASSUME NEW d \in X, NEW e \in X, NEW i \in DOMAIN C[d], NEW j \in DOMAIN C[e],
                      Same(C[d][i], C[e][j])
               PROVE  d = e /\ i = j
    BY DEF Sole
  <2>1. CASE Same(C[d][i], m) \/ Same(C[e][j], m)
    <3>1. Same(C[d][i], m) /\ Same(C[e][j], m)  BY <2>1 DEF Same
    <3> QED  BY <1>1, <1>2, <3>1 DEF Same
  <2>2. CASE ~Same(C[d][i], m) /\ ~Same(C[e][j], m)
    BY <1>1, <2>2 DEF Sole, Same, Free
  <2> QED  BY <2>1, <2>2
<1>4. ASSUME NEW k, Absent(B, k), ~Same(m, k) PROVE Absent(C, k)
  BY <1>1, <1>4 DEF Absent, Same, Free
<1> QED  BY <1>3, <1>4

LEMMA ShrinkSole ==
  ASSUME NEW X, NEW B, NEW C, DOMAIN B = X, DOMAIN C = X, Sole(B),
         \A d \in X : \A i \in DOMAIN C[d] :
            C[d][i].n = 0 \/ (i \in DOMAIN B[d] /\ C[d][i] = B[d][i])
  PROVE  Sole(C) /\ \A k : Absent(B, k) => Absent(C, k)
BY DEF Sole, Absent, Same

-----------------------------------------------------------------------------
(***************************************************************************)
(* Types.                                                                  *)
(***************************************************************************)
LEMMA CacheAfterType ==
  ASSUME TypeOK, NEW q \in Request PROVE CacheAfter(q) \in [Keys -> Values \cup {None}]
BY DEF CacheAfter, TypeOK, Request

LEMMA TableAfterType ==
  ASSUME TypeOK, NEW q \in Request, name \in Tables
  PROVE  /\ TableAfter(q) \in [Tables -> [Keys -> Values \cup {None}]]
         /\ mysql[name][q.key] \in Values \cup {None}
<1>1. q.key \in Keys /\ q.value \in Values \cup {None}  BY DEF Request
<1> QED  BY <1>1 DEF TableAfter, TypeOK

LEMMA ClientTypes ==
  ASSUME IInv, NEW c \in Clients,
         (\E m \in Commands : Call(c, m)) \/ CallOnSentSocket(c) \/ Calling(c)
  PROVE  TypeOK'
<1> USE DEF TypeOK
<1>0. TypeOK /\ calls \in Nat  BY CacheAssumption DEF IInv
<1>1. ASSUME NEW m \in Commands, Call(c, m) PROVE TypeOK'
  <2> DEFINE i == IF socket_[c] = "none" THEN conn[c] + 1 ELSE conn[c]
  <2> DEFINE q == [client |-> c, conn |-> i, n |-> calls + 1,
                   cmd |-> m.cmd, key |-> m.key, value |-> m.value]
  <2>1. i \in Nat /\ calls + 1 \in CallIds /\ calls' \in 0..MaxCalls
    BY <1>0, <1>1, CacheAssumption DEF Call, CallIds
  <2>2. q \in Request  BY <2>1, CacheAssumption DEF Request
  <2>3. call' = [call EXCEPT ![c] = q] /\ conn' = [conn EXCEPT ![c] = i] /\ Send(q)
    BY <1>1 DEF Call
  <2> HIDE DEF q, i
  <2>4. /\ call' \in [Clients -> Request \cup {NoRequest}] /\ conn' \in [Clients -> Nat]
        /\ frontend' \subseteq Request
    BY <1>0, <2>1, <2>2, <2>3 DEF Send
  <2>5. /\ socket_' \in [Clients -> {"none", "ready", "sent"}]
        /\ status' \in [Clients -> {"idle", "wait"}]
        /\ retries_left' \in [Clients -> 0..REQUEST_RETRIES]
    BY <1>0, <1>1, CacheAssumption DEF Call
  <2>6. arrived' \in [Clients -> Seq(Reply)]
    <3>1. [arrived EXCEPT ![c] = <<>>] \in [Clients -> Seq(Reply)]  BY <1>0, ClearType
    <3> QED  BY <1>0, <1>1, <3>1 DEF Call
  <2> QED  BY <1>0, <1>1, <2>1, <2>4, <2>5, <2>6 DEF Call, routing, threads, stores, history
<1>2. CASE CallOnSentSocket(c)
  <2>1. calls' \in 0..MaxCalls  BY <1>0, <1>2, CacheAssumption DEF CallOnSentSocket
  <2>2. arrived' \in [Clients -> Seq(Reply)]
    BY <1>0, <1>2, ClearType DEF CallOnSentSocket
  <2> QED  BY <1>0, <1>2, <2>1, <2>2
           DEF CallOnSentSocket, Return, brokervars, routing, threads, stores, history
<1>3. CASE Receive(c)
  <2>1. arrived' \in [Clients -> Seq(Reply)]  BY <1>0, <1>3 DEF Receive
  <2> QED  BY <1>0, <1>3, <2>1 DEF Receive, Return, brokervars, routing, threads, stores
<1>4. CASE Retry(c)
  <2> DEFINE i == conn[c] + 1
  <2> DEFINE q == [call[c] EXCEPT !.conn = i]
  <2>1. i \in Nat /\ retries_left[c] - 1 \in 0..REQUEST_RETRIES
    BY <1>0, <1>4, CacheAssumption DEF Retry
  <2>2. call[c] \in Request  BY <1>4 DEF IInv, Callers, Retry
  <2>3. q \in Request  BY <2>1, <2>2 DEF Request
  <2>4. /\ retries_left' \in [Clients -> 0..REQUEST_RETRIES] /\ conn' \in [Clients -> Nat]
    BY <1>0, <1>4, <2>1 DEF Retry, Again
  <2>5. call' = [call EXCEPT ![c] = q]  BY <1>4 DEF Retry, Again
  <2>6. frontend' \subseteq frontend \cup {q}
    BY <1>4 DEF Retry, Again, Send
  <2> HIDE DEF q, i
  <2>7. call' \in [Clients -> Request \cup {NoRequest}] /\ frontend' \subseteq Request
    BY <1>0, <2>3, <2>5, <2>6
  <2> QED  BY <1>0, <1>4, <2>4, <2>7 DEF Retry, Again, routing, threads, stores, history
<1>5. CASE Abandon(c)
  <2>1. retries_left' \in [Clients -> 0..REQUEST_RETRIES]
    BY <1>0, <1>5, CacheAssumption DEF Abandon
  <2> QED  BY <1>0, <1>5, <2>1 DEF Abandon, Return, brokervars, routing, threads, stores
<1> QED  BY <1>1, <1>2, <1>3, <1>4, <1>5 DEF Calling

LEMMA BrokerTypes ==
  ASSUME IInv, Broking \/ Interrupt
  PROVE  TypeOK'
<1> USE DEF TypeOK
<1>0. TypeOK  BY DEF IInv
<1>1. ASSUME NEW w \in Workers, HandleBackend(w) PROVE TypeOK'
  <2> DEFINE m == Head(outbox[w])
  <2>1. m \in Reply \cup {READY} /\ outbox' \in [Workers -> Seq(Reply \cup {READY})]
    BY <1>0, <1>1, PopType DEF HandleBackend
  <2>2. worker_queue' \in Seq(Workers)
    <3>1. worker_queue' = worker_queue \/ worker_queue' = Append(worker_queue, w)
      BY <1>1 DEF HandleBackend
    <3>2. worker_queue \in Seq(Workers) /\ w \in Workers  BY <1>0
    <3> QED  BY ONLY <3>1, <3>2
  <2>3. arrived' \in [Clients -> Seq(Reply)]
    <3>1. CASE m = READY  BY <1>0, <1>1, <3>1 DEF HandleBackend
    <3>2. CASE m # READY
      <4>1. m \in Reply  BY <2>1, <3>2
      <4>2. arrived' = arrived \/ arrived' = [arrived EXCEPT ![m.client] = Append(@, m)]
        BY <1>1, <3>2 DEF HandleBackend, Route
      <4> HIDE DEF m
      <4>3. [arrived EXCEPT ![m.client] = Append(@, m)] \in [Clients -> Seq(Reply)]
        <5>1. arrived \in [Clients -> Seq(Reply)]  BY <1>0
        <5> QED  BY ONLY <4>1, <5>1, PushType
      <4> QED  BY <1>0, <4>2, <4>3
    <3> QED  BY <3>1, <3>2
  <2> QED  BY <1>0, <1>1, <2>1, <2>2, <2>3 DEF HandleBackend, stores, history
<1>2. ASSUME NEW q \in frontend, HandleFrontend(q) PROVE TypeOK'
  <2> DEFINE w == worker_queue[(worker_queue_selector % Len(worker_queue)) + 1]
  <2>1. inbox' = inbox \/ inbox' = [inbox EXCEPT ![w] = Append(@, q)]
    BY <1>2 DEF HandleFrontend
  <2> HIDE DEF w
  <2>2. [inbox EXCEPT ![w] = Append(@, q)] \in [Workers -> Seq(Request)]
    <3>1. q \in Request /\ inbox \in [Workers -> Seq(Request)]  BY <1>0
    <3> QED  BY ONLY <3>1, PushType
  <2>3. inbox' \in [Workers -> Seq(Request)]  BY <1>0, <2>1, <2>2
  <2> QED  BY <1>0, <1>2, <2>3 DEF HandleFrontend, clientvars, stores, history
<1>3. CASE Fini  BY <1>0, <1>3 DEF Fini, clientvars, stores, history
<1>4. CASE JoinAll  BY <1>0, <1>4 DEF JoinAll, clientvars, threads, stores, history
<1>5. CASE Interrupt  BY <1>0, <1>5 DEF Interrupt, clientvars, threads, stores, history
<1> QED  BY <1>1, <1>2, <1>3, <1>4, <1>5 DEF Broking

LEMMA WorkerTypes ==
  ASSUME IInv, NEW w \in Workers, Working(w)
  PROVE  TypeOK'
<1> USE DEF TypeOK
<1>0. TypeOK /\ Jobs  BY DEF IInv
<1>1. w \in Busy => job[w] \in Request  BY <1>0 DEF Jobs
<1>2. job[w] \in Request =>
        /\ job[w].key \in Keys /\ job[w].n \in CallIds /\ job[w].cmd \in {"get", "set", "del"}
        /\ job[w].client \in Clients /\ job[w].conn \in Nat
        /\ TableOf[job[w].key] \in Tables
  BY CacheAssumption DEF Request
<1>3. CASE Ready(w)
  <2>1. <<READY>> \in Seq(Reply \cup {READY}) /\ <<>> \in Seq(Reply \cup {READY})
    OBVIOUS
  <2>2. outbox' \in [Workers -> Seq(Reply \cup {READY})]
    <3> HIDE DEF TypeOK
    <3>1. outbox \in [Workers -> Seq(Reply \cup {READY})]  BY <1>0 DEF TypeOK
    <3> QED  BY <1>3, <2>1, <3>1 DEF Ready
  <2> QED  BY <1>0, <1>3, <2>2 DEF Ready, Onward, clientvars, brokervars, routing, stores, history
<1>4. CASE Recv(w)
  <2>1. inbox' \in [Workers -> Seq(Request)] /\ Head(inbox[w]) \in Request
    BY <1>0, <1>4, PopType DEF Recv
  <2> QED  BY <1>0, <1>4, <2>1 DEF Recv, clientvars, brokervars, routing, stores
<1>5. CASE RecvFails(w)
  <2>1. inbox' \in [Workers -> Seq(Request)]  BY <1>0, <1>5, ClearType DEF RecvFails
  <2> QED  BY <1>0, <1>5, <2>1 DEF RecvFails, clientvars, brokervars, routing, stores, history
<1>6. CASE Cache(w)
  <2>1. job[w] \in Request  BY <1>1, <1>6 DEF Cache, Busy
  <2>2. redis' \in [Keys -> Values \cup {None}]  BY <1>0, <1>6, <2>1, CacheAfterType DEF Cache
  <2>3. reply' \in [Workers -> Values \cup {None, "OK"}]  BY <1>0, <1>2, <1>6, <2>1 DEF Cache
  <2> QED  BY <1>0, <1>6, <2>2, <2>3 DEF Cache, clientvars, brokervars, routing, history
<1>7. CASE CacheFails(w)
  <2>1. job[w] \in Request  BY <1>1, <1>7 DEF CacheFails, Busy
  <2>2. redis' \in [Keys -> Values \cup {None}]
    BY <1>0, <1>7, <2>1, CacheAfterType DEF CacheFails
  <2>3. failed' \in 0..MaxFailures  BY <1>0, <1>7, CacheAssumption DEF CacheFails
  <2> QED  BY <1>0, <1>7, <2>2, <2>3 DEF CacheFails, clientvars, brokervars, routing
<1>8. CASE NoMySql(w)
  <2>1. job[w].n \in CallIds  BY <1>1, <1>2, <1>8 DEF NoMySql, Busy
  <2>2. failed' \in 0..MaxFailures  BY <1>0, <1>8, CacheAssumption DEF NoMySql
  <2> QED  BY <1>0, <1>8, <2>1, <2>2 DEF NoMySql, clientvars, brokervars, routing, stores
<1>9. CASE getKVSTableName(w)
  <2>1. TableOf[job[w].key] \in Tables  BY <1>1, <1>2, <1>9 DEF getKVSTableName, Busy
  <2> QED  BY <1>0, <1>9, <2>1 DEF getKVSTableName, clientvars, brokervars, routing, history
<1>10. CASE Query(w)
  <2>1. job[w] \in Request /\ name \in Tables  BY <1>0, <1>1, <1>10 DEF Query, Busy, Jobs
  <2>2. /\ mysql' \in [Tables -> [Keys -> Values \cup {None}]]
        /\ mysql[name][job[w].key] \in Values \cup {None}
    BY <1>0, <1>10, <2>1, TableAfterType DEF Query
  <2>3. reply' \in [Workers -> Values \cup {None, "OK"}]  BY <1>0, <1>10, <2>2 DEF Query
  <2>4. stored' \subseteq CallIds  BY <1>0, <1>2, <1>10, <2>1 DEF Query
  <2> QED  BY <1>0, <1>10, <2>2, <2>3, <2>4 DEF Query, clientvars, brokervars, routing
<1>11. CASE QueryFails(w)
  <2>1. job[w] \in Request /\ name \in Tables  BY <1>0, <1>1, <1>11 DEF QueryFails, Busy, Jobs
  <2>2. mysql' \in [Tables -> [Keys -> Values \cup {None}]]
    BY <1>0, <1>11, <2>1, TableAfterType DEF QueryFails
  <2>3. failed' \in 0..MaxFailures  BY <1>0, <1>11, CacheAssumption DEF QueryFails
  <2> QED  BY <1>0, <1>11, <2>2, <2>3 DEF QueryFails, clientvars, brokervars, routing
<1>12. CASE Fill(w)
  <2>1. reply[w] \in Values  BY <1>0, <1>12 DEF Fill, Jobs
  <2>2. redis' \in [Keys -> Values \cup {None}]  BY <1>0, <1>12, <2>1 DEF Fill
  <2>3. failed' \in 0..MaxFailures  BY <1>0, <1>12, CacheAssumption DEF Fill
  <2> QED  BY <1>0, <1>12, <2>2, <2>3 DEF Fill, clientvars, brokervars, routing
<1>13. CASE SendReply(w)
  <2> DEFINE m == [client |-> job[w].client, conn |-> job[w].conn,
                   n |-> job[w].n, cmd |-> job[w].cmd, body |-> reply[w]]
  <2>1. job[w] \in Request  BY <1>1, <1>13 DEF SendReply, Busy
  <2>2. m \in Reply \cup {READY}  BY <1>0, <1>2, <2>1 DEF Reply
  <2>3. outbox' = outbox \/ outbox' = [outbox EXCEPT ![w] = Append(@, m)]
    BY <1>13 DEF SendReply
  <2> HIDE DEF m
  <2>4. outbox' \in [Workers -> Seq(Reply \cup {READY})]
    <3>1. [outbox EXCEPT ![w] = Append(@, m)] \in [Workers -> Seq(Reply \cup {READY})]
      BY <1>0, <2>2, PushType
    <3> QED  BY <1>0, <2>3, <3>1
  <2>5. inbox' \in [Workers -> Seq(Request)]
    <3>1. [inbox EXCEPT ![w] = <<>>] \in [Workers -> Seq(Request)]  BY <1>0, ClearType
    <3> QED  BY <1>0, <1>13, <3>1 DEF SendReply
  <2>6. name' \in Tables \cup {None}  BY <1>0, <1>2, <1>13, <2>1 DEF SendReply
  <2> QED  BY <1>0, <1>13, <2>4, <2>5, <2>6
           DEF SendReply, Onward, clientvars, brokervars, routing, history
<1>14. CASE ReadyThrows(w)
  BY <1>0, <1>14 DEF ReadyThrows, clientvars, threads, stores, history
<1> QED  BY <1>3, <1>4, <1>5, <1>6, <1>7, <1>8, <1>9, <1>10, <1>11, <1>12, <1>13, <1>14
         DEF Working

LEMMA TypeStep == IInv /\ [Next]_vars => TypeOK'
<1> SUFFICES ASSUME IInv, [Next]_vars PROVE TypeOK'
  OBVIOUS
<1>1. CASE UNCHANGED vars
  BY <1>1 DEF IInv, TypeOK, vars, clientvars, brokervars, routing, threads, stores, history
<1> QED  BY <1>1, ClientTypes, BrokerTypes, WorkerTypes DEF Next

-----------------------------------------------------------------------------
(***************************************************************************)
(* Jobs.                                                                   *)
(***************************************************************************)
JobOf(w) ==
    /\ IF pc[w] \in {"cache", "name", "query", "fill", "log", "reply"}
         THEN job[w] \in Request ELSE job[w] = NoRequest /\ reply[w] = None
    /\ pc[w] = "query" => name \in Tables
    /\ pc[w] = "fill" => reply[w] \in Values

LEMMA JobsAre == Jobs <=> \A w \in Workers : JobOf(w)
BY DEF Jobs, JobOf, Busy

LEMMA JobsStep == IInv /\ [Next]_vars => Jobs'
<1> SUFFICES ASSUME IInv, [Next]_vars PROVE Jobs'
  OBVIOUS
<1>0. TypeOK /\ \A v \in Workers : JobOf(v)  BY JobsAre DEF IInv
<1>1. ASSUME \A v \in Workers : JobOf(v)' PROVE Jobs'
  BY <1>1 DEF Jobs, JobOf, Busy
<1>2. CASE UNCHANGED <<pc, job, reply, name>>
  BY <1>0, <1>2 DEF Jobs, JobOf, Busy
<1>3. ASSUME NEW w \in Workers, NEW p, NEW r, NEW q,
             pc' = [pc EXCEPT ![w] = p], reply' = [reply EXCEPT ![w] = r],
             job' = [job EXCEPT ![w] = q], name \in Tables => name' \in Tables,
             IF p \in {"cache", "name", "query", "fill", "log", "reply"}
               THEN q \in Request ELSE q = NoRequest /\ r = None,
             p = "query" => name' \in Tables,
             p = "fill" => r \in Values
      PROVE  Jobs'
  <2>1. /\ pc'[w] = p /\ reply'[w] = r /\ job'[w] = q
        /\ \A v \in Workers : v # w => /\ pc'[v] = pc[v] /\ reply'[v] = reply[v]
                                       /\ job'[v] = job[v]
    BY <1>0, <1>3 DEF TypeOK
  <2> SUFFICES ASSUME NEW v \in Workers PROVE JobOf(v)'
    BY <1>1
  <2>2. CASE v = w  BY <1>3, <2>1, <2>2 DEF JobOf
  <2>3. CASE v # w  BY <1>0, <1>3, <2>1, <2>3 DEF JobOf
  <2> QED  BY <2>2, <2>3
<1>4. ASSUME NEW w \in Workers, NEW f \in {pc, job, reply}
      PROVE  f = [f EXCEPT ![w] = f[w]]
  BY <1>0 DEF TypeOK
<1>5. ASSUME NEW w \in Workers, Working(w) PROVE Jobs'
  <2> USE DEF JobOf
  <2>a. JobOf(w)  BY <1>0
  <2>b. pc = [pc EXCEPT ![w] = pc[w]] /\ job = [job EXCEPT ![w] = job[w]]
        /\ reply = [reply EXCEPT ![w] = reply[w]]
    BY <1>4
  <2>c. TableOf[job[w].key] \in Tables \/ job[w] \notin Request
    BY CacheAssumption DEF Request
  <2>1. CASE Ready(w)
    <3>1. Onward \in {"recv", "gone"}  BY DEF Onward
    <3> QED  BY <1>3, <2>1, <2>a, <2>b, <3>1 DEF Ready, stores
  <2>2. CASE Recv(w)
    <3>1. Head(inbox[w]) \in Request  BY <1>0, <2>2, PopType DEF Recv, TypeOK
    <3> QED  BY <1>3, <2>2, <2>b, <3>1 DEF Recv, stores
  <2>3. CASE RecvFails(w)  BY <1>3, <2>3, <2>a, <2>b DEF RecvFails, stores
  <2>4. CASE Cache(w)
    <3>1. PICK p \in {"reply", "name"} : pc' = [pc EXCEPT ![w] = p]  BY <2>4 DEF Cache
    <3>2. PICK r : reply' = [reply EXCEPT ![w] = r]  BY <2>4 DEF Cache
    <3>3. UNCHANGED <<job, name>> /\ job[w] \in Request  BY <2>4, <2>a DEF Cache
    <3> QED  BY <1>3, <2>b, <3>1, <3>2, <3>3
  <2>5. CASE CacheFails(w)
    <3>1. PICK p \in {"reply", "name"} : pc' = [pc EXCEPT ![w] = p]  BY <2>5 DEF CacheFails
    <3>2. PICK r : reply' = [reply EXCEPT ![w] = r]  BY <2>5 DEF CacheFails
    <3>3. UNCHANGED <<job, name>> /\ job[w] \in Request  BY <2>5, <2>a DEF CacheFails
    <3> QED  BY <1>3, <2>b, <3>1, <3>2, <3>3
  <2>6. CASE NoMySql(w)  BY <1>3, <2>6, <2>a, <2>b DEF NoMySql, stores
  <2>7. CASE getKVSTableName(w)
    <3>1. job[w] \in Request /\ name' \in Tables  BY <2>7, <2>a, <2>c DEF getKVSTableName
    <3> QED  BY <1>3, <2>7, <2>b, <3>1 DEF getKVSTableName
  <2>8. CASE Query(w)
    <3> DEFINE row == mysql[name][job[w].key]
    <3>1. job[w] \in Request /\ name \in Tables  BY <2>8, <2>a DEF Query
    <3>2. row \in Values \cup {None}  BY <1>0, <3>1, TableAfterType
    <3>3. PICK p \in {"log", "fill", "reply"} :
            \E r : /\ pc' = [pc EXCEPT ![w] = p] /\ reply' = [reply EXCEPT ![w] = r]
                   /\ p = "fill" => r \in Values
      BY <2>8, <3>2 DEF Query
    <3>3a. PICK r : /\ pc' = [pc EXCEPT ![w] = p] /\ reply' = [reply EXCEPT ![w] = r]
                    /\ p = "fill" => r \in Values
      BY <3>3
    <3>4. UNCHANGED <<job, name>>  BY <2>8 DEF Query
    <3> QED  BY <1>3, <2>b, <3>1, <3>3a, <3>4
  <2>9. CASE QueryFails(w)  BY <1>3, <2>9, <2>a, <2>b DEF QueryFails
  <2>10. CASE Fill(w)  BY <1>3, <2>10, <2>a, <2>b DEF Fill
  <2>11. CASE SendReply(w)
    <3>1. Onward \in {"recv", "gone"}  BY DEF Onward
    <3>2. name' \in Tables \/ name' = name
      BY <2>11, <2>a, <2>c DEF SendReply
    <3> QED  BY <1>3, <2>11, <3>1, <3>2 DEF SendReply
  <2>12. CASE ReadyThrows(w)  BY <1>2, <2>12 DEF ReadyThrows, threads, stores
  <2> QED  BY <1>5, <2>1, <2>2, <2>3, <2>4, <2>5, <2>6, <2>7, <2>8, <2>9, <2>10, <2>11, <2>12
           DEF Working
<1>6. ASSUME NEW c \in Clients,
             (\E m \in Commands : Call(c, m)) \/ CallOnSentSocket(c) \/ Calling(c)
      PROVE  Jobs'
  BY <1>2, <1>6 DEF Call, CallOnSentSocket, Calling, Receive, Retry, Again, Abandon, threads, stores
<1>7. ASSUME Broking \/ Interrupt PROVE Jobs'
  BY <1>2, <1>7 DEF Broking, Interrupt, HandleBackend, HandleFrontend, Fini, JoinAll, threads, stores
<1>8. CASE UNCHANGED vars  BY <1>2, <1>8 DEF vars, threads, stores
<1> QED  BY <1>5, <1>6, <1>7, <1>8 DEF Next

-----------------------------------------------------------------------------
(***************************************************************************)
(* Callers.                                                                *)
(***************************************************************************)
LEMMA CallType ==
  ASSUME IInv, NEW c \in Clients
  PROVE  /\ calls \in Nat /\ call[c].n \in Nat /\ call[c].n <= calls
         /\ call[c].n > 0 => call[c] \in Request
         /\ call[c] \in Request => call[c].n \in CallIds
         /\ conn[c] \in Nat
<1>1. calls \in Nat /\ conn[c] \in Nat /\ call[c] \in Request \cup {NoRequest}
  BY CacheAssumption DEF IInv, TypeOK
<1>2. NoRequest.n = 0  BY DEF NoRequest
<1>3. call[c] \in Request => call[c].n \in CallIds /\ call[c].n \in Nat
  BY CacheAssumption DEF Request, CallIds
<1> QED  BY <1>1, <1>2, <1>3 DEF IInv, Callers

LEMMA CallersStep == IInv /\ [Next]_vars => Callers'
<1> SUFFICES ASSUME IInv, [Next]_vars PROVE Callers'
  OBVIOUS
<1>0. TypeOK /\ Callers  BY DEF IInv
<1>a. /\ calls \in Nat
      /\ \A c \in Clients : /\ call[c].n \in Nat /\ call[c].n <= calls /\ conn[c] \in Nat
                            /\ call[c] \in Request => call[c].n \in CallIds
  <2>1. calls \in Nat  BY <1>0, CacheAssumption DEF TypeOK
  <2> QED  BY <2>1, CallType
<1>1. ASSUME UNCHANGED <<calls, call, status, socket_, conn, retries_left, result>>
      PROVE  Callers'
  BY <1>0, <1>1 DEF Callers
<1>2. ASSUME NEW c \in Clients, NEW m \in Commands, Call(c, m) PROVE Callers'
  <2> DEFINE i == IF socket_[c] = "none" THEN conn[c] + 1 ELSE conn[c]
  <2> DEFINE q == [client |-> c, conn |-> i, n |-> calls + 1,
                   cmd |-> m.cmd, key |-> m.key, value |-> m.value]
  <2>1. call'[c] \in Request
    <3>1. i \in Nat /\ calls + 1 \in CallIds
      BY <1>0, <1>2, <1>a, CacheAssumption DEF Call, CallIds
    <3>2. q \in Request  BY <3>1, CacheAssumption DEF Request
    <3>3. call'[c] = q  BY <1>0, <1>2 DEF Call, TypeOK
    <3> QED  BY <3>2, <3>3
  <2>2. /\ call'[c].client = c /\ call'[c].n = calls + 1 /\ call'[c].conn = conn'[c]
        /\ calls' = calls + 1 /\ status'[c] = "wait" /\ socket_'[c] = "sent"
        /\ retries_left'[c] > 0
    BY <1>0, <1>2, CacheAssumption DEF Call, TypeOK
  <2>3. \A d \in Clients : d # c => /\ call'[d] = call[d] /\ status'[d] = status[d]
                                    /\ socket_'[d] = socket_[d] /\ conn'[d] = conn[d]
                                    /\ retries_left'[d] = retries_left[d]
    BY <1>0, <1>2 DEF Call, TypeOK
  <2>4. result' = result  BY <1>2 DEF Call, history
  <2>5. \A n \in CallIds : n \in Nat  BY DEF CallIds
  <2>6. \A n \in CallIds : n > calls' => result'[n] = "none"
    BY <1>0, <1>a, <2>2, <2>4, <2>5 DEF Callers
  <2>7. \A d \in Clients : call'[d].n <= calls'
    BY <1>a, <2>2, <2>3
  <2>8. \A d \in Clients : d # c => call'[d].n # call'[c].n
    BY <1>a, <2>2, <2>3
  <2> HIDE DEF q, i
  <2>9. ASSUME NEW d \in Clients, NEW e \in Clients, call'[d].n > 0, call'[e].n = call'[d].n
        PROVE  e = d
    <3>1. CASE d = c \/ e = c  BY <2>8, <2>9, <3>1
    <3>2. CASE d # c /\ e # c  BY <1>0, <2>3, <2>9, <3>2 DEF Callers
    <3> QED  BY <3>1, <3>2
  <2>10. ASSUME NEW d \in Clients, status'[d] = "wait"
         PROVE  /\ call'[d] \in Request /\ socket_'[d] = "sent" /\ call'[d].client = d
                /\ call'[d].conn = conn'[d] /\ retries_left'[d] > 0
    BY <1>0, <2>1, <2>2, <2>3, <2>10 DEF Callers
  <2> QED  BY <2>6, <2>7, <2>9, <2>10 DEF Callers
<1>3. ASSUME NEW c \in Clients, CallOnSentSocket(c) PROVE Callers'
  <2>1. /\ calls' = calls + 1 /\ status'[c] = "idle" /\ UNCHANGED <<call, conn, retries_left>>
        /\ \A d \in Clients : d # c => status'[d] = status[d] /\ socket_'[d] = socket_[d]
        /\ \A n \in CallIds : n # calls + 1 => result'[n] = result[n]
    BY <1>0, <1>3 DEF CallOnSentSocket, Return, TypeOK
  <2>2. \A n \in CallIds : n \in Nat  BY DEF CallIds
  <2>3. \A n \in CallIds : n > calls' => result'[n] = "none"
    BY <1>0, <1>a, <2>1, <2>2 DEF Callers
  <2>4. \A d \in Clients : call'[d].n <= calls'
    BY <1>a, <2>1
  <2> QED  BY <1>0, <2>1, <2>3, <2>4 DEF Callers
<1>4. ASSUME NEW c \in Clients, Receive(c) \/ Abandon(c) PROVE Callers'
  <2>1. /\ status'[c] = "idle" /\ UNCHANGED <<calls, call, conn>>
        /\ \A d \in Clients : d # c => /\ status'[d] = status[d] /\ socket_'[d] = socket_[d]
                                       /\ retries_left'[d] = retries_left[d]
        /\ \A n \in CallIds : n # call[c].n => result'[n] = result[n]
    BY <1>0, <1>4 DEF Receive, Abandon, Return, TypeOK
  <2>2. \A n \in CallIds : n > calls' => result'[n] = "none"
    <3>1. \A n \in CallIds : n \in Nat  BY DEF CallIds
    <3> QED  BY <1>0, <1>a, <2>1, <3>1 DEF Callers
  <2> QED  BY <1>0, <2>1, <2>2 DEF Callers
<1>5. ASSUME NEW c \in Clients, Retry(c) PROVE Callers'
  <2>1. call[c] \in Request /\ call[c].client = c /\ socket_[c] = "sent"
    BY <1>0, <1>5 DEF Callers, Retry
  <2>2. call'[c] = [call[c] EXCEPT !.conn = conn[c] + 1] /\ conn'[c] = conn[c] + 1
    BY <1>0, <1>5 DEF Retry, Again, TypeOK
  <2>3. call'[c] \in Request /\ call'[c].client = c /\ call'[c].n = call[c].n
        /\ call'[c].conn = conn'[c]
    BY <1>a, <2>1, <2>2 DEF Request
  <2>4. retries_left'[c] > 0
    BY <1>0, <1>5 DEF Retry, Again, TypeOK
  <2>5. /\ UNCHANGED <<calls, status, socket_, result>>
        /\ \A d \in Clients : d # c => /\ call'[d] = call[d] /\ conn'[d] = conn[d]
                                       /\ retries_left'[d] = retries_left[d]
    BY <1>0, <1>5 DEF Retry, Again, TypeOK, history
  <2>6. \A d \in Clients : call'[d].n = call[d].n  BY <2>3, <2>5
  <2> QED  BY <1>0, <2>1, <2>3, <2>4, <2>5, <2>6 DEF Callers
<1>6. ASSUME NEW w \in Workers, Working(w) PROVE Callers'
  BY <1>1, <1>6 DEF Working, Ready, ReadyThrows, Recv, RecvFails, Cache, CacheFails, NoMySql,
       getKVSTableName, Query, QueryFails, Fill, SendReply, clientvars, history
<1>7. ASSUME Broking \/ Interrupt PROVE Callers'
  BY <1>1, <1>7 DEF Broking, Interrupt, HandleBackend, HandleFrontend, Fini, JoinAll,
                    clientvars, history
<1>8. CASE UNCHANGED vars  BY <1>1, <1>8 DEF vars, clientvars, history
<1> QED  BY <1>2, <1>3, <1>4, <1>5, <1>6, <1>7, <1>8 DEF Next, Calling

-----------------------------------------------------------------------------
(***************************************************************************)
(* The mail, now and after the step.                                       *)
(***************************************************************************)
Message == Request \cup Reply \cup {READY}

LEMMA WiderSeq ==
  ASSUME NEW S, NEW T, S \subseteq T, NEW s \in Seq(S) PROVE s \in Seq(T)
OBVIOUS

LEMMA BoxesAre ==
  /\ \A w \in Workers : /\ <<"inbox", w>> \in Boxes /\ <<"job", w>> \in Boxes
                        /\ <<"outbox", w>> \in Boxes
  /\ \A c \in Clients : <<"arrived", c>> \in Boxes
  /\ \A b \in Boxes : \/ \E w \in Workers : b \in {<<"inbox", w>>, <<"job", w>>, <<"outbox", w>>}
                      \/ \E c \in Clients : b = <<"arrived", c>>
BY DEF Boxes

LEMMA MailNow ==
  ASSUME TypeOK
  PROVE  /\ Mail \in [Boxes -> Seq(Message)]
         /\ \A w \in Workers : /\ Mail[<<"inbox", w>>] = inbox[w]
                               /\ Mail[<<"job", w>>] = <<job[w]>>
                               /\ Mail[<<"outbox", w>>] = outbox[w]
         /\ \A c \in Clients : Mail[<<"arrived", c>>] = arrived[c]
<1>1. /\ \A w \in Workers : /\ Mail[<<"inbox", w>>] = inbox[w]
                            /\ Mail[<<"job", w>>] = <<job[w]>>
                            /\ Mail[<<"outbox", w>>] = outbox[w]
      /\ \A c \in Clients : Mail[<<"arrived", c>>] = arrived[c]
  BY BoxesAre DEF Mail
<1>2. /\ \A w \in Workers : /\ inbox[w] \in Seq(Request) /\ job[w] \in Message
                            /\ outbox[w] \in Seq(Reply \cup {READY})
      /\ \A c \in Clients : arrived[c] \in Seq(Reply)
  BY DEF TypeOK, Message, NoRequest, READY
<1>3. /\ \A w \in Workers : /\ inbox[w] \in Seq(Message) /\ <<job[w]>> \in Seq(Message)
                            /\ outbox[w] \in Seq(Message)
      /\ \A c \in Clients : arrived[c] \in Seq(Message)
  <2>1. Request \subseteq Message /\ Reply \subseteq Message /\ Reply \cup {READY} \subseteq Message
    BY DEF Message
  <2> HIDE DEF Message
  <2> QED  BY <1>2, <2>1, WiderSeq
<1>4. ASSUME NEW b \in Boxes PROVE Mail[b] \in Seq(Message)
  <2>1. CASE \E w \in Workers : b \in {<<"inbox", w>>, <<"job", w>>, <<"outbox", w>>}
    BY <1>1, <1>3, <2>1
  <2>2. CASE \E c \in Clients : b = <<"arrived", c>>  BY <1>1, <1>3, <2>2
  <2> QED  BY <2>1, <2>2, BoxesAre
<1>5. Mail = [b \in Boxes |-> Mail[b]]  BY DEF Mail
<1> QED  BY <1>1, <1>4, <1>5

LEMMA MailThen ==
  ASSUME TypeOK'
  PROVE  /\ Mail' \in [Boxes -> Seq(Message)]
         /\ \A w \in Workers : /\ Mail'[<<"inbox", w>>] = inbox'[w]
                               /\ Mail'[<<"job", w>>] = <<job'[w]>>
                               /\ Mail'[<<"outbox", w>>] = outbox'[w]
         /\ \A c \in Clients : Mail'[<<"arrived", c>>] = arrived'[c]
<1>1. /\ \A w \in Workers : /\ Mail'[<<"inbox", w>>] = inbox'[w]
                            /\ Mail'[<<"job", w>>] = <<job'[w]>>
                            /\ Mail'[<<"outbox", w>>] = outbox'[w]
      /\ \A c \in Clients : Mail'[<<"arrived", c>>] = arrived'[c]
  BY BoxesAre DEF Mail
<1>2. /\ \A w \in Workers : /\ inbox'[w] \in Seq(Request) /\ job'[w] \in Message
                            /\ outbox'[w] \in Seq(Reply \cup {READY})
      /\ \A c \in Clients : arrived'[c] \in Seq(Reply)
  BY DEF TypeOK, Message, NoRequest, READY
<1>3. /\ \A w \in Workers : /\ inbox'[w] \in Seq(Message) /\ <<job'[w]>> \in Seq(Message)
                            /\ outbox'[w] \in Seq(Message)
      /\ \A c \in Clients : arrived'[c] \in Seq(Message)
  <2>1. Request \subseteq Message /\ Reply \subseteq Message /\ Reply \cup {READY} \subseteq Message
    BY DEF Message
  <2> HIDE DEF Message
  <2> QED  BY <1>2, <2>1, WiderSeq
<1>4. ASSUME NEW b \in Boxes PROVE Mail'[b] \in Seq(Message)
  <2>1. CASE \E w \in Workers : b \in {<<"inbox", w>>, <<"job", w>>, <<"outbox", w>>}
    BY <1>1, <1>3, <2>1
  <2>2. CASE \E c \in Clients : b = <<"arrived", c>>  BY <1>1, <1>3, <2>2
  <2> QED  BY <2>1, <2>2, BoxesAre
<1>5. Mail' = [b \in Boxes |-> Mail'[b]]  BY DEF Mail
<1> QED  BY <1>1, <1>4, <1>5

LEMMA MailSame ==
  ASSUME TypeOK, TypeOK', NEW K,
         \A w \in Workers : /\ <<"inbox", w>> \notin K => inbox'[w] = inbox[w]
                            /\ <<"job", w>> \notin K => job'[w] = job[w]
                            /\ <<"outbox", w>> \notin K => outbox'[w] = outbox[w],
         \A c \in Clients : <<"arrived", c>> \notin K => arrived'[c] = arrived[c]
  PROVE  \A b \in Boxes : b \notin K => Mail'[b] = Mail[b]
<1> SUFFICES ASSUME NEW b \in Boxes, b \notin K PROVE Mail'[b] = Mail[b]
  OBVIOUS
<1>1. CASE \E w \in Workers : b \in {<<"inbox", w>>, <<"job", w>>, <<"outbox", w>>}
  <2>1. PICK w \in Workers : b \in {<<"inbox", w>>, <<"job", w>>, <<"outbox", w>>}
    BY <1>1
  <2>2. CASE b = <<"inbox", w>>  BY <2>2, MailNow, MailThen
  <2>3. CASE b = <<"job", w>>  BY <2>3, MailNow, MailThen
  <2>4. CASE b = <<"outbox", w>>  BY <2>4, MailNow, MailThen
  <2> QED  BY <2>1, <2>2, <2>3, <2>4
<1>2. CASE \E c \in Clients : b = <<"arrived", c>>  BY <1>2, MailNow, MailThen
<1> QED  BY <1>1, <1>2, BoxesAre

LEMMA MessageType ==
  ASSUME NEW m \in Message
  PROVE  /\ m.n \in Nat
         /\ m.n = 0 \/ (m.n \in CallIds /\ m.client \in Clients /\ m.conn \in Nat)
<1>1. READY.n = 0  BY DEF READY
<1>2. m \in Request => m.n \in CallIds /\ m.client \in Clients /\ m.conn \in Nat  BY DEF Request
<1>3. m \in Reply => m.n \in CallIds /\ m.client \in Clients /\ m.conn \in Nat  BY DEF Reply
<1>4. \A n \in CallIds : n \in Nat  BY DEF CallIds
<1> QED  BY <1>1, <1>2, <1>3, <1>4 DEF Message

LEMMA MailElement ==
  ASSUME TypeOK, NEW b \in Boxes, NEW i \in DOMAIN Mail[b] PROVE Mail[b][i] \in Message
<1>1. Mail[b] \in Seq(Message)  BY MailNow
<1> HIDE DEF Mail
<1> QED  BY <1>1

(***************************************************************************)
(* As long as the clients do nothing, messages that only move stay fit.    *)
(***************************************************************************)
SameCall(m, k) == m.n = k.n /\ m.client = k.client /\ m.conn = k.conn /\ m.cmd = k.cmd

LEMMA FitsStay ==
  ASSUME IInv, UNCHANGED <<calls, call, status, socket_, conn>>, frontend' \subseteq frontend,
         \A b \in Boxes : \A i \in DOMAIN Mail'[b] :
            \/ Mail'[b][i].n = 0
            \/ \E d \in Boxes : \E k \in DOMAIN Mail[d] : SameCall(Mail'[b][i], Mail[d][k])
            \/ \E q \in frontend : SameCall(Mail'[b][i], q)
  PROVE  MailFits'
<1>1. MailFits  BY DEF IInv
<1>2. \A m : Fits(m) => Fits(m)'  BY DEF Fits
<1>3. ASSUME NEW b \in Boxes, NEW i \in DOMAIN Mail'[b]
      PROVE  LET m == Mail'[b][i] IN
             m.n # 0 =>
                /\ m.n <= calls' /\ m.conn <= conn'[m.client]
                /\ m.n = call'[m.client].n => m.cmd = call'[m.client].cmd
                /\ (m.client \notin Named /\ m.conn = conn'[m.client]) =>
                     /\ socket_'[m.client] # "ready"
                     /\ status'[m.client] = "wait" => m.n = call'[m.client].n
  <2>1. CASE Mail'[b][i].n = 0  BY <2>1
  <2>2. ASSUME NEW k, Fits(k), SameCall(Mail'[b][i], k), Mail'[b][i].n # 0
        PROVE  LET m == Mail'[b][i] IN
                /\ m.n <= calls' /\ m.conn <= conn'[m.client]
                /\ m.n = call'[m.client].n => m.cmd = call'[m.client].cmd
                /\ (m.client \notin Named /\ m.conn = conn'[m.client]) =>
                     /\ socket_'[m.client] # "ready"
                     /\ status'[m.client] = "wait" => m.n = call'[m.client].n
    BY <2>2 DEF Fits, SameCall
  <2> QED  BY <1>1, <2>1, <2>2 DEF MailFits
<1>4. \A q \in frontend' : Fits(q)'  BY <1>1, <1>2 DEF MailFits
<1> QED  BY <1>3, <1>4 DEF MailFits, Fits

LEMMA ArrivedStay ==
  ASSUME IInv, UNCHANGED <<socket_, conn, arrived>> PROVE ArrivedHere'
BY DEF IInv, ArrivedHere

MailInv == OneMessagePerSocket /\ MailFits /\ ArrivedHere

LEMMA MailQuiet ==
  ASSUME IInv, TypeOK',
         UNCHANGED <<calls, call, status, socket_, conn, arrived, frontend, inbox, job, outbox>>
  PROVE  MailInv'
<1>1. Mail' = Mail  BY DEF Mail
<1>2. OneMessagePerSocket'  BY <1>1 DEF IInv, OneMessagePerSocket
<1>3. MailFits'  BY <1>1 DEF IInv, MailFits, Fits
<1> QED  BY <1>2, <1>3, ArrivedStay DEF MailInv

(***************************************************************************)
(* Messages are dropped.                                                   *)
(***************************************************************************)
LEMMA MailDropped ==
  ASSUME IInv, TypeOK', UNCHANGED <<calls, call, status, socket_, conn, arrived>>,
         frontend' \subseteq frontend,
         \A b \in Boxes : \A i \in DOMAIN Mail'[b] :
            Mail'[b][i].n = 0 \/ (i \in DOMAIN Mail[b] /\ Mail'[b][i] = Mail[b][i])
  PROVE  MailInv'
<1>1. DOMAIN Mail = Boxes /\ DOMAIN Mail' = Boxes  BY MailNow, MailThen DEF IInv
<1>2. Sole(Mail) /\ \A q \in frontend : Absent(Mail, q) /\ \A r \in frontend : Same(q, r) => q = r
  BY DEF IInv, OneMessagePerSocket
<1>3. Sole(Mail') /\ \A k : Absent(Mail, k) => Absent(Mail', k)
  BY <1>1, <1>2, ShrinkSole
<1>4. OneMessagePerSocket'
  BY <1>2, <1>3 DEF OneMessagePerSocket, Sole, Absent
<1>5. MailFits'  BY FitsStay DEF SameCall
<1> QED  BY <1>4, <1>5, ArrivedStay DEF MailInv

(***************************************************************************)
(* The first message of box a is taken out.                                *)
(***************************************************************************)
Taken(a) == [Mail EXCEPT ![a] = Tail(@)]

LEMMA MailTaken ==
  ASSUME IInv, NEW a \in Boxes, Mail[a] # <<>>
  PROVE  /\ DOMAIN Taken(a) = Boxes /\ Taken(a)[a] = Tail(Mail[a])
         /\ \A d \in Boxes : d # a => Taken(a)[d] = Mail[d]
         /\ 1 \in DOMAIN Mail[a] /\ Head(Mail[a]) = Mail[a][1] /\ Head(Mail[a]) \in Message
         /\ Sole(Taken(a)) /\ Absent(Taken(a), Head(Mail[a]))
         /\ \A q \in frontend : Absent(Taken(a), q) /\ ~Same(Head(Mail[a]), q)
         /\ \A d \in Boxes : \A i \in DOMAIN Taken(a)[d] :
              \E e \in Boxes : \E k \in DOMAIN Mail[e] : Taken(a)[d][i] = Mail[e][k]
<1> DEFINE D == Taken(a)
<1>1. Mail \in [Boxes -> Seq(Message)]  BY MailNow DEF IInv
<1>2. /\ D \in [Boxes -> Seq(Message)] /\ D[a] = Tail(Mail[a])
      /\ \A d \in Boxes : d # a => D[d] = Mail[d]
  BY <1>1, PopType DEF Taken
<1>3. /\ 1 \in DOMAIN Mail[a] /\ Head(Mail[a]) = Mail[a][1] /\ Head(Mail[a]) \in Message
      /\ \A i \in DOMAIN Tail(Mail[a]) :
           i \in Nat /\ i + 1 \in DOMAIN Mail[a] /\ i + 1 # 1 /\ Tail(Mail[a])[i] = Mail[a][i + 1]
  <2>1. Mail[a] \in Seq(Message)  BY <1>1
  <2> QED  BY <2>1, TailElements
<1>4. Sole(Mail) /\ \A q \in frontend : Absent(Mail, q)
  BY DEF IInv, OneMessagePerSocket
<1> HIDE DEF D
<1>5. Sole(D) /\ Absent(D, Mail[a][1]) /\ \A k : Absent(Mail, k) => Absent(D, k)
  <2>1. DOMAIN Mail = Boxes /\ DOMAIN D = Boxes  BY <1>1, <1>2
  <2>2. \A j \in DOMAIN D[a] :
          j \in Nat /\ j + 1 \in DOMAIN Mail[a] /\ j + 1 # 1 /\ D[a][j] = Mail[a][j + 1]
    BY <1>2, <1>3
  <2>3. /\ a \in Boxes /\ Sole(Mail) /\ 1 \in DOMAIN Mail[a]
        /\ \A d \in Boxes : d # a => D[d] = Mail[d]
    BY <1>2, <1>3, <1>4
  <2> QED  BY ONLY <2>1, <2>2, <2>3, TakeSole
<1>6. \A q \in frontend : ~Same(Head(Mail[a]), q)  BY <1>1, <1>3, <1>4 DEF Absent
<1>7. ASSUME NEW d \in Boxes, NEW i \in DOMAIN D[d]
      PROVE  \E e \in Boxes : \E k \in DOMAIN Mail[e] : D[d][i] = Mail[e][k]
  <2>1. CASE d = a  BY <1>2, <1>3, <2>1
  <2>2. CASE d # a  BY <1>2, <2>2
  <2> QED  BY <2>1, <2>2
<1> QED  BY <1>2, <1>3, <1>4, <1>5, <1>6, <1>7 DEF D

LEMMA MailRecv ==
  ASSUME IInv, TypeOK', NEW w \in Workers, Recv(w)
  PROVE  MailInv'
<1> DEFINE a == <<"inbox", w>>
<1> DEFINE b == <<"job", w>>
<1> DEFINE m == Head(Mail[a])
<1>0. TypeOK /\ a \in Boxes /\ b \in Boxes /\ a # b  BY BoxesAre DEF IInv
<1>1. UNCHANGED <<calls, call, status, socket_, conn, arrived, frontend, outbox>>
  BY DEF Recv, clientvars, brokervars
<1>2. /\ DOMAIN Mail' = Boxes /\ Mail[a] # <<>>
      /\ Mail'[a] = Tail(Mail[a]) /\ Mail'[b] = <<m>>
  <2>1. inbox'[w] = Tail(inbox[w]) /\ job'[w] = Head(inbox[w]) /\ inbox[w] # <<>>
    BY <1>0 DEF Recv, TypeOK
  <2> QED  BY <1>0, <2>1, MailNow, MailThen
<1>3. \A d \in Boxes : d \notin {a, b} => Mail'[d] = Mail[d]
  <2>1. \A v \in Workers : v # w => inbox'[v] = inbox[v] /\ job'[v] = job[v]
    BY <1>0 DEF Recv, TypeOK
  <2> QED  BY <1>0, <1>1, <2>1, MailSame
<1>4. /\ DOMAIN Taken(a) = Boxes /\ Taken(a)[a] = Tail(Mail[a])
      /\ \A d \in Boxes : d # a => Taken(a)[d] = Mail[d]
      /\ 1 \in DOMAIN Mail[a] /\ m = Mail[a][1]
      /\ Sole(Taken(a)) /\ Absent(Taken(a), m)
      /\ \A q \in frontend : Absent(Taken(a), q) /\ ~Same(m, q)
      /\ \A d \in Boxes : \A i \in DOMAIN Taken(a)[d] :
           \E e \in Boxes : \E k \in DOMAIN Mail[e] : Taken(a)[d][i] = Mail[e][k]
  BY <1>0, <1>2, MailTaken
<1> HIDE DEF m, a, b
<1>5. \A d \in Boxes : d # b => Mail'[d] = Taken(a)[d]  BY <1>2, <1>3, <1>4
<1>6. Sole(Mail') /\ \A k : Absent(Taken(a), k) /\ ~Same(m, k) => Absent(Mail', k)
  <2>1. \A j \in DOMAIN Mail'[b] : j = 1 /\ (Free(Mail'[b][j]) \/ Same(Mail'[b][j], m))
    BY <1>2 DEF Same, Free
  <2>2. /\ DOMAIN Mail' = Boxes /\ DOMAIN Taken(a) = Boxes /\ b \in Boxes
        /\ Sole(Taken(a)) /\ Absent(Taken(a), m)
    BY <1>0, <1>2, <1>4
  <2> QED  BY ONLY <1>5, <2>1, <2>2, PutSole
<1>7. OneMessagePerSocket'
  BY <1>1, <1>4, <1>6 DEF IInv, OneMessagePerSocket, Sole, Absent
<1>8. MailFits'
  <2>1. ASSUME NEW d \in Boxes, NEW i \in DOMAIN Mail'[d]
        PROVE  \E e \in Boxes : \E k \in DOMAIN Mail[e] : Mail'[d][i] = Mail[e][k]
    <3>1. CASE d = b
      <4>1. Mail'[d][i] = m  BY <1>2, <3>1
      <4> QED  BY <1>0, <1>4, <4>1
    <3>2. CASE d # b  BY <1>4, <1>5, <3>2
    <3> QED  BY <3>1, <3>2
  <2> QED  BY <1>1, <2>1, FitsStay DEF SameCall
<1> QED  BY <1>1, <1>7, <1>8, ArrivedStay DEF MailInv

LEMMA MailSendReply ==
  ASSUME IInv, TypeOK', NEW w \in Workers, SendReply(w)
  PROVE  MailInv'
<1> DEFINE a == <<"job", w>>
<1> DEFINE b == <<"outbox", w>>
<1> DEFINE e == <<"inbox", w>>
<1> DEFINE m == [client |-> job[w].client, conn |-> job[w].conn,
                 n |-> job[w].n, cmd |-> job[w].cmd, body |-> reply[w]]
<1> DEFINE E == [d \in Boxes |-> IF d = b THEN Mail[d] ELSE Mail'[d]]
<1>0. /\ TypeOK /\ a \in Boxes /\ b \in Boxes /\ e \in Boxes /\ a # b /\ e # b /\ a # e
      /\ NoRequest.n = 0
  BY BoxesAre DEF IInv, NoRequest
<1>1. UNCHANGED <<calls, call, status, socket_, conn, arrived, frontend>>
  BY DEF SendReply, clientvars, brokervars
<1>2. /\ DOMAIN Mail = Boxes /\ DOMAIN Mail' = Boxes
      /\ Mail[a] = <<job[w]>> /\ Mail'[a] = <<NoRequest>>
      /\ Mail'[e] = Mail[e] \/ Mail'[e] = <<>>
      /\ Mail[b] \in Seq(Message)
      /\ Mail'[b] = Mail[b] \/ Mail'[b] = Append(Mail[b], m)
  <2>1. job'[w] = NoRequest /\ (inbox'[w] = inbox[w] \/ inbox'[w] = <<>>)
    BY <1>0 DEF SendReply, TypeOK
  <2>2. outbox'[w] = outbox[w] \/ outbox'[w] = Append(outbox[w], m)
    BY <1>0 DEF SendReply, TypeOK
  <2> HIDE DEF m
  <2> QED  BY <1>0, <2>1, <2>2, MailNow, MailThen
<1>3. \A d \in Boxes : d \notin {a, b, e} => Mail'[d] = Mail[d]
  <2>1. \A v \in Workers : v # w => /\ inbox'[v] = inbox[v] /\ job'[v] = job[v]
                                    /\ outbox'[v] = outbox[v]
    BY <1>0 DEF SendReply, TypeOK
  <2> QED  BY <1>0, <1>1, <2>1, MailSame
<1>4. /\ DOMAIN Taken(a) = Boxes
      /\ \A d \in Boxes : d # a => Taken(a)[d] = Mail[d]
      /\ Sole(Taken(a)) /\ Absent(Taken(a), job[w])
      /\ \A q \in frontend : Absent(Taken(a), q) /\ ~Same(job[w], q)
  <2>1. Mail[a] # <<>> /\ Head(Mail[a]) = job[w]  BY <1>2
  <2> QED  BY <1>0, <2>1, MailTaken
<1>5. /\ m.n = job[w].n /\ m.client = job[w].client /\ m.conn = job[w].conn
      /\ m.cmd = job[w].cmd /\ m \in Message
  <2>1. w \in Busy  BY DEF SendReply, Busy
  <2>2. job[w] \in Request  BY <2>1 DEF IInv, Jobs
  <2>3. reply[w] \in Values \cup {None, "OK"}  BY <1>0 DEF TypeOK
  <2> QED  BY <2>2, <2>3 DEF Request, Reply, Message
<1> HIDE DEF m, a, b, e
<1>6. Sole(E) /\ Absent(E, job[w]) /\ \A q \in frontend : Absent(E, q)
  <2>1. DOMAIN E = Boxes  OBVIOUS
  <2>2. ASSUME NEW d \in Boxes, NEW i \in DOMAIN E[d]
        PROVE  E[d][i].n = 0 \/ (i \in DOMAIN Taken(a)[d] /\ E[d][i] = Taken(a)[d][i])
    <3>1. CASE d = a
      <4>1. E[d] = <<NoRequest>>  BY <1>0, <1>2, <3>1
      <4> QED  BY <1>0, <2>2, <4>1
    <3>2. CASE d # a  BY <1>0, <1>2, <1>3, <1>4, <2>2, <3>2
    <3> QED  BY <3>1, <3>2
  <2> HIDE DEF E
  <2> QED  BY <1>4, <2>1, <2>2, ShrinkSole
<1>7. Sole(Mail') /\ \A q \in frontend : Absent(Mail', q)
  <2>1. \A d \in Boxes : d # b => Mail'[d] = E[d]  OBVIOUS
  <2>2. E[b] = Mail[b] /\ DOMAIN E = Boxes  BY <1>0
  <2> HIDE DEF E
  <2>3. /\ \A j \in DOMAIN Mail'[b] :
             \/ Free(Mail'[b][j]) \/ Same(Mail'[b][j], job[w])
             \/ j \in DOMAIN E[b] /\ Mail'[b][j] = E[b][j]
        /\ \A i, j \in DOMAIN Mail'[b] :
             Same(Mail'[b][i], job[w]) /\ Same(Mail'[b][j], job[w]) => i = j
    <3>0. \A j \in DOMAIN E[b] : ~Same(E[b][j], job[w])  BY <1>0, <1>6, <2>2 DEF Absent
    <3>1. CASE Mail'[b] = Append(Mail[b], m)
      <4>1. \A j \in DOMAIN Mail'[b] :
              IF j = Len(Mail[b]) + 1 THEN Mail'[b][j] = m
                                      ELSE j \in DOMAIN Mail[b] /\ Mail'[b][j] = Mail[b][j]
        BY <1>2, <1>5, <3>1, AppendElements
      <4> QED  BY <1>5, <2>2, <3>0, <4>1 DEF Same, Free
    <3>2. CASE Mail'[b] = Mail[b]  BY <2>2, <3>0, <3>2
    <3> QED  BY <1>2, <3>1, <3>2
  <2>4. Sole(Mail') /\ \A k : Absent(E, k) /\ ~Same(job[w], k) => Absent(Mail', k)
    <3>1. DOMAIN Mail' = Boxes /\ b \in Boxes /\ Sole(E) /\ Absent(E, job[w])
      BY <1>0, <1>2, <1>6
    <3> QED  BY ONLY <2>1, <2>2, <2>3, <3>1, PutSole
  <2> QED  BY <1>4, <1>6, <2>4
<1>8. OneMessagePerSocket'
  BY <1>1, <1>7 DEF IInv, OneMessagePerSocket, Sole, Absent
<1>9. MailFits'
  <2>1. ASSUME NEW d \in Boxes, NEW i \in DOMAIN Mail'[d]
        PROVE  \/ Mail'[d][i].n = 0
               \/ \E f \in Boxes : \E k \in DOMAIN Mail[f] : SameCall(Mail'[d][i], Mail[f][k])
    <3>1. CASE d = a
      <4>1. Mail'[d][i] = NoRequest  BY <1>2, <2>1, <3>1
      <4> QED  BY <1>0, <4>1
    <3>2. CASE d = b
      <4>1. \/ (i \in DOMAIN Mail[b] /\ Mail'[b][i] = Mail[b][i])
            \/ Mail'[b][i] = m
        BY <1>2, <1>5, <2>1, <3>2, AppendElements
      <4>2. 1 \in DOMAIN Mail[a] /\ Mail[a][1] = job[w]  BY <1>2
      <4> QED  BY <1>0, <1>5, <3>2, <4>1, <4>2 DEF SameCall
    <3>3. CASE d = e  BY <1>2, <2>1, <3>3 DEF SameCall
    <3>4. CASE d \notin {a, b, e}  BY <1>3, <2>1, <3>4 DEF SameCall
    <3> QED  BY <3>1, <3>2, <3>3, <3>4
  <2> QED  BY <1>1, <2>1, FitsStay
<1> QED  BY <1>1, <1>8, <1>9, ArrivedStay DEF MailInv

LEMMA MailDrops ==
  ASSUME IInv, TypeOK', Fini \/ \E w \in Workers : RecvFails(w) \/ Ready(w)
  PROVE  MailInv'
<1>0. TypeOK /\ READY.n = 0  BY DEF IInv, READY
<1>1. /\ UNCHANGED <<calls, call, status, socket_, conn, arrived, job>>
      /\ frontend' \subseteq frontend
      /\ \A w \in Workers : /\ inbox'[w] = inbox[w] \/ inbox'[w] = <<>>
                            /\ outbox'[w] = outbox[w] \/ outbox'[w] = <<>> \/ outbox'[w] = <<READY>>
  BY <1>0 DEF Fini, RecvFails, Ready, clientvars, brokervars, TypeOK
<1>2. ASSUME NEW b \in Boxes, NEW i \in DOMAIN Mail'[b]
      PROVE  Mail'[b][i].n = 0 \/ (i \in DOMAIN Mail[b] /\ Mail'[b][i] = Mail[b][i])
  <2>1. ASSUME NEW w \in Workers, b = <<"inbox", w>> \/ b = <<"outbox", w>>
        PROVE  Mail'[b] = Mail[b] \/ Mail'[b] = <<>> \/ Mail'[b] = <<READY>>
    <3>1. CASE b = <<"inbox", w>>
      <4>1. Mail[b] = inbox[w] /\ Mail'[b] = inbox'[w]  BY <1>0, <3>1, MailNow, MailThen
      <4> QED  BY <1>1, <4>1
    <3>2. CASE b = <<"outbox", w>>
      <4>1. Mail[b] = outbox[w] /\ Mail'[b] = outbox'[w]  BY <1>0, <3>2, MailNow, MailThen
      <4> QED  BY <1>1, <4>1
    <3> QED  BY <2>1, <3>1, <3>2
  <2>2. ASSUME NEW w \in Workers, b = <<"job", w>> PROVE Mail'[b] = Mail[b]
    BY <1>0, <1>1, <2>2, MailNow, MailThen
  <2>3. ASSUME NEW c \in Clients, b = <<"arrived", c>> PROVE Mail'[b] = Mail[b]
    BY <1>0, <1>1, <2>3, MailNow, MailThen
  <2>4. Mail'[b] = Mail[b] \/ Mail'[b] = <<>> \/ Mail'[b] = <<READY>>
    <3>1. CASE \E w \in Workers : b \in {<<"inbox", w>>, <<"job", w>>, <<"outbox", w>>}
      BY <2>1, <2>2, <3>1
    <3>2. CASE \E c \in Clients : b = <<"arrived", c>>  BY <2>3, <3>2
    <3> QED  BY <3>1, <3>2, BoxesAre
  <2> QED  BY <1>0, <1>2, <2>4
<1> QED  BY <1>1, <1>2, MailDropped

LEMMA MailFrontend ==
  ASSUME IInv, TypeOK', NEW q \in frontend, HandleFrontend(q)
  PROVE  MailInv'
<1> DEFINE w == worker_queue[(worker_queue_selector % Len(worker_queue)) + 1]
<1> DEFINE b == <<"inbox", w>>
<1>0. TypeOK /\ q \in Request /\ q \in Message  BY DEF IInv, TypeOK, Message
<1>1. UNCHANGED <<calls, call, status, socket_, conn, arrived, job, outbox>>
  BY DEF HandleFrontend, clientvars
<1>2. frontend' = frontend \ {q}  BY DEF HandleFrontend
<1>3. w \in Workers
  <2>1. worker_queue \in Seq(Workers) /\ worker_queue # <<>> /\ worker_queue_selector \in Nat
    BY <1>0 DEF HandleFrontend, TypeOK
  <2>2. Len(worker_queue) \in Nat /\ Len(worker_queue) > 0  BY <2>1
  <2>3. (worker_queue_selector % Len(worker_queue)) + 1 \in 1..Len(worker_queue)
    BY <2>1, <2>2
  <2> QED  BY <2>1, <2>3
<1>4. \A v \in Workers : v # w => inbox'[v] = inbox[v]
  BY <1>0 DEF HandleFrontend, TypeOK
<1>5. inbox'[w] = inbox[w] \/ inbox'[w] = Append(inbox[w], q)
  BY <1>0, <1>3 DEF HandleFrontend, TypeOK
<1> HIDE DEF w
<1>6. /\ DOMAIN Mail = Boxes /\ DOMAIN Mail' = Boxes /\ b \in Boxes /\ Mail[b] \in Seq(Message)
      /\ Mail'[b] = Mail[b] \/ Mail'[b] = Append(Mail[b], q)
      /\ \A d \in Boxes : d # b => Mail'[d] = Mail[d]
  <2>1. b \in Boxes /\ Mail[b] = inbox[w] /\ Mail'[b] = inbox'[w] /\ Mail[b] \in Seq(Message)
    BY <1>0, <1>3, BoxesAre, MailNow, MailThen
  <2>2. DOMAIN Mail = Boxes /\ DOMAIN Mail' = Boxes  BY <1>0, MailNow, MailThen
  <2>3. \A d \in Boxes : d \notin {b} => Mail'[d] = Mail[d]
    BY <1>0, <1>1, <1>4, MailSame
  <2> QED  BY <1>5, <2>1, <2>2, <2>3
<1>7. /\ Sole(Mail) /\ Absent(Mail, q)
      /\ \A r \in frontend : Absent(Mail, r) /\ \A k \in frontend : Same(r, k) => r = k
  BY DEF IInv, OneMessagePerSocket
<1> HIDE DEF b
<1>8. \A j \in DOMAIN Mail'[b] :
        \/ j \in DOMAIN Mail[b] /\ Mail'[b][j] = Mail[b][j]
        \/ j = Len(Mail[b]) + 1 /\ Mail'[b][j] = q
  BY <1>0, <1>6, AppendElements
<1>9. Sole(Mail') /\ \A k : Absent(Mail, k) /\ ~Same(q, k) => Absent(Mail', k)
  <2>1. \A j \in DOMAIN Mail[b] : ~Same(Mail[b][j], q)  BY <1>6, <1>7 DEF Absent
  <2>2. /\ \A j \in DOMAIN Mail'[b] : \/ Free(Mail'[b][j]) \/ Same(Mail'[b][j], q)
                                      \/ j \in DOMAIN Mail[b] /\ Mail'[b][j] = Mail[b][j]
        /\ \A i, j \in DOMAIN Mail'[b] : Same(Mail'[b][i], q) /\ Same(Mail'[b][j], q) => i = j
    BY <1>8, <2>1 DEF Same, Free
  <2>3. /\ DOMAIN Mail = Boxes /\ DOMAIN Mail' = Boxes /\ b \in Boxes
        /\ Sole(Mail) /\ Absent(Mail, q) /\ \A d \in Boxes : d # b => Mail'[d] = Mail[d]
    BY <1>6, <1>7
  <2> QED  BY ONLY <2>2, <2>3, PutSole
<1>10. OneMessagePerSocket'
  <2>1. \A r \in frontend' : Absent(Mail', r)  BY <1>2, <1>7, <1>9
  <2> QED  BY <1>2, <1>7, <1>9, <2>1 DEF OneMessagePerSocket, Sole, Absent
<1>11. MailFits'
  <2>1. frontend' \subseteq frontend  BY <1>2
  <2>2. ASSUME NEW d \in Boxes, NEW i \in DOMAIN Mail'[d]
        PROVE  \/ Mail'[d][i] = q
               \/ \E f \in Boxes : \E k \in DOMAIN Mail[f] : Mail'[d][i] = Mail[f][k]
    BY <1>6, <1>8
  <2> QED  BY <1>1, <2>1, <2>2, FitsStay DEF SameCall
<1> QED  BY <1>1, <1>10, <1>11, ArrivedStay DEF MailInv

LEMMA MailBackend ==
  ASSUME IInv, TypeOK', NEW w \in Workers, HandleBackend(w)
  PROVE  MailInv'
<1> DEFINE a == <<"outbox", w>>
<1> DEFINE m == Head(Mail[a])
<1>0. TypeOK /\ a \in Boxes /\ READY.n = 0  BY BoxesAre DEF IInv, READY
<1>1. UNCHANGED <<calls, call, status, socket_, conn, frontend, inbox, job>>
  BY DEF HandleBackend
<1>2. /\ DOMAIN Mail = Boxes /\ DOMAIN Mail' = Boxes /\ Mail[a] # <<>>
      /\ m = Head(outbox[w]) /\ Mail'[a] = Tail(Mail[a])
  <2>1. outbox'[w] = Tail(outbox[w]) /\ outbox[w] # <<>>
    BY <1>0 DEF HandleBackend, TypeOK
  <2> QED  BY <1>0, <2>1, MailNow, MailThen
<1>3. \A v \in Workers : v # w => outbox'[v] = outbox[v]
  BY <1>0 DEF HandleBackend, TypeOK
<1>4. /\ DOMAIN Taken(a) = Boxes /\ Taken(a)[a] = Tail(Mail[a])
      /\ \A d \in Boxes : d # a => Taken(a)[d] = Mail[d]
      /\ 1 \in DOMAIN Mail[a] /\ m = Mail[a][1] /\ m \in Message
      /\ Sole(Taken(a)) /\ Absent(Taken(a), m)
      /\ \A q \in frontend : Absent(Taken(a), q) /\ ~Same(m, q)
      /\ \A d \in Boxes : \A i \in DOMAIN Taken(a)[d] :
           \E e \in Boxes : \E k \in DOMAIN Mail[e] : Taken(a)[d][i] = Mail[e][k]
  BY <1>0, <1>2, MailTaken
<1>5. \/ arrived' = arrived
      \/ /\ m.n # 0 /\ m.client \in Clients /\ socket_[m.client] # "none"
         /\ m.client \in Named \/ m.conn = conn[m.client]
         /\ arrived' = [arrived EXCEPT ![m.client] = Append(@, m)]
  <2>1. m \in Reply \cup {READY}
    <3>1. outbox[w] \in Seq(Reply \cup {READY}) /\ outbox[w] # <<>>
      BY <1>0 DEF HandleBackend, TypeOK
    <3>2. Head(outbox[w]) \in Reply \cup {READY}  BY ONLY <3>1, TailElements
    <3> QED  BY <1>2, <3>2
  <2>2. CASE m = READY  BY <1>2, <2>2 DEF HandleBackend
  <2>3. CASE m # READY
    <3>1. m.n # 0 /\ m.client \in Clients  BY <2>1, <2>3 DEF Reply, CallIds
    <3> QED  BY <1>2, <2>3, <3>1 DEF HandleBackend, Route
  <2> QED  BY <2>2, <2>3
<1> HIDE DEF m, a
<1>6. CASE arrived' = arrived
  <2>1. \A d \in Boxes : d \notin {a} => Mail'[d] = Mail[d]
    BY <1>0, <1>1, <1>3, <1>6, MailSame DEF a
  <2>2. \A d \in Boxes : Mail'[d] = Taken(a)[d]  BY <1>2, <1>4, <2>1
  <2>3. Sole(Mail') /\ \A q \in frontend : Absent(Mail', q)
    BY <1>2, <1>4, <2>2 DEF Sole, Absent
  <2>4. OneMessagePerSocket'
    BY <1>1, <2>3 DEF IInv, OneMessagePerSocket, Sole, Absent
  <2>5. ASSUME NEW d \in Boxes, NEW i \in DOMAIN Mail'[d]
        PROVE  \E e \in Boxes : \E k \in DOMAIN Mail[e] : Mail'[d][i] = Mail[e][k]
    BY <1>4, <2>2
  <2>6. MailFits'  BY <1>1, <2>5, FitsStay DEF SameCall
  <2> QED  BY <1>1, <1>6, <2>4, <2>6, ArrivedStay DEF MailInv
<1>7. CASE /\ m.n # 0 /\ m.client \in Clients /\ socket_[m.client] # "none"
           /\ m.client \in Named \/ m.conn = conn[m.client]
           /\ arrived' = [arrived EXCEPT ![m.client] = Append(@, m)]
  <2> DEFINE b == <<"arrived", m.client>>
  <2>0. b \in Boxes /\ b # a  BY <1>7, BoxesAre DEF a
  <2>1. /\ arrived'[m.client] = Append(arrived[m.client], m)
        /\ \A c \in Clients : c # m.client => arrived'[c] = arrived[c]
    <3>1. arrived \in [Clients -> Seq(Reply)]  BY <1>0 DEF TypeOK
    <3> QED  BY ONLY <1>7, <3>1
  <2>2. \A d \in Boxes : d \notin {a, b} => Mail'[d] = Mail[d]
    BY <1>0, <1>1, <1>3, <2>1, MailSame DEF a
  <2>3. /\ Mail'[b] = Append(Mail[b], m) /\ Mail[b] \in Seq(Message)
        /\ Mail[b] = arrived[m.client] /\ Mail'[b] = arrived'[m.client]
    BY <1>0, <1>7, <2>0, <2>1, MailNow, MailThen
  <2>4. \A j \in DOMAIN Mail'[b] :
          \/ j \in DOMAIN Mail[b] /\ Mail'[b][j] = Mail[b][j]
          \/ j = Len(Mail[b]) + 1 /\ Mail'[b][j] = m
    BY <1>4, <2>3, AppendElements
  <2> HIDE DEF b
  <2>5. \A d \in Boxes : d # b => Mail'[d] = Taken(a)[d]  BY <1>2, <1>4, <2>2
  <2>6. Taken(a)[b] = Mail[b]  BY <1>4, <2>0
  <2>7. Sole(Mail') /\ \A k : Absent(Taken(a), k) /\ ~Same(m, k) => Absent(Mail', k)
    <3>1. \A j \in DOMAIN Taken(a)[b] : ~Same(Taken(a)[b][j], m)
      BY <1>4, <2>0 DEF Absent
    <3>2. /\ \A j \in DOMAIN Mail'[b] : \/ Free(Mail'[b][j]) \/ Same(Mail'[b][j], m)
                                        \/ j \in DOMAIN Taken(a)[b] /\ Mail'[b][j] = Taken(a)[b][j]
          /\ \A i, j \in DOMAIN Mail'[b] : Same(Mail'[b][i], m) /\ Same(Mail'[b][j], m) => i = j
      BY <1>7, <2>4, <2>6, <3>1 DEF Same, Free
    <3>3. /\ DOMAIN Taken(a) = Boxes /\ DOMAIN Mail' = Boxes /\ b \in Boxes
          /\ Sole(Taken(a)) /\ Absent(Taken(a), m)
      BY <1>2, <1>4, <2>0
    <3> QED  BY ONLY <2>5, <3>2, <3>3, PutSole
  <2>8. OneMessagePerSocket'
    BY <1>1, <1>4, <2>7 DEF IInv, OneMessagePerSocket, Sole, Absent
  <2>9. ASSUME NEW d \in Boxes, NEW i \in DOMAIN Mail'[d]
        PROVE  \E e \in Boxes : \E k \in DOMAIN Mail[e] : Mail'[d][i] = Mail[e][k]
    <3>1. CASE d = b  BY <1>0, <1>4, <2>0, <2>4, <2>9, <3>1
    <3>2. CASE d # b  BY <1>4, <2>5, <2>9, <3>2
    <3> QED  BY <3>1, <3>2
  <2>10. MailFits'  BY <1>1, <2>9, FitsStay DEF SameCall
  <2>11. ArrivedHere'
    <3> SUFFICES ASSUME NEW c \in Clients
                 PROVE  /\ socket_[c] = "none" => arrived'[c] = <<>>
                        /\ \A i \in DOMAIN arrived'[c] :
                             arrived'[c][i].client = c /\ (c \in Named \/ arrived'[c][i].conn = conn[c])
      BY <1>1 DEF ArrivedHere
    <3>1. ArrivedHere  BY DEF IInv
    <3>2. CASE c # m.client  BY <2>1, <3>1, <3>2 DEF ArrivedHere
    <3>3. CASE c = m.client  BY <1>7, <2>3, <2>4, <3>1, <3>3 DEF ArrivedHere
    <3> QED  BY <3>2, <3>3
  <2> QED  BY <2>8, <2>10, <2>11 DEF MailInv
<1> QED  BY <1>5, <1>6, <1>7

(***************************************************************************)
(* A request on a new socket, or on one whose reply was read, is the only  *)
(* message of its socket.                                                  *)
(***************************************************************************)
LEMMA FreshSocket ==
  ASSUME IInv, NEW q \in Request,
         q.conn > conn[q.client] \/ (q.conn = conn[q.client] /\ socket_[q.client] = "ready")
  PROVE  Absent(Mail, q) /\ \A r \in frontend : ~Same(r, q)
<1>0. TypeOK /\ MailFits  BY DEF IInv
<1>1. q.client \in Clients /\ q.conn \in Nat /\ conn[q.client] \in Nat
  BY <1>0 DEF TypeOK, Request
<1>2. ASSUME NEW m \in Message, Fits(m), Same(m, q) PROVE FALSE
  <2>1. m.conn <= conn[q.client] /\ m.conn = q.conn
        /\ (m.conn = conn[q.client] => socket_[q.client] # "ready")
    BY <1>2 DEF Same, Fits
  <2> QED  BY <1>1, <2>1
<1>3. Absent(Mail, q)
  <2>1. DOMAIN Mail = Boxes  BY <1>0, MailNow
  <2> SUFFICES ASSUME NEW b \in Boxes, NEW i \in DOMAIN Mail[b] PROVE ~Same(Mail[b][i], q)
    BY <2>1 DEF Absent
  <2>2. Mail[b][i] \in Message /\ Fits(Mail[b][i])  BY <1>0, MailElement DEF MailFits
  <2> QED  BY <1>2, <2>2
<1>4. ASSUME NEW r \in frontend PROVE ~Same(r, q)
  BY <1>0, <1>2 DEF TypeOK, MailFits, Message
<1> QED  BY <1>3, <1>4

LEMMA SendOneMessage ==
  ASSUME IInv, TypeOK', \A b \in Boxes : Mail'[b] = Mail[b] \/ Mail'[b] = <<>>,
         NEW q \in Request, frontend' \subseteq frontend \cup {q},
         Absent(Mail, q), \A r \in frontend : ~Same(r, q)
  PROVE  OneMessagePerSocket'
<1>1. DOMAIN Mail = Boxes /\ DOMAIN Mail' = Boxes  BY MailNow, MailThen DEF IInv
<1>2. /\ Sole(Mail)
      /\ \A r \in frontend : Absent(Mail, r) /\ \A k \in frontend : Same(r, k) => r = k
  BY DEF IInv, OneMessagePerSocket
<1>3. \A r, k \in frontend' : Same(r, k) => r = k
  BY <1>2 DEF Same
<1>4. Sole(Mail') /\ \A k : Absent(Mail, k) => Absent(Mail', k)
  <2>1. \A b \in Boxes : \A i \in DOMAIN Mail'[b] : i \in DOMAIN Mail[b] /\ Mail'[b][i] = Mail[b][i]
    OBVIOUS
  <2> QED  BY <1>1, <1>2, <2>1, ShrinkSole
<1>5. \A r \in frontend' : Absent(Mail', r)  BY <1>2, <1>4
<1> QED  BY <1>3, <1>4, <1>5 DEF OneMessagePerSocket, Sole, Absent

LEMMA MailCall ==
  ASSUME IInv, TypeOK', NEW c \in Clients, NEW m \in Commands, Call(c, m)
  PROVE  MailInv'
<1> DEFINE i == IF socket_[c] = "none" THEN conn[c] + 1 ELSE conn[c]
<1> DEFINE q == [client |-> c, conn |-> i, n |-> calls + 1,
                 cmd |-> m.cmd, key |-> m.key, value |-> m.value]
<1>0. TypeOK /\ MailFits /\ ArrivedHere /\ calls \in Nat /\ conn[c] \in Nat
  BY CallType DEF IInv
<1>1. q \in Request /\ q.client = c /\ q.conn = i /\ q.n = calls + 1
  <2>1. i \in Nat /\ calls + 1 \in CallIds
    BY <1>0, CacheAssumption DEF Call, CallIds
  <2> QED  BY <2>1, CacheAssumption DEF Request
<1>2. /\ calls' = calls + 1 /\ call'[c] = q /\ conn'[c] = i
      /\ socket_'[c] = "sent" /\ frontend' \subseteq frontend \cup {q}
      /\ UNCHANGED <<inbox, job, outbox>>
      /\ arrived'[c] = arrived[c] \/ arrived'[c] = <<>>
      /\ \A d \in Clients : d # c => /\ call'[d] = call[d] /\ conn'[d] = conn[d]
                                     /\ socket_'[d] = socket_[d] /\ status'[d] = status[d]
                                     /\ arrived'[d] = arrived[d]
  BY <1>0 DEF Call, Send, TypeOK, threads
<1>3. q.conn > conn[q.client] \/ (q.conn = conn[q.client] /\ socket_[q.client] = "ready")
  <2>1. socket_[c] = "none" \/ socket_[c] = "ready"  BY <1>0 DEF Call, TypeOK
  <2> QED  BY <1>0, <1>1, <2>1
<1> HIDE DEF q
<1>4. Absent(Mail, q) /\ \A r \in frontend : ~Same(r, q)  BY <1>1, <1>3, FreshSocket
<1>4a. ASSUME NEW b \in Boxes PROVE Mail'[b] = Mail[b] \/ Mail'[b] = <<>>
  <2>1. CASE b = <<"arrived", c>>  BY <1>0, <1>2, <2>1, MailNow, MailThen
  <2>2. CASE b # <<"arrived", c>>
    <3>1. \A d \in Boxes : d \notin {<<"arrived", c>>} => Mail'[d] = Mail[d]
      BY <1>0, <1>2, MailSame
    <3> QED  BY <2>2, <3>1
  <2> QED  BY <2>1, <2>2
<1>5. OneMessagePerSocket'  BY <1>1, <1>2, <1>4, <1>4a, SendOneMessage
<1>6. ASSUME NEW k \in Message, Fits(k), ~Same(k, q) PROVE Fits(k)'
  <2> SUFFICES ASSUME k.n # 0
               PROVE  /\ k.n <= calls' /\ k.conn <= conn'[k.client]
                      /\ k.n = call'[k.client].n => k.cmd = call'[k.client].cmd
                      /\ (k.client \notin Named /\ k.conn = conn'[k.client]) =>
                           /\ socket_'[k.client] # "ready"
                           /\ status'[k.client] = "wait" => k.n = call'[k.client].n
    BY DEF Fits
  <2>1. /\ k.n \in Nat /\ k.client \in Clients /\ k.conn \in Nat
        /\ k.n <= calls /\ k.conn <= conn[k.client]
    BY <1>6, MessageType DEF Fits
  <2>2. CASE k.client = c
    <3>1. (c \in Named \/ k.conn # i) /\ k.conn <= i
      BY <1>0, <1>1, <1>6, <2>1, <2>2 DEF Same
    <3> QED  BY <1>0, <1>1, <1>2, <2>1, <2>2, <3>1
  <2>3. CASE k.client # c  BY <1>0, <1>2, <1>6, <2>1, <2>3 DEF Fits
  <2> QED  BY <2>2, <2>3
<1>7. ASSUME NEW k, k = q PROVE Fits(k)'  BY <1>0, <1>1, <1>2, <1>7 DEF Fits
<1>8. MailFits'
  <2>1. ASSUME NEW b \in Boxes, NEW j \in DOMAIN Mail'[b] PROVE Fits(Mail[b][j])'
    <3>0. j \in DOMAIN Mail[b] /\ Mail'[b][j] = Mail[b][j]  BY <1>4a
    <3>1. Mail[b][j] \in Message /\ Fits(Mail[b][j])
      BY <1>0, <3>0, MailElement DEF MailFits
    <3>2. ~Same(Mail[b][j], q)  BY <1>0, <1>4, <3>0, MailNow DEF Absent
    <3>3. PICK k \in Message : k = Mail[b][j]  BY <3>1
    <3>4. Fits(k)'  BY <1>6, <3>1, <3>2, <3>3
    <3> QED  BY <3>0, <3>3, <3>4 DEF Fits
  <2>3. ASSUME NEW r \in frontend' PROVE Fits(r)'
    <3>1. CASE r \in frontend
      <4>1. r \in Message /\ Fits(r) /\ ~Same(r, q)
        BY <1>0, <1>4, <3>1 DEF TypeOK, Message, MailFits
      <4> QED  BY <1>6, <4>1
    <3>2. CASE r = q  BY <1>7, <3>2
    <3> QED  BY <1>2, <3>1, <3>2
  <2> QED  BY <2>1, <2>3 DEF MailFits, Fits
<1>9. ArrivedHere'
  <2> SUFFICES ASSUME NEW d \in Clients
               PROVE  /\ socket_'[d] = "none" => arrived'[d] = <<>>
                      /\ \A j \in DOMAIN arrived'[d] :
                           /\ arrived'[d][j].client = d
                           /\ d \in Named \/ arrived'[d][j].conn = conn'[d]
    BY DEF ArrivedHere
  <2>1. CASE d # c  BY <1>0, <1>2, <2>1 DEF ArrivedHere
  <2>2. CASE d = c
    <3>1. CASE arrived'[c] = <<>>  BY <1>2, <2>2, <3>1
    <3>2. CASE arrived'[c] = arrived[c]
      <4>1. CASE socket_[c] = "none"  BY <1>0, <1>2, <2>2, <3>2, <4>1 DEF ArrivedHere
      <4>2. CASE socket_[c] # "none"  BY <1>0, <1>2, <2>2, <3>2, <4>2 DEF ArrivedHere
      <4> QED  BY <4>1, <4>2
    <3> QED  BY <1>2, <3>1, <3>2
  <2> QED  BY <2>1, <2>2
<1> QED  BY <1>5, <1>8, <1>9 DEF MailInv

LEMMA MailRetry ==
  ASSUME IInv, TypeOK', NEW c \in Clients, Retry(c)
  PROVE  MailInv'
<1> DEFINE q == [call[c] EXCEPT !.conn = conn[c] + 1]
<1>0. TypeOK /\ MailFits /\ ArrivedHere /\ conn[c] \in Nat /\ call[c].n \in Nat
      /\ call[c] \in Request /\ call[c].client = c /\ socket_[c] = "sent" /\ arrived[c] = <<>>
      /\ call[c].n <= calls
  BY CallType DEF IInv, Callers, Retry
<1>1. /\ q \in Request /\ q.client = c /\ q.conn = conn[c] + 1 /\ q.n = call[c].n
      /\ q.cmd = call[c].cmd
  BY <1>0 DEF Request
<1>2. /\ UNCHANGED <<calls, status, socket_, arrived, inbox, job, outbox>>
      /\ call'[c] = q /\ conn'[c] = conn[c] + 1 /\ frontend' \subseteq frontend \cup {q}
      /\ \A d \in Clients : d # c => call'[d] = call[d] /\ conn'[d] = conn[d]
  BY <1>0 DEF Retry, Again, Send, TypeOK, threads
<1> HIDE DEF q
<1>3. q.conn > conn[q.client]  BY <1>0, <1>1
<1>4. Absent(Mail, q) /\ \A r \in frontend : ~Same(r, q)  BY <1>1, <1>3, FreshSocket
<1>5. OneMessagePerSocket'
  <2>1. Mail' = Mail  BY <1>2 DEF Mail
  <2> QED  BY <1>1, <1>2, <1>4, <2>1, SendOneMessage
<1>6. ASSUME NEW k \in Message, Fits(k) PROVE Fits(k)'
  <2> SUFFICES ASSUME k.n # 0
               PROVE  /\ k.n <= calls' /\ k.conn <= conn'[k.client]
                      /\ k.n = call'[k.client].n => k.cmd = call'[k.client].cmd
                      /\ (k.client \notin Named /\ k.conn = conn'[k.client]) =>
                           /\ socket_'[k.client] # "ready"
                           /\ status'[k.client] = "wait" => k.n = call'[k.client].n
    BY DEF Fits
  <2>1. /\ k.n \in Nat /\ k.client \in Clients /\ k.conn \in Nat
        /\ k.n <= calls /\ k.conn <= conn[k.client]
        /\ k.n = call[k.client].n => k.cmd = call[k.client].cmd
    BY <1>6, MessageType DEF Fits
  <2>2. CASE k.client = c  BY <1>0, <1>1, <1>2, <2>1, <2>2
  <2>3. CASE k.client # c  BY <1>0, <1>2, <1>6, <2>1, <2>3 DEF Fits
  <2> QED  BY <2>2, <2>3
<1>7. ASSUME NEW k, k = q PROVE Fits(k)'  BY <1>0, <1>1, <1>2, <1>7 DEF Fits
<1>8. MailFits'
  <2>1. Mail' = Mail  BY <1>2 DEF Mail
  <2>2. ASSUME NEW b \in Boxes, NEW j \in DOMAIN Mail[b] PROVE Fits(Mail[b][j])'
    <3>1. PICK k \in Message : k = Mail[b][j] /\ Fits(k)
      BY <1>0, MailElement DEF MailFits
    <3>2. Fits(k)'  BY <1>6, <3>1
    <3> QED  BY <2>1, <3>1, <3>2 DEF Fits
  <2>3. ASSUME NEW r \in frontend' PROVE Fits(r)'
    <3>1. CASE r \in frontend  BY <1>0, <1>6, <3>1 DEF TypeOK, Message, MailFits
    <3>2. CASE r = q  BY <1>7, <3>2
    <3> QED  BY <1>2, <3>1, <3>2
  <2> QED  BY <2>1, <2>2, <2>3 DEF MailFits, Fits
<1>9. ArrivedHere'
  <2> SUFFICES ASSUME NEW d \in Clients
               PROVE  /\ socket_[d] = "none" => arrived[d] = <<>>
                      /\ \A j \in DOMAIN arrived[d] :
                           arrived[d][j].client = d /\ (d \in Named \/ arrived[d][j].conn = conn'[d])
    BY <1>2 DEF ArrivedHere
  <2>1. CASE d # c  BY <1>0, <1>2, <2>1 DEF ArrivedHere
  <2>2. CASE d = c  BY <1>0, <2>2
  <2> QED  BY <2>1, <2>2
<1> QED  BY <1>5, <1>8, <1>9 DEF MailInv

(***************************************************************************)
(* Once the reply has been read, or the socket closed, no message of it is *)
(* left that a later call could take for its own.                          *)
(***************************************************************************)
LEMMA MailReceive ==
  ASSUME IInv, TypeOK', NEW c \in Clients, Receive(c)
  PROVE  MailInv'
<1> DEFINE a == <<"arrived", c>>
<1> DEFINE m == Head(Mail[a])
<1>0. TypeOK /\ MailFits /\ ArrivedHere /\ a \in Boxes  BY BoxesAre DEF IInv
<1>1. /\ UNCHANGED <<calls, call, conn, frontend, inbox, job, outbox>>
      /\ socket_'[c] = "ready" /\ status'[c] = "idle"
      /\ arrived[c] # <<>> /\ arrived'[c] = Tail(arrived[c])
      /\ \A d \in Clients : d # c => /\ arrived'[d] = arrived[d]
                                     /\ socket_'[d] = socket_[d] /\ status'[d] = status[d]
  BY <1>0 DEF Receive, Return, TypeOK, brokervars, threads
<1>2. DOMAIN Mail' = Boxes /\ Mail[a] # <<>> /\ Mail'[a] = Tail(Mail[a]) /\ Mail[a] = arrived[c]
  BY <1>0, <1>1, MailNow, MailThen
<1>3. \A d \in Boxes : d \notin {a} => Mail'[d] = Mail[d]
  BY <1>0, <1>1, MailSame
<1>4. /\ DOMAIN Taken(a) = Boxes /\ Taken(a)[a] = Tail(Mail[a])
      /\ \A d \in Boxes : d # a => Taken(a)[d] = Mail[d]
      /\ 1 \in DOMAIN Mail[a] /\ m = Mail[a][1]
      /\ Sole(Taken(a)) /\ Absent(Taken(a), m)
      /\ \A q \in frontend : Absent(Taken(a), q) /\ ~Same(m, q)
      /\ \A d \in Boxes : \A i \in DOMAIN Taken(a)[d] :
           \E e \in Boxes : \E k \in DOMAIN Mail[e] : Taken(a)[d][i] = Mail[e][k]
  BY <1>0, <1>2, MailTaken
<1>5. m.client = c /\ (c \in Named \/ m.conn = conn[c]) /\ m.n # 0
  <2>1. m.client = c /\ (c \in Named \/ m.conn = conn[c])
    BY <1>0, <1>2, <1>4 DEF ArrivedHere
  <2>2. arrived[c] \in Seq(Reply)  BY <1>0 DEF TypeOK
  <2>3. m \in Reply  BY <1>1, <1>2, <2>2, TailElements
  <2>4. m.n # 0  BY <2>3 DEF Reply, CallIds
  <2> QED  BY <2>1, <2>4
<1> HIDE DEF m, a
<1>6. \A d \in Boxes : Mail'[d] = Taken(a)[d]  BY <1>2, <1>3, <1>4
<1>7. Sole(Mail') /\ Absent(Mail', m) /\ \A q \in frontend : Absent(Mail', q)
  BY <1>2, <1>4, <1>6 DEF Sole, Absent
<1>8. OneMessagePerSocket'
  BY <1>1, <1>7 DEF IInv, OneMessagePerSocket, Sole, Absent
<1>9. ASSUME NEW k \in Message, Fits(k), ~Same(k, m) PROVE Fits(k)'
  <2> SUFFICES ASSUME k.n # 0
               PROVE  /\ k.n <= calls' /\ k.conn <= conn'[k.client]
                      /\ k.n = call'[k.client].n => k.cmd = call'[k.client].cmd
                      /\ (k.client \notin Named /\ k.conn = conn'[k.client]) =>
                           /\ socket_'[k.client] # "ready"
                           /\ status'[k.client] = "wait" => k.n = call'[k.client].n
    BY DEF Fits
  <2>1. k.client \in Clients  BY MessageType
  <2>2. CASE k.client = c  BY <1>1, <1>5, <1>9, <2>2 DEF Fits, Same
  <2>3. CASE k.client # c  BY <1>1, <1>9, <2>1, <2>3 DEF Fits
  <2> QED  BY <2>2, <2>3
<1>10. MailFits'
  <2>1. ASSUME NEW b \in Boxes, NEW j \in DOMAIN Mail'[b]
        PROVE  \E k \in Message : k = Mail'[b][j] /\ Fits(k)'
    <3>0. PICK e \in Boxes : \E i \in DOMAIN Mail[e] : Mail'[b][j] = Mail[e][i]
      BY <1>4, <1>6
    <3>1. PICK i \in DOMAIN Mail[e] : Mail'[b][j] = Mail[e][i]  BY <3>0
    <3>2. Mail[e][i] \in Message /\ Fits(Mail[e][i])  BY <1>0, MailElement DEF MailFits
    <3>3. ~Same(Mail'[b][j], m)  BY <1>2, <1>7 DEF Absent
    <3>4. PICK k \in Message : k = Mail[e][i] /\ Fits(k)  BY <3>2
    <3> QED  BY <1>9, <3>1, <3>3, <3>4
  <2>2. ASSUME NEW r \in frontend' PROVE Fits(r)'
    <3>1. r \in Message /\ Fits(r) /\ ~Same(r, m)
      BY <1>0, <1>1, <1>4 DEF TypeOK, Message, MailFits, Same
    <3> QED  BY <1>9, <3>1
  <2> QED  BY <2>1, <2>2 DEF MailFits, Fits
<1>11. ArrivedHere'
  <2> SUFFICES ASSUME NEW d \in Clients
               PROVE  /\ socket_'[d] = "none" => arrived'[d] = <<>>
                      /\ \A j \in DOMAIN arrived'[d] :
                           arrived'[d][j].client = d /\ (d \in Named \/ arrived'[d][j].conn = conn[d])
    BY <1>1 DEF ArrivedHere
  <2>1. CASE d # c  BY <1>0, <1>1, <2>1 DEF ArrivedHere
  <2>2. CASE d = c
    <3>1. arrived[c] \in Seq(Reply)  BY <1>0 DEF TypeOK
    <3>2. \A j \in DOMAIN arrived'[c] :
            j + 1 \in DOMAIN arrived[c] /\ arrived'[c][j] = arrived[c][j + 1]
      BY <1>1, <3>1, TailElements
    <3>3. \A j \in DOMAIN arrived[c] : arrived[c][j].client = c /\ (c \in Named \/ arrived[c][j].conn = conn[c])
      BY <1>0 DEF ArrivedHere
    <3>4. socket_'[c] # "none"  BY <1>1
    <3> QED  BY <2>2, <3>2, <3>3, <3>4
  <2> QED  BY <2>1, <2>2
<1> QED  BY <1>8, <1>10, <1>11 DEF MailInv

LEMMA MailGivenUp ==
  ASSUME IInv, TypeOK', NEW c \in Clients, CallOnSentSocket(c) \/ Abandon(c)
  PROVE  MailInv'
<1>0. TypeOK /\ MailFits /\ ArrivedHere /\ calls \in Nat
  BY CallType DEF IInv
<1>1. /\ UNCHANGED <<call, conn, frontend, inbox, job, outbox>>
      /\ calls' = calls + 1 \/ calls' = calls
      /\ socket_'[c] # "ready" /\ status'[c] = "idle"
      /\ arrived'[c] = <<>>
      /\ \A d \in Clients : d # c => /\ arrived'[d] = arrived[d]
                                     /\ socket_'[d] = socket_[d] /\ status'[d] = status[d]
  <2>1. CASE CallOnSentSocket(c)
    BY <1>0, <2>1 DEF CallOnSentSocket, Return, TypeOK, brokervars, threads
  <2>2. CASE Abandon(c)
    <3>1. socket_[c] = "sent"  BY <2>2 DEF IInv, Callers, Abandon
    <3> QED  BY <1>0, <2>2, <3>1 DEF Abandon, Return, TypeOK, brokervars, threads
  <2> QED  BY <2>1, <2>2
<1>2. ASSUME NEW b \in Boxes PROVE Mail'[b] = Mail[b] \/ Mail'[b] = <<>>
  <2>1. CASE b = <<"arrived", c>>  BY <1>0, <1>1, <2>1, MailNow, MailThen
  <2>2. CASE b # <<"arrived", c>>
    <3>1. \A d \in Boxes : d \notin {<<"arrived", c>>} => Mail'[d] = Mail[d]
      BY <1>0, <1>1, MailSame
    <3> QED  BY <2>2, <3>1
  <2> QED  BY <2>1, <2>2
<1>3. \A d \in Boxes : \A i \in DOMAIN Mail'[d] : i \in DOMAIN Mail[d] /\ Mail'[d][i] = Mail[d][i]
  BY <1>2
<1>4. OneMessagePerSocket'
  <2>1. DOMAIN Mail = Boxes /\ DOMAIN Mail' = Boxes  BY <1>0, MailNow, MailThen
  <2>2. Sole(Mail) /\ \A q \in frontend : Absent(Mail, q)  BY DEF IInv, OneMessagePerSocket
  <2>3. Sole(Mail') /\ \A k : Absent(Mail, k) => Absent(Mail', k)
    BY <1>3, <2>1, <2>2, ShrinkSole
  <2> QED  BY <1>1, <2>2, <2>3 DEF IInv, OneMessagePerSocket, Sole, Absent
<1>5. ASSUME NEW k \in Message, Fits(k) PROVE Fits(k)'
  <2> SUFFICES ASSUME k.n # 0
               PROVE  /\ k.n <= calls' /\ k.conn <= conn'[k.client]
                      /\ k.n = call'[k.client].n => k.cmd = call'[k.client].cmd
                      /\ (k.client \notin Named /\ k.conn = conn'[k.client]) =>
                           /\ socket_'[k.client] # "ready"
                           /\ status'[k.client] = "wait" => k.n = call'[k.client].n
    BY DEF Fits
  <2>1. k.client \in Clients /\ k.n \in Nat /\ k.n <= calls  BY <1>5, MessageType DEF Fits
  <2>2. k.n <= calls'  BY <1>0, <1>1, <2>1
  <2>3. CASE k.client = c  BY <1>1, <1>5, <2>2, <2>3 DEF Fits
  <2>4. CASE k.client # c  BY <1>1, <1>5, <2>1, <2>2, <2>4 DEF Fits
  <2> QED  BY <2>3, <2>4
<1>6. MailFits'
  <2>1. ASSUME NEW b \in Boxes, NEW j \in DOMAIN Mail'[b]
        PROVE  \E k \in Message : k = Mail'[b][j] /\ Fits(k)'
    <3>1. j \in DOMAIN Mail[b] /\ Mail'[b][j] = Mail[b][j]  BY <1>3
    <3>2. PICK k \in Message : k = Mail[b][j] /\ Fits(k)
      BY <1>0, <3>1, MailElement DEF MailFits
    <3> QED  BY <1>5, <3>1, <3>2
  <2>2. ASSUME NEW r \in frontend' PROVE Fits(r)'
    BY <1>0, <1>1, <1>5 DEF TypeOK, Message, MailFits
  <2> QED  BY <2>1, <2>2 DEF MailFits, Fits
<1>7. ArrivedHere'
  <2> SUFFICES ASSUME NEW d \in Clients
               PROVE  /\ socket_'[d] = "none" => arrived'[d] = <<>>
                      /\ \A j \in DOMAIN arrived'[d] :
                           arrived'[d][j].client = d /\ (d \in Named \/ arrived'[d][j].conn = conn[d])
    BY <1>1 DEF ArrivedHere
  <2>1. CASE d # c  BY <1>0, <1>1, <2>1 DEF ArrivedHere
  <2>2. CASE d = c  BY <1>1, <2>2
  <2> QED  BY <2>1, <2>2
<1> QED  BY <1>4, <1>6, <1>7 DEF MailInv

LEMMA MailStep == IInv /\ [Next]_vars => MailInv'
<1> SUFFICES ASSUME IInv, [Next]_vars PROVE MailInv'
  OBVIOUS
<1>0. TypeOK'  BY TypeStep
<1>1. ASSUME NEW c \in Clients,
             (\E m \in Commands : Call(c, m)) \/ CallOnSentSocket(c) \/ Calling(c)
      PROVE  MailInv'
  BY <1>0, <1>1, MailCall, MailGivenUp, MailReceive, MailRetry DEF Calling
<1>2. ASSUME Broking \/ Interrupt PROVE MailInv'
  <2>1. CASE \E w \in Workers : HandleBackend(w)  BY <1>0, <2>1, MailBackend
  <2>2. CASE \E q \in frontend : HandleFrontend(q)  BY <1>0, <2>2, MailFrontend
  <2>3. CASE Fini  BY <1>0, <2>3, MailDrops
  <2>4. CASE JoinAll \/ Interrupt
    BY <1>0, <2>4, MailQuiet DEF JoinAll, Interrupt, clientvars, threads
  <2> QED  BY <1>2, <2>1, <2>2, <2>3, <2>4 DEF Broking
<1>3. ASSUME NEW w \in Workers, Working(w) PROVE MailInv'
  <2>1. CASE Ready(w) \/ RecvFails(w)  BY <1>0, <2>1, MailDrops
  <2>2. CASE Recv(w)  BY <1>0, <2>2, MailRecv
  <2>3. CASE SendReply(w)  BY <1>0, <2>3, MailSendReply
  <2>4. CASE \/ Cache(w) \/ CacheFails(w) \/ NoMySql(w) \/ getKVSTableName(w)
             \/ Query(w) \/ QueryFails(w) \/ Fill(w)
    BY <1>0, <2>4, MailQuiet DEF Cache, CacheFails, NoMySql, getKVSTableName, Query,
         QueryFails, Fill, clientvars, brokervars
  <2>5. CASE ReadyThrows(w)
    BY <1>0, <2>5, MailQuiet DEF ReadyThrows, clientvars, threads
  <2> QED  BY <1>3, <2>1, <2>2, <2>3, <2>4, <2>5 DEF Working
<1>4. CASE UNCHANGED vars
  BY <1>0, <1>4, MailQuiet DEF vars, clientvars, brokervars, threads
<1> QED  BY <1>1, <1>2, <1>3, <1>4 DEF Next

-----------------------------------------------------------------------------
(***************************************************************************)
(* What the replies say.  TrueOK in the next state; what was executed      *)
(* stays executed.                                                         *)
(***************************************************************************)
OKThen(cmd, n, body) ==
    (body = "OK" /\ cmd # "get" /\ ~s_cacheonly')
        => n \in stored' \/ (cmd = "set" /\ n \in unready')

LEMMA StoredGrows ==
  [Next]_vars => /\ stored \subseteq stored' /\ unready \subseteq unready'
                 /\ s_cacheonly' = s_cacheonly
<1> SUFFICES ASSUME [Next]_vars
             PROVE  /\ stored \subseteq stored' /\ unready \subseteq unready'
                    /\ s_cacheonly' = s_cacheonly
  OBVIOUS
<1> USE DEF clientvars, brokervars, threads, stores, history
<1>1. ASSUME NEW c \in Clients,
             (\E m \in Commands : Call(c, m)) \/ CallOnSentSocket(c) \/ Calling(c)
      PROVE  UNCHANGED <<stored, unready, s_cacheonly>>
  BY <1>1 DEF Call, CallOnSentSocket, Calling, Receive, Retry, Again, Abandon
<1>2. Broking \/ Interrupt => UNCHANGED <<stored, unready, s_cacheonly>>
  BY DEF Broking, Interrupt, HandleBackend, HandleFrontend, Fini, JoinAll
<1>3. ASSUME NEW w \in Workers, Working(w)
      PROVE  /\ stored \subseteq stored' /\ unready \subseteq unready'
             /\ s_cacheonly' = s_cacheonly
  BY <1>3 DEF Working, Ready, ReadyThrows, Recv, RecvFails, Cache, CacheFails, NoMySql,
       getKVSTableName, Query, QueryFails, Fill, SendReply
<1> QED  BY <1>1, <1>2, <1>3 DEF Next, vars

LEMMA TrueOKStays ==
  ASSUME [Next]_vars, NEW cmd, NEW n, NEW body, TrueOK(cmd, n, body)
  PROVE  OKThen(cmd, n, body)
BY StoredGrows DEF TrueOK, OKThen

LEMMA HandlersTrue ==
  ASSUME IInv, [Next]_vars, NEW v \in Workers,
         pc'[v] \in {"cache", "name", "query", "fill", "log", "reply"}
  PROVE  OKThen(job'[v].cmd, job'[v].n, reply'[v])
<1> DEFINE stages == {"cache", "name", "query", "fill", "log", "reply"}
<1>0. TypeOK /\ Jobs /\ RepliesTrue /\ None # "OK"  BY CacheAssumption DEF IInv
<1>1. CASE pc[v] \in stages /\ job'[v] = job[v] /\ reply'[v] = reply[v]
  <2>1. TrueOK(job[v].cmd, job[v].n, reply[v])  BY <1>0, <1>1 DEF RepliesTrue, Busy
  <2> QED  BY <1>1, <2>1, TrueOKStays
<1>2. CASE reply'[v] = None  BY <1>0, <1>2 DEF OKThen
<1>3. ASSUME NEW w \in Workers, Working(w), v # w
      PROVE  pc'[v] = pc[v] /\ job'[v] = job[v] /\ reply'[v] = reply[v]
  BY <1>0, <1>3 DEF Working, Ready, ReadyThrows, Recv, RecvFails, Cache, CacheFails, NoMySql,
       getKVSTableName, Query, QueryFails, Fill, SendReply, TypeOK, threads
<1>4. CASE Working(v)
  <2>0. pc[v] \in stages => job[v] \in Request  BY <1>0 DEF Jobs, Busy
  <2>1. CASE Ready(v) \/ RecvFails(v)
    BY <1>0, <2>1 DEF Ready, RecvFails, Onward, TypeOK
  <2>2. CASE Recv(v)
    <3>1. reply[v] = None /\ reply' = reply  BY <1>0, <2>2 DEF Recv, Jobs, Busy
    <3> QED  BY <1>2, <3>1
  <2>3. CASE Cache(v)
    <3>1. job[v].cmd \in {"get", "set", "del"}  BY <2>0, <2>3 DEF Cache, Request
    <3>2. job'[v].cmd = job[v].cmd /\ s_cacheonly' = s_cacheonly  BY <2>3 DEF Cache
    <3>3. job[v].cmd # "get" /\ ~s_cacheonly => reply'[v] = None
      BY <1>0, <2>3 DEF Cache, TypeOK
    <3> QED  BY <1>0, <3>2, <3>3 DEF OKThen
  <2>4. CASE CacheFails(v)
    <3>1. job'[v].cmd = job[v].cmd /\ s_cacheonly' = s_cacheonly  BY <2>4 DEF CacheFails
    <3>2. ~s_cacheonly => reply'[v] = None  BY <1>0, <2>4 DEF CacheFails, TypeOK
    <3> QED  BY <1>0, <3>1, <3>2 DEF OKThen
  <2>5. CASE NoMySql(v)
    <3>1. job'[v] = job[v] /\ job[v].n \in unready'  BY <2>5 DEF NoMySql
    <3>2. job[v].cmd # "set" => reply'[v] = None  BY <1>0, <2>5 DEF NoMySql, TypeOK
    <3> QED  BY <1>0, <3>1, <3>2 DEF OKThen
  <2>6. CASE getKVSTableName(v)
    <3>1. pc[v] \in stages /\ job'[v] = job[v] /\ reply'[v] = reply[v]
      BY <2>6 DEF getKVSTableName
    <3> QED  BY <1>1, <3>1
  <2>7. CASE Query(v)
    <3>1. job'[v] = job[v] /\ job[v].n \in stored'  BY <2>7 DEF Query
    <3> QED  BY <3>1 DEF OKThen
  <2>8. CASE QueryFails(v) \/ Fill(v)
    <3>1. pc[v] \in stages /\ job'[v] = job[v] /\ reply'[v] = reply[v]
      BY <2>8 DEF QueryFails, Fill
    <3> QED  BY <1>1, <3>1
  <2>9. CASE SendReply(v)
    BY <1>0, <2>9 DEF SendReply, Onward, TypeOK
  <2>10. CASE ReadyThrows(v)  BY <1>1, <2>10 DEF ReadyThrows, threads
  <2> QED  BY <1>4, <2>1, <2>2, <2>3, <2>4, <2>5, <2>6, <2>7, <2>8, <2>9, <2>10 DEF Working
<1>5. ASSUME UNCHANGED <<pc, job, reply>>
      PROVE  OKThen(job'[v].cmd, job'[v].n, reply'[v])
  BY <1>1, <1>5
<1>6. ASSUME NEW c \in Clients,
             (\E m \in Commands : Call(c, m)) \/ CallOnSentSocket(c) \/ Calling(c)
      PROVE  UNCHANGED <<pc, job, reply>>
  BY <1>6 DEF Call, CallOnSentSocket, Calling, Receive, Retry, Again, Abandon, threads
<1>7. Broking \/ Interrupt => UNCHANGED <<pc, job, reply>>
  BY DEF Broking, Interrupt, HandleBackend, HandleFrontend, Fini, JoinAll, threads
<1>8. (\E w \in Workers : Working(w)) => OKThen(job'[v].cmd, job'[v].n, reply'[v])
  BY <1>1, <1>3, <1>4
<1> QED  BY <1>5, <1>6, <1>7, <1>8 DEF Next, vars, threads

LEMMA OutboxTrue ==
  ASSUME IInv, [Next]_vars, NEW v \in Workers, NEW j \in DOMAIN outbox'[v],
         outbox'[v][j].n # 0
  PROVE  OKThen(outbox'[v][j].cmd, outbox'[v][j].n, outbox'[v][j].body)
<1> DEFINE goal == OKThen(outbox'[v][j].cmd, outbox'[v][j].n, outbox'[v][j].body)
<1>0. TypeOK /\ Jobs /\ RepliesTrue  BY DEF IInv
<1>a. outbox \in [Workers -> Seq(Reply \cup {READY})]  BY <1>0 DEF TypeOK
<1>1. ASSUME NEW i \in DOMAIN outbox[v], outbox'[v][j] = outbox[v][i] PROVE goal
  <2>1. TrueOK(outbox[v][i].cmd, outbox[v][i].n, outbox[v][i].body)
    BY <1>0, <1>1 DEF RepliesTrue
  <2> QED  BY <1>1, <2>1, TrueOKStays
<1>2. ASSUME outbox'[v] = outbox[v] PROVE goal
  BY <1>1, <1>2
<1>3. ASSUME NEW w \in Workers, HandleBackend(w) PROVE goal
  <2>1. CASE w = v
    <3>1. outbox[v] \in Seq(Reply \cup {READY}) /\ outbox[v] # <<>> /\ outbox'[v] = Tail(outbox[v])
      BY <1>a, <1>3, <2>1 DEF HandleBackend
    <3>2. j + 1 \in DOMAIN outbox[v] /\ outbox'[v][j] = outbox[v][j + 1]
      BY <3>1, TailElements
    <3> QED  BY <1>1, <3>2
  <2>2. CASE w # v  BY <1>2, <1>3, <2>2, <1>a DEF HandleBackend
  <2> QED  BY <2>1, <2>2
<1>4. ASSUME NEW w \in Workers, Ready(w) PROVE goal
  <2>1. CASE w = v
    <3>1. outbox'[v] = <<READY>> \/ outbox'[v] = <<>>  BY <1>a, <1>4, <2>1 DEF Ready
    <3>2. outbox'[v][j] = READY  BY <3>1
    <3> QED  BY <3>2 DEF READY
  <2>2. CASE w # v  BY <1>2, <1>4, <2>2, <1>a DEF Ready
  <2> QED  BY <2>1, <2>2
<1>5. ASSUME NEW w \in Workers, SendReply(w) PROVE goal
  <2> DEFINE m == [client |-> job[w].client, conn |-> job[w].conn,
                   n |-> job[w].n, cmd |-> job[w].cmd, body |-> reply[w]]
  <2>1. CASE outbox' = outbox  BY <1>2, <2>1
  <2>2. CASE w # v /\ outbox' = [outbox EXCEPT ![w] = Append(@, m)]
    BY <1>2, <2>2, <1>a
  <2>3. CASE w = v /\ outbox' = [outbox EXCEPT ![w] = Append(@, m)]
    <3>1. outbox'[v] = Append(outbox[v], m)  BY <1>a, <2>3
    <3>2. w \in Busy  BY <1>5 DEF SendReply, Busy
    <3>3. TrueOK(job[w].cmd, job[w].n, reply[w]) /\ job[w] \in Request
      BY <1>0, <3>2 DEF RepliesTrue, Jobs
    <3>4. outbox[v] \in Seq(Reply \cup {READY})  BY <1>a
    <3>5. \/ j \in DOMAIN outbox[v] /\ outbox'[v][j] = outbox[v][j]
          \/ outbox'[v][j] = m
      BY <3>1, <3>4
    <3>6. OKThen(job[w].cmd, job[w].n, reply[w])  BY <3>3, TrueOKStays
    <3>7. CASE outbox'[v][j] = m
      <4>1. m.cmd = job[w].cmd /\ m.n = job[w].n /\ m.body = reply[w]  OBVIOUS
      <4>2. /\ outbox'[v][j].cmd = job[w].cmd /\ outbox'[v][j].n = job[w].n
            /\ outbox'[v][j].body = reply[w]
        BY ONLY <3>7, <4>1
      <4> QED  BY <3>6, <4>2
    <3> QED  BY <1>1, <3>5, <3>7
  <2> QED  BY <1>5, <2>1, <2>2, <2>3 DEF SendReply
<1>6. ASSUME Fini PROVE goal
  <2>1. outbox'[v] = <<>>  BY <1>6 DEF Fini
  <2> QED  BY <2>1
<1>7. ASSUME NEW c \in Clients,
             (\E m \in Commands : Call(c, m)) \/ CallOnSentSocket(c) \/ Calling(c)
      PROVE  outbox' = outbox
  BY <1>7 DEF Call, CallOnSentSocket, Calling, Receive, Retry, Again, Abandon, threads
<1>8. ASSUME JoinAll \/ Interrupt \/ (\E q \in frontend : HandleFrontend(q)) PROVE outbox' = outbox
  BY <1>8 DEF Interrupt, HandleFrontend, JoinAll, threads
<1>9. ASSUME NEW w \in Workers, Working(w), ~Ready(w), ~SendReply(w) PROVE outbox' = outbox
  BY <1>9 DEF Working, ReadyThrows, Recv, RecvFails, Cache, CacheFails, NoMySql,
       getKVSTableName, Query, QueryFails, Fill, threads
<1>10. CASE UNCHANGED vars  BY <1>2, <1>10 DEF vars, threads
<1>11. ASSUME Broking PROVE goal  BY <1>2, <1>3, <1>6, <1>8, <1>11 DEF Broking
<1>12. ASSUME NEW w \in Workers, Working(w) PROVE goal  BY <1>2, <1>4, <1>5, <1>9, <1>12
<1> QED  BY <1>2, <1>7, <1>8, <1>10, <1>11, <1>12 DEF Next

LEMMA ArrivedTrue ==
  ASSUME IInv, [Next]_vars, NEW d \in Clients, NEW j \in DOMAIN arrived'[d]
  PROVE  OKThen(arrived'[d][j].cmd, arrived'[d][j].n, arrived'[d][j].body)
<1> DEFINE goal == OKThen(arrived'[d][j].cmd, arrived'[d][j].n, arrived'[d][j].body)
<1>0. TypeOK /\ RepliesTrue  BY DEF IInv
<1>a. arrived \in [Clients -> Seq(Reply)] /\ outbox \in [Workers -> Seq(Reply \cup {READY})]
  BY <1>0 DEF TypeOK
<1>1. ASSUME NEW i \in DOMAIN arrived[d], arrived'[d][j] = arrived[d][i] PROVE goal
  <2>1. TrueOK(arrived[d][i].cmd, arrived[d][i].n, arrived[d][i].body)
    BY <1>0, <1>1 DEF RepliesTrue
  <2> QED  BY <1>1, <2>1, TrueOKStays
<1>2. ASSUME arrived'[d] = arrived[d] PROVE goal
  BY <1>1, <1>2
<1>3. ASSUME NEW w \in Workers, HandleBackend(w) PROVE goal
  <2> DEFINE m == Head(outbox[w])
  <2>1. CASE arrived' = arrived  BY <1>2, <2>1
  <2>2. CASE m # READY /\ arrived' = [arrived EXCEPT ![m.client] = Append(@, m)]
    <3>1. outbox[w] \in Seq(Reply \cup {READY}) /\ outbox[w] # <<>>
      BY <1>a, <1>3 DEF HandleBackend
    <3>2. m \in Reply \cup {READY} /\ m = outbox[w][1] /\ 1 \in DOMAIN outbox[w]
      BY <3>1, TailElements
    <3>3. m \in Reply /\ m.n # 0 /\ m.client \in Clients
      <4>1. m \in Reply  BY <2>2, <3>2
      <4> QED  BY <4>1, CacheAssumption DEF Reply, CallIds
    <3>4. TrueOK(m.cmd, m.n, m.body)  BY <1>0, <3>2, <3>3 DEF RepliesTrue
    <3>5. OKThen(m.cmd, m.n, m.body)  BY <3>4, TrueOKStays
    <3>6. CASE d # m.client  BY <1>2, <2>2, <3>6, <1>a
    <3>7. CASE d = m.client
      <4>1. arrived'[d] = Append(arrived[d], m) /\ arrived[d] \in Seq(Reply)
        BY <1>a, <2>2, <3>7
      <4>2. \/ j \in DOMAIN arrived[d] /\ arrived'[d][j] = arrived[d][j]
            \/ arrived'[d][j] = m
        BY <3>3, <4>1, AppendElements
      <4> QED  BY <1>1, <3>5, <4>2
    <3> QED  BY <3>6, <3>7
  <2> QED  BY <1>3, <2>1, <2>2 DEF HandleBackend, Route
<1>4. ASSUME NEW c \in Clients, Receive(c) PROVE goal
  <2>1. CASE c = d
    <3>1. arrived[d] \in Seq(Reply) /\ arrived[d] # <<>> /\ arrived'[d] = Tail(arrived[d])
      BY <1>a, <1>4, <2>1 DEF Receive
    <3>2. j + 1 \in DOMAIN arrived[d] /\ arrived'[d][j] = arrived[d][j + 1]
      BY <3>1, TailElements
    <3> QED  BY <1>1, <3>2
  <2>2. CASE c # d  BY <1>2, <1>4, <2>2, <1>a DEF Receive
  <2> QED  BY <2>1, <2>2
<1>5. ASSUME NEW c \in Clients, CallOnSentSocket(c) PROVE goal
  <2>1. CASE c = d
    <3>1. arrived'[d] = <<>>  BY <1>a, <1>5, <2>1 DEF CallOnSentSocket
    <3> QED  BY <3>1
  <2>2. CASE c # d  BY <1>2, <1>5, <2>2, <1>a DEF CallOnSentSocket
  <2> QED  BY <2>1, <2>2
<1>6. ASSUME NEW c \in Clients, Retry(c) \/ Abandon(c) PROVE arrived' = arrived
  BY <1>6 DEF Retry, Again, Abandon
<1>6b. ASSUME NEW c \in Clients, NEW m \in Commands, Call(c, m) PROVE goal
  <2>1. arrived'[d] = arrived[d] \/ arrived'[d] = <<>>  BY <1>a, <1>6b DEF Call
  <2> QED  BY <1>2, <2>1
<1>7. ASSUME Fini \/ JoinAll \/ Interrupt \/ (\E q \in frontend : HandleFrontend(q))
      PROVE  arrived' = arrived
  BY <1>7 DEF Fini, Interrupt, HandleFrontend, JoinAll, clientvars
<1>8. ASSUME NEW w \in Workers, Working(w) PROVE arrived' = arrived
  BY <1>8 DEF Working, Ready, ReadyThrows, Recv, RecvFails, Cache, CacheFails, NoMySql, getKVSTableName,
       Query, QueryFails, Fill, SendReply, clientvars
<1>9. CASE UNCHANGED vars  BY <1>2, <1>9 DEF vars, clientvars
<1> QED  BY <1>2, <1>3, <1>4, <1>5, <1>6, <1>6b, <1>7, <1>8, <1>9
        DEF Next, Calling, Broking

LEMMA RepliesStep == IInv /\ [Next]_vars => RepliesTrue'
<1> SUFFICES ASSUME IInv, [Next]_vars PROVE RepliesTrue'
  OBVIOUS
<1>1. \A w \in Busy' : OKThen(job'[w].cmd, job'[w].n, reply'[w])
  BY HandlersTrue DEF Busy
<1>2. \A w \in Workers : \A i \in DOMAIN outbox'[w] :
        outbox'[w][i].n # 0 => OKThen(outbox'[w][i].cmd, outbox'[w][i].n, outbox'[w][i].body)
  BY OutboxTrue
<1>3. \A c \in Clients : \A i \in DOMAIN arrived'[c] :
        OKThen(arrived'[c][i].cmd, arrived'[c][i].n, arrived'[c][i].body)
  BY ArrivedTrue
<1> QED  BY <1>1, <1>2, <1>3 DEF RepliesTrue, TrueOK, OKThen

-----------------------------------------------------------------------------
(***************************************************************************)
(* What a call's result says.                                              *)
(***************************************************************************)
StoredThen(c) ==
    (call'[c].n > 0 /\ result'[call'[c].n] = "true" /\ call'[c].cmd # "get" /\ ~s_cacheonly')
        => \/ call'[c].n \in stored'
           \/ call'[c].cmd = "set" /\ call'[c].n \in unready'

LEMMA ResultTrue ==
  ASSUME IInv, [Next]_vars, NEW d \in Clients \ Named
  PROVE  StoredThen(d)
<1>0. TypeOK /\ Callers /\ TrueMeansStored /\ result \in [CallIds -> {"none", "true", "false"}]
  BY DEF IInv, TypeOK
<1>a. \A c \in Clients :
        /\ calls \in Nat /\ call[c].n \in Nat /\ call[c].n <= calls
        /\ call[c].n > 0 => call[c] \in Request /\ call[c].n \in CallIds
  BY CallType
<1>b. stored \subseteq stored' /\ unready \subseteq unready' /\ s_cacheonly' = s_cacheonly
  BY StoredGrows
<1>1. ASSUME call'[d].n = call[d].n, call'[d].cmd = call[d].cmd,
             call[d].n > 0 /\ result'[call[d].n] = "true" => result[call[d].n] = "true"
      PROVE  StoredThen(d)
  BY <1>0, <1>1, <1>b DEF TrueMeansStored, StoredThen
<1>2. ASSUME NEW c \in Clients, NEW m \in Commands, Call(c, m) PROVE StoredThen(d)
  <2>1. CASE c = d
    <3>1. call'[d].n = calls + 1 /\ result' = result
      BY <1>0, <1>2, <2>1 DEF Call, history, TypeOK
    <3>2. calls + 1 \in CallIds  BY <1>a, <1>2, CacheAssumption DEF Call, CallIds
    <3>3. result[calls + 1] = "none"  BY <1>0, <1>a, <3>2 DEF Callers
    <3> QED  BY <3>1, <3>3 DEF StoredThen
  <2>2. CASE c # d
    <3>1. call'[d] = call[d] /\ result' = result
      BY <1>0, <1>2, <2>2 DEF Call, history, TypeOK
    <3> QED  BY <1>1, <3>1
  <2> QED  BY <2>1, <2>2
<1>3. ASSUME NEW c \in Clients, CallOnSentSocket(c) PROVE StoredThen(d)
  <2>1. call' = call /\ result' = [result EXCEPT ![calls + 1] = "false"]
    BY <1>3 DEF CallOnSentSocket, Return
  <2>2. call[d].n > 0 => result'[call[d].n] = result[call[d].n]
    BY <1>0, <1>a, <2>1
  <2> QED  BY <1>1, <2>1, <2>2
<1>4. ASSUME NEW c \in Clients, Abandon(c) PROVE StoredThen(d)
  <2>1. call' = call /\ result' = [result EXCEPT ![call[c].n] = "false"]
    BY <1>4 DEF Abandon, Return
  <2>2. call[d].n > 0 /\ result'[call[d].n] = "true" => result[call[d].n] = "true"
    BY <1>0, <1>a, <2>1
  <2> QED  BY <1>1, <2>1, <2>2
<1>5. ASSUME NEW c \in Clients, Retry(c) PROVE StoredThen(d)
  <2>1. call' = [call EXCEPT ![c].conn = conn[c] + 1] /\ result' = result
    BY <1>5 DEF Retry, Again, history
  <2>2. call[c] \in Request  BY <1>0, <1>5 DEF Retry, Callers
  <2>3. [call[c] EXCEPT !.conn = conn[c] + 1].n = call[c].n
        /\ [call[c] EXCEPT !.conn = conn[c] + 1].cmd = call[c].cmd
    BY <2>2 DEF Request
  <2>4. DOMAIN call = Clients  BY <1>0 DEF TypeOK
  <2>5. CASE c = d
    <3>1. call'[d] = [call[d] EXCEPT !.conn = conn[c] + 1]  BY <2>1, <2>4, <2>5
    <3> QED  BY <1>1, <2>1, <2>3, <2>5, <3>1
  <2>6. CASE c # d
    <3>1. call'[d] = call[d]  BY <2>1, <2>4, <2>6
    <3> QED  BY <1>1, <2>1, <3>1
  <2> QED  BY <2>5, <2>6
<1>6. ASSUME NEW c \in Clients, Receive(c) PROVE StoredThen(d)
  <2> DEFINE m == Head(arrived[c])
  <2> DEFINE outcome == IF call[c].cmd = "get" \/ m.body = "OK" THEN "true" ELSE "false"
  <2>1. call' = call /\ result' = [result EXCEPT ![call[c].n] = outcome]
    BY <1>6 DEF Receive, Return
  <2>2. CASE c # d
    <3>1. call[d].n > 0 => call[d].n # call[c].n  BY <1>0, <2>2 DEF Callers
    <3>2. call[d].n > 0 => result'[call[d].n] = result[call[d].n]
      BY <1>0, <1>a, <2>1, <3>1
    <3> QED  BY <1>1, <2>1, <3>2
  <2>3. CASE c = d
    <3>1. arrived[c] \in Seq(Reply) /\ arrived[c] # <<>>
      BY <1>0, <1>6 DEF TypeOK, Receive
    <3>2. m = arrived[c][1] /\ 1 \in DOMAIN arrived[c] /\ m \in Reply
      BY <3>1, TailElements
    <3>3. m.n # 0  BY <3>2, CacheAssumption DEF Reply, CallIds
    <3>4. m.client = c /\ m.conn = conn[c] /\ c \notin Named
      BY <2>3, <3>2 DEF IInv, ArrivedHere
    <3>5. Fits(m)
      <4>1. <<"arrived", c>> \in Boxes /\ Mail[<<"arrived", c>>] = arrived[c]
        BY <1>0, MailNow, BoxesAre
      <4> QED  BY <3>2, <4>1 DEF IInv, MailFits
    <3>6. status[c] = "wait"  BY <1>6 DEF Receive
    <3>7. m.n = call[c].n /\ m.cmd = call[c].cmd  BY <3>3, <3>4, <3>5, <3>6 DEF Fits
    <3>8. TrueOK(m.cmd, m.n, m.body)  BY <3>2 DEF IInv, RepliesTrue
    <3>9. call[c].n > 0 => result'[call[c].n] = outcome  BY <1>0, <1>a, <2>1
    <3> QED  BY <1>b, <2>1, <2>3, <3>7, <3>8, <3>9 DEF StoredThen, TrueOK
  <2> QED  BY <2>2, <2>3
<1>7. ASSUME Broking \/ Interrupt PROVE call' = call /\ result' = result
  BY <1>7 DEF Broking, Interrupt, HandleBackend, HandleFrontend, Fini, JoinAll, clientvars, history
<1>8. ASSUME NEW w \in Workers, Working(w) PROVE call' = call /\ result' = result
  BY <1>8 DEF Working, Ready, ReadyThrows, Recv, RecvFails, Cache, CacheFails, NoMySql, getKVSTableName,
       Query, QueryFails, Fill, SendReply, clientvars, history
<1>9. ASSUME call' = call, result' = result PROVE StoredThen(d)  BY <1>1, <1>9
<1> QED
  BY <1>2, <1>3, <1>4, <1>5, <1>6, <1>7, <1>8, <1>9 DEF Next, Calling, vars, clientvars, history

LEMMA StoredStep == IInv /\ [Next]_vars => TrueMeansStored'
BY ResultTrue DEF TrueMeansStored, StoredThen

-----------------------------------------------------------------------------
LEMMA InitIInv == Init => IInv
<1> SUFFICES ASSUME Init PROVE IInv
  OBVIOUS
<1>1. TypeOK
  <2>1. pc \in [Workers -> {"new", "failed", "recv", "gone", "cache", "name", "query",
                            "fill", "log", "reply"}]
    BY DEF Init, WorkerInit
  <2>2. <<>> \in Seq(Reply) /\ <<>> \in Seq(Request) /\ <<>> \in Seq(Reply \cup {READY})
        /\ <<>> \in Seq(Workers)
    OBVIOUS
  <2>3. /\ arrived \in [Clients -> Seq(Reply)] /\ inbox \in [Workers -> Seq(Request)]
        /\ outbox \in [Workers -> Seq(Reply \cup {READY})] /\ worker_queue \in Seq(Workers)
    BY <2>2 DEF Init
  <2>4. /\ calls \in 0..MaxCalls /\ failed \in 0..MaxFailures
        /\ retries_left \in [Clients -> 0..REQUEST_RETRIES] /\ worker_queue_selector \in Nat
        /\ conn \in [Clients -> Nat] /\ s_cacheonly \in BOOLEAN
    BY CacheAssumption DEF Init
  <2>5. /\ call \in [Clients -> Request \cup {NoRequest}]
        /\ job \in [Workers -> Request \cup {NoRequest}]
        /\ reply \in [Workers -> Values \cup {None, "OK"}]
        /\ redis \in [Keys -> Values \cup {None}]
        /\ mysql \in [Tables -> [Keys -> Values \cup {None}]]
        /\ result \in [CallIds -> {"none", "true", "false"}]
        /\ status \in [Clients -> {"idle", "wait"}]
        /\ socket_ \in [Clients -> {"none", "ready", "sent"}]
    BY DEF Init
  <2>6. /\ frontend = {} /\ stored = {} /\ unready = {} /\ raced = FALSE /\ broker = "run"
        /\ s_interrupted = FALSE /\ name = None
    BY DEF Init
  <2> QED  BY <2>1, <2>3, <2>4, <2>5, <2>6 DEF TypeOK
<1>2. Busy = {}  BY DEF Init, WorkerInit, Busy
<1>3. Jobs
  <2>1. \A w \in Workers : pc[w] \in {"new", "failed"}  BY DEF Init, WorkerInit
  <2> QED  BY <1>2, <2>1 DEF Init, Jobs
<1>4. Callers
  <2>1. \A c \in Clients : call[c].n = 0  BY DEF Init, NoRequest
  <2> QED  BY <2>1 DEF Init, Callers
<1>5. ASSUME NEW b \in Boxes, NEW i \in DOMAIN Mail[b] PROVE Mail[b][i].n = 0
  <2>1. /\ \A w \in Workers : inbox[w] = <<>> /\ outbox[w] = <<>> /\ job[w].n = 0
        /\ \A c \in Clients : arrived[c] = <<>>
    BY DEF Init, NoRequest
  <2>2. Mail[b] = <<>> \/ \E w \in Workers : Mail[b] = <<job[w]>>
    <3>1. CASE \E w \in Workers : b \in {<<"inbox", w>>, <<"job", w>>, <<"outbox", w>>}
      BY <1>1, <2>1, <3>1, MailNow
    <3>2. CASE \E c \in Clients : b = <<"arrived", c>>  BY <1>1, <2>1, <3>2, MailNow
    <3> QED  BY <3>1, <3>2, BoxesAre
  <2> QED  BY <2>1, <2>2
<1>6. OneMessagePerSocket
  <2>1. DOMAIN Mail = Boxes  BY DEF Mail
  <2>2. frontend = {}  BY DEF Init
  <2> QED  BY <1>5, <2>1, <2>2 DEF OneMessagePerSocket, Sole, Same
<1>7. MailFits  BY <1>5 DEF MailFits, Fits, Init
<1>8. ArrivedHere  BY DEF Init, ArrivedHere
<1>9. RepliesTrue  BY <1>2 DEF Init, RepliesTrue
<1>10. TrueMeansStored
  <2>1. \A c \in Clients : call[c].n = 0  BY DEF Init, NoRequest
  <2> QED  BY <2>1 DEF TrueMeansStored
<1> QED  BY <1>1, <1>3, <1>4, <1>6, <1>7, <1>8, <1>9, <1>10 DEF IInv

LEMMA NextIInv == IInv /\ [Next]_vars => IInv'
BY TypeStep, JobsStep, CallersStep, MailStep, RepliesStep, StoredStep DEF IInv, MailInv

(***************************************************************************)
(* The strengthening is inductive: it holds in every reachable state of    *)
(* the client, the broker and the workers.                                 *)
(***************************************************************************)
THEOREM Invariance == Spec => []IInv
BY InitIInv, NextIInv, PTL DEF Spec

(***************************************************************************)
(* Every variable of client, broker and workers keeps its type: a worker   *)
(* runs one request at a time, and calls, retries and failures stay within *)
(* their bounds.                                                           *)
(***************************************************************************)
THEOREM TypeCorrect == Spec => []TypeOK
<1>1. IInv => TypeOK  BY DEF IInv
<1> QED  BY <1>1, Invariance, PTL

(***************************************************************************)
(* Of any number of clients, one without a name that waits in request()    *)
(* has on its socket no reply but to the call it is in, although it never  *)
(* compares the id: the new sockets of the retries, each of which the      *)
(* server knows apart, and the lock step of REQ sockets suffice.           *)
(***************************************************************************)
THEOREM AnswersMatchCalls == Spec => []ReplyAnswersCall
<1>1. IInv => ReplyAnswersCall
  <2> SUFFICES ASSUME IInv, NEW c \in Clients \ Named, status[c] = "wait",
                      NEW i \in DOMAIN arrived[c]
               PROVE  arrived[c][i].n = call[c].n
    BY DEF ReplyAnswersCall
  <2>1. arrived[c][i].client = c /\ c \notin Named /\ arrived[c][i].conn = conn[c]
    BY DEF IInv, ArrivedHere
  <2>2. <<"arrived", c>> \in Boxes /\ Mail[<<"arrived", c>>] = arrived[c]
    BY MailNow, BoxesAre DEF IInv
  <2>3. Fits(arrived[c][i])  BY <2>2 DEF IInv, MailFits
  <2>4. arrived[c][i].n # 0
    <3>1. arrived[c] \in Seq(Reply)  BY DEF IInv, TypeOK
    <3>2. arrived[c][i] \in Reply  BY <3>1
    <3> QED  BY <3>2, CacheAssumption DEF Reply, CallIds
  <2> QED  BY <2>1, <2>3, <2>4 DEF Fits
<1> QED  BY <1>1, Invariance, PTL

(***************************************************************************)
(* A set() or del() of a client without a name that returned true was      *)
(* executed by MySQL, whatever was sent again, lost or abandoned before,   *)
(* and however many workers served the copies of the request; but for the  *)
(* two exceptions of the code.                                             *)
(***************************************************************************)
THEOREM TrueResultsAreStored == Spec => []TrueMeansStored
<1>1. IInv => TrueMeansStored  BY DEF IInv
<1> QED  BY <1>1, Invariance, PTL

-----------------------------------------------------------------------------
(***************************************************************************)
(* Coherence.  The step of InTurn: every step that is not a handler's      *)
(* leaves the stores, the jobs and the stages as they are.                 *)
(***************************************************************************)
Calm == ~raced /\ failed = 0 /\ ~s_cacheonly

LEMMA CalmBefore ==
  ASSUME IInv, [Next]_vars, Calm' PROVE Calm
<1>0. failed \in Nat /\ raced \in BOOLEAN /\ MaxFailures \in Nat
  BY CacheAssumption DEF IInv, TypeOK
<1> USE DEF clientvars, brokervars, threads, stores, history
<1>1. ASSUME NEW c \in Clients,
             (\E m \in Commands : Call(c, m)) \/ CallOnSentSocket(c) \/ Calling(c)
      PROVE  UNCHANGED <<raced, failed, s_cacheonly>>
  BY <1>1 DEF Call, CallOnSentSocket, Calling, Receive, Retry, Again, Abandon
<1>2. Broking \/ Interrupt => UNCHANGED <<raced, failed, s_cacheonly>>
  BY DEF Broking, Interrupt, HandleBackend, HandleFrontend, Fini, JoinAll
<1>3. ASSUME NEW w \in Workers, Working(w)
      PROVE  /\ raced => raced'
             /\ failed' = failed \/ failed' = failed + 1
             /\ s_cacheonly' = s_cacheonly
  <2>1. CASE Recv(w)
    <3>1. raced' = (raced \/ Busy # {}) /\ UNCHANGED <<failed, s_cacheonly>>  BY <2>1 DEF Recv
    <3>2. raced => raced'  BY <3>1, Zenon
    <3> QED  BY <3>1, <3>2
  <2>2. CASE ~Recv(w)
    BY <1>3, <2>2 DEF Working, Ready, ReadyThrows, RecvFails, Cache, CacheFails, NoMySql,
         getKVSTableName, Query, QueryFails, Fill, SendReply
  <2> QED  BY <2>1, <2>2
<1> QED  BY <1>0, <1>1, <1>2, <1>3 DEF Next, vars, Calm

LEMMA InTurnStep == IInv /\ InTurn /\ [Next]_vars => InTurn'
<1> SUFFICES ASSUME IInv, InTurn, [Next]_vars, Calm' PROVE InTurn'
  BY DEF InTurn, Calm
<1>0. TypeOK /\ Jobs  BY DEF IInv
<1>a. Calm  BY CalmBefore
<1>b. /\ \A v, w \in Busy : v = w
      /\ \A k \in Keys : \A t \in Tables \ {TableOf[k]} : mysql[t][k] = None
      /\ \A k \in Keys :
           (\A w \in Busy : job[w].key = k => pc[w] \in {"cache", "log", "reply"})
              => redis[k] \in {None, OwnRow(k)}
      /\ \A w \in Busy :
           /\ pc[w] \in {"name", "query"} =>
                redis[job[w].key] = IF job[w].cmd = "set" THEN job[w].value ELSE None
           /\ pc[w] = "query" => name = TableOf[job[w].key]
           /\ pc[w] = "fill" => reply[w] = OwnRow(job[w].key)
  BY <1>a DEF InTurn, Calm
<1>c. /\ pc \in [Workers -> {"new", "failed", "recv", "gone", "cache", "name", "query",
                             "fill", "log", "reply"}]
      /\ DOMAIN job = Workers /\ DOMAIN reply = Workers
      /\ redis \in [Keys -> Values \cup {None}]
      /\ mysql \in [Tables -> [Keys -> Values \cup {None}]]
      /\ TableOf \in [Keys -> Tables]
  BY <1>0, CacheAssumption DEF TypeOK
<1>1. ASSUME UNCHANGED <<Busy, pc, job, reply, redis, mysql, name>> PROVE InTurn'
  BY <1>1, <1>b DEF InTurn, OwnRow
<1>2. ASSUME NEW w \in Workers, Working(w) PROVE InTurn'
  <2>1. ASSUME w \in Busy
        PROVE  /\ Busy = {w} /\ job[w] \in Request /\ job[w].key \in Keys
               /\ job[w].cmd \in {"get", "set", "del"} /\ job[w].value \in Values \cup {None}
    <3>1. job[w] \in Request  BY <1>0, <2>1 DEF Jobs
    <3> QED  BY <1>b, <2>1, <3>1 DEF Request
  <2>2. CASE Ready(w) \/ RecvFails(w)
    <3>1. /\ UNCHANGED <<job, reply, redis, mysql, name>>
          /\ pc' = [pc EXCEPT ![w] = pc'[w]] /\ pc'[w] \in {"recv", "gone"} /\ w \notin Busy
      BY <1>c, <2>2 DEF Ready, RecvFails, Onward, stores, Busy
    <3>2. Busy' = Busy /\ \A v \in Busy : pc'[v] = pc[v]  BY <1>c, <3>1 DEF Busy
    <3> QED  BY <1>b, <3>1, <3>2 DEF InTurn, OwnRow
  <2>3. CASE Recv(w)
    <3>1. /\ UNCHANGED <<reply, redis, mysql, name>> /\ Busy = {}
          /\ pc' = [pc EXCEPT ![w] = "cache"] /\ raced' = (raced \/ Busy # {})
      BY <2>3 DEF Recv, stores, Calm
    <3>2. Busy' = {w} /\ pc'[w] = "cache"  BY <1>c, <3>1 DEF Busy
    <3>3. \A k \in Keys : redis[k] \in {None, OwnRow(k)}  BY <1>b, <3>1
    <3> QED  BY <1>b, <3>1, <3>2, <3>3 DEF InTurn, OwnRow
  <2>4. CASE Cache(w)
    <3> DEFINE q == job[w]
               hit == q.cmd = "get" /\ redis[q.key] # None
    <3>1. /\ UNCHANGED <<job, mysql, name>> /\ redis' = CacheAfter(q) /\ pc[w] = "cache"
          /\ pc' = [pc EXCEPT ![w] = IF hit \/ s_cacheonly THEN "reply" ELSE "name"]
          /\ ~s_cacheonly
      BY <1>a, <2>4 DEF Cache, Calm
    <3>2. w \in Busy  BY <3>1 DEF Busy
    <3>3. Busy' = {w} /\ pc'[w] = IF hit THEN "reply" ELSE "name"
      BY <1>c, <2>1, <3>1, <3>2 DEF Busy
    <3>4. \A k \in Keys : redis[k] \in {None, OwnRow(k)}  BY <1>b, <2>1, <3>1, <3>2
    <3>5. \A k \in Keys : k # q.key => redis'[k] = redis[k]  BY <1>c, <3>1 DEF CacheAfter
    <3>6. ~hit => redis'[q.key] = IF q.cmd = "set" THEN q.value ELSE None
      BY <1>c, <2>1, <3>1, <3>2 DEF CacheAfter
    <3>7. hit => redis' = redis  BY <3>1 DEF CacheAfter
    <3>8. OwnRow(q.key)' = OwnRow(q.key) /\ \A k \in Keys : mysql'[TableOf[k]][k] = OwnRow(k)
      BY <3>1 DEF OwnRow
    <3>9. \A k \in Keys :
            (\A v \in Busy' : job'[v].key = k => pc'[v] \in {"cache", "log", "reply"})
              => redis'[k] \in {None, mysql'[TableOf[k]][k]}
      BY <3>1, <3>3, <3>4, <3>5, <3>7, <3>8
    <3>10. \A v \in Busy' :
            /\ pc'[v] \in {"name", "query"} =>
                redis'[job'[v].key] = IF job'[v].cmd = "set" THEN job'[v].value ELSE None
            /\ pc'[v] # "query" /\ pc'[v] # "fill"
      BY <3>1, <3>3, <3>6
    <3> QED  BY <1>b, <3>1, <3>3, <3>9, <3>10 DEF InTurn, OwnRow
  <2>5. CASE CacheFails(w) \/ NoMySql(w) \/ QueryFails(w)
    <3>1. failed' = failed + 1  BY <2>5 DEF CacheFails, NoMySql, QueryFails
    <3> QED  BY <1>a, <3>1 DEF Calm
  <2>6. CASE getKVSTableName(w)
    <3>1. /\ UNCHANGED <<job, reply, redis, mysql>> /\ pc[w] = "name"
          /\ name' = TableOf[job[w].key] /\ pc' = [pc EXCEPT ![w] = "query"]
      BY <2>6 DEF getKVSTableName
    <3>2. w \in Busy  BY <3>1 DEF Busy
    <3>3. Busy' = {w} /\ Busy = {w} /\ pc'[w] = "query"  BY <1>c, <2>1, <3>1, <3>2 DEF Busy
    <3> QED  BY <1>b, <3>1, <3>3 DEF InTurn, OwnRow
  <2>7. CASE Query(w)
    <3> DEFINE q == job[w]
               row == mysql[name][q.key]
    <3>1. /\ UNCHANGED <<job, redis, name>> /\ mysql' = TableAfter(q) /\ pc[w] = "query"
          /\ reply' = [reply EXCEPT ![w] = IF q.cmd = "get" THEN row ELSE "OK"]
          /\ pc' = [pc EXCEPT ![w] = IF q.cmd # "get" THEN "log"
                                     ELSE IF row # None THEN "fill" ELSE "reply"]
      BY <2>7 DEF Query
    <3>2. w \in Busy /\ name = TableOf[q.key]  BY <1>b, <3>1 DEF Busy
    <3>3. /\ Busy' = {w} /\ Busy = {w}
          /\ pc'[w] = IF q.cmd # "get" THEN "log" ELSE IF row # None THEN "fill" ELSE "reply"
      BY <1>c, <2>1, <3>1, <3>2 DEF Busy
    <3>4. q.key \in Keys /\ name \in Tables /\ row = OwnRow(q.key)
      BY <1>c, <2>1, <3>2 DEF OwnRow
    <3>5. redis[q.key] = IF q.cmd = "set" THEN q.value ELSE None  BY <1>b, <3>1, <3>2
    <3>6. \A t \in Tables, k \in Keys :
            mysql'[t][k] = IF t = name /\ k = q.key /\ q.cmd # "get"
                             THEN IF q.cmd = "set" THEN q.value ELSE None
                             ELSE mysql[t][k]
      BY <1>c, <3>1, <3>4 DEF TableAfter
    <3>7. \A k \in Keys : \A t \in Tables \ {TableOf[k]} : mysql'[t][k] = None
      BY <1>b, <3>2, <3>6
    <3>8. ASSUME NEW k \in Keys,
                 \A v \in Busy' : job'[v].key = k => pc'[v] \in {"cache", "log", "reply"}
          PROVE  redis'[k] \in {None, mysql'[TableOf[k]][k]}
      <4>1. TableOf[k] \in Tables  BY <1>c
      <4>2. CASE k # q.key
        <5>1. redis[k] \in {None, OwnRow(k)}  BY <1>b, <3>3, <4>2
        <5> QED  BY <3>1, <3>6, <4>1, <4>2, <5>1 DEF OwnRow
      <4>3. CASE k = q.key /\ q.cmd = "get"  BY <3>1, <3>5, <4>3
      <4>4. CASE k = q.key /\ q.cmd # "get"
        <5>1. mysql'[TableOf[k]][k] = IF q.cmd = "set" THEN q.value ELSE None
          BY <3>2, <3>6, <4>1, <4>4
        <5> QED  BY <3>1, <3>5, <4>4, <5>1
      <4> QED  BY <4>2, <4>3, <4>4
    <3>9. pc'[w] = "fill" => reply'[w] = mysql'[TableOf[q.key]][q.key]
      BY <1>c, <3>1, <3>2, <3>3, <3>4, <3>6
    <3> QED  BY <3>1, <3>3, <3>7, <3>8, <3>9 DEF InTurn, OwnRow
  <2>8. CASE Fill(w)
    <3>1. /\ UNCHANGED <<job, reply, mysql, name>> /\ pc[w] = "fill"
          /\ redis' = [redis EXCEPT ![job[w].key] = reply[w]]
          /\ pc' = [pc EXCEPT ![w] = "reply"]
      BY <1>a, <2>8 DEF Fill, Calm
    <3>2. w \in Busy  BY <3>1 DEF Busy
    <3>3. Busy' = {w} /\ Busy = {w} /\ pc'[w] = "reply"  BY <1>c, <2>1, <3>1, <3>2 DEF Busy
    <3>4. reply[w] = OwnRow(job[w].key) /\ job[w].key \in Keys  BY <1>b, <2>1, <3>1, <3>2
    <3>5. \A k \in Keys : redis'[k] \in {None, OwnRow(k)}
      <4> TAKE k \in Keys
      <4>1. CASE k = job[w].key  BY <1>c, <3>1, <3>4, <4>1
      <4>2. CASE k # job[w].key
        <5>1. redis[k] \in {None, OwnRow(k)}  BY <1>b, <3>3, <4>2
        <5> QED  BY <1>c, <3>1, <4>2, <5>1
      <4> QED  BY <4>1, <4>2
    <3> QED  BY <1>b, <3>1, <3>3, <3>5 DEF InTurn, OwnRow
  <2>9. CASE SendReply(w)
    <3>1. /\ UNCHANGED <<redis, mysql>> /\ pc[w] \in {"log", "reply"}
          /\ pc' = [pc EXCEPT ![w] = Onward]
      BY <2>9 DEF SendReply
    <3>2. w \in Busy  BY <3>1 DEF Busy
    <3>3. Busy' = {}  BY <1>c, <2>1, <3>1, <3>2 DEF Busy, Onward
    <3>4. \A k \in Keys : redis[k] \in {None, OwnRow(k)}  BY <1>b, <2>1, <3>1, <3>2
    <3> QED  BY <1>b, <3>1, <3>3, <3>4 DEF InTurn, OwnRow
  <2>10. CASE ReadyThrows(w)
    BY <1>1, <2>10 DEF ReadyThrows, threads, stores, Busy
  <2> QED  BY <1>2, <2>2, <2>3, <2>4, <2>5, <2>6, <2>7, <2>8, <2>9, <2>10 DEF Working
<1>3. ASSUME NEW c \in Clients,
             (\E m \in Commands : Call(c, m)) \/ CallOnSentSocket(c) \/ Calling(c)
      PROVE  UNCHANGED <<pc, job, reply, redis, mysql, name>>
  BY <1>3 DEF Call, CallOnSentSocket, Calling, Receive, Retry, Again, Abandon, threads, stores
<1>4. Broking \/ Interrupt => UNCHANGED <<pc, job, reply, redis, mysql, name>>
  BY DEF Broking, Interrupt, HandleBackend, HandleFrontend, Fini, JoinAll, threads, stores
<1>5. UNCHANGED vars => UNCHANGED <<pc, job, reply, redis, mysql, name>>
  BY DEF vars, threads, stores
<1>6. UNCHANGED <<pc, job, reply, redis, mysql, name>> => InTurn'  BY <1>1 DEF Busy
<1> QED  BY <1>2, <1>3, <1>4, <1>5, <1>6 DEF Next

(***************************************************************************)
(* Handlers that do not overlap keep Redis and MySQL coherent: between     *)
(* requests the cache of every key is empty or what MySQL has in the key's *)
(* own table, and no other table has the key.  Any overlap or failure is   *)
(* therefore the only way to a stale cache or to a row in a foreign table. *)
(***************************************************************************)
THEOREM TurnsKeepCoherence == Spec => []CoherentUnlessRaced
<1>1. Init => InTurn
  <2> SUFFICES ASSUME Init PROVE InTurn
    OBVIOUS
  <2>1. Busy = {}  BY DEF Init, WorkerInit, Busy
  <2>2. \A k \in Keys : redis[k] = None  BY DEF Init
  <2>3. \A k \in Keys, t \in Tables : mysql[t][k] = None  BY DEF Init
  <2> QED  BY <2>1, <2>2, <2>3 DEF InTurn
<1>2. InTurn => CoherentUnlessRaced
  <2> SUFFICES ASSUME InTurn, Calm, Busy = {}, NEW k \in Keys
               PROVE  /\ redis[k] \in {None, mysql[TableOf[k]][k]}
                      /\ \A t \in Tables \ {TableOf[k]} : mysql[t][k] = None
    BY DEF CoherentUnlessRaced, Calm
  <2> QED  BY DEF InTurn, Calm, OwnRow
<1> QED  BY <1>1, <1>2, InTurnStep, Invariance, PTL DEF Spec

=============================================================================
