--------------------------- MODULE TinyRPCProofs ----------------------------
(***************************************************************************)
(* Proofs about TinyRPC, for every set of clients, calls and services.     *)
(***************************************************************************)
EXTENDS TinyRPC, TLAPS

(***************************************************************************)
(* What client and server put on the wire is a message, and what replied() *)
(* tells the caller is an outcome.                                         *)
(***************************************************************************)
LEMMA PackType ==
  ASSUME NEW i \in Ids, NEW s \in Shapes PROVE pack(i, s) \in Request
BY RPCAssumption DEF pack, Request, Names, Bodies, Ids

LEMMA RepliedType ==
  ASSUME NEW s, NEW r \in Reply
  PROVE  replied(s, r) \in ErrorCodes \cup {"done", "timeout"}
<1>1. r.errcode \in ErrorCodes \cup {"NOERROR"}  BY DEF Reply
<1> QED  BY <1>1 DEF replied, ErrorCodes

LEMMA MakeReplyType ==
  ASSUME NEW q \in Request, NEW e \in ErrorCodes \cup {"NOERROR"}, NEW b \in Bodies
  PROVE  makeReply(q, e, b) \in Reply
BY DEF makeReply, Reply, Request

LEMMA RequestedType ==
  ASSUME NEW q \in Request, callbacks_ \subseteq Services
  PROVE  requested(q) \in Reply
<1>1. ASSUME NEW s \in Services PROVE callbackRequested(s, q) \in Reply
  <2>1. s.result \in Bodies  BY RPCAssumption
  <2> QED  BY <2>1, MakeReplyType DEF callbackRequested, ErrorCodes, Bodies
<1>2. CASE \E s \in callbacks_ : s.request = q.request
  <2>1. (CHOOSE s \in callbacks_ : s.request = q.request) \in Services  BY <1>2
  <2> QED  BY <1>1, <1>2, <2>1 DEF requested
<1>3. CASE ~\E s \in callbacks_ : s.request = q.request
  <2>1. requested(q) = makeReply(q, "REQUEST_INVALID", "empty")  BY <1>3 DEF requested
  <2> QED  BY <2>1, MakeReplyType DEF ErrorCodes, Bodies
<1> QED  BY <1>2, <1>3

-----------------------------------------------------------------------------
LEMMA TypeStep == TypeOK /\ [Next]_vars => TypeOK'
<1> SUFFICES ASSUME TypeOK, [Next]_vars PROVE TypeOK'
  OBVIOUS
<1> USE DEF TypeOK
<1>1. ASSUME NEW c \in Clients, NEW s \in Shapes, NEW timed \in BOOLEAN, Emit(c, s, timed)
      PROVE  TypeOK'
  <2> DEFINE i == total_id_ + 1
  <2>1. i \in Ids /\ total_id_' = i  BY <1>1, RPCAssumption DEF Emit, Ids
  <2>2. pack(i, s) \in Request  BY <2>1, PackType
  <2>3. requests' \in [Clients -> Seq(Request)]  BY <1>1, <2>2 DEF Emit
  <2>4. holder' \in [Ids -> [client : Clients, shape : Shapes] \cup {NoHolder}]
    BY <1>1 DEF Emit
  <2>5. rpc_holders_' \in [Clients -> SUBSET Ids]
    BY <1>1, <2>1 DEF Emit
  <2>5b. rpc_timeout_holders_' \in [Clients -> SUBSET Ids]
    <3>1. timed => setTimeout(c, i)  BY <1>1 DEF Emit
    <3>2. ~timed => UNCHANGED rpc_timeout_holders_  BY <1>1 DEF Emit
    <3> HIDE DEF i
    <3>3. CASE timed
      <4>1. setTimeout(c, i)  BY <3>1, <3>3, Zenon
      <4> QED  BY ONLY <2>1, <4>1, TypeOK, c \in Clients DEF setTimeout, TypeOK
    <3>4. CASE ~timed  BY <3>2, <3>4
    <3> QED  BY <3>3, <3>4
  <2>6. total_id_' \in 0..MaxCalls  BY <2>1, RPCAssumption DEF Ids
  <2>7. UNCHANGED <<expired, callbacks_, replies, lost, thrown, served, ended>>
    BY <1>1 DEF Emit
  <2> QED  BY <2>3, <2>4, <2>5, <2>5b, <2>6, <2>7
<1>2. ASSUME NEW c \in Clients, NEW S \in SUBSET Ids,
             NEW how \in ErrorCodes \cup {"done", "timeout"}, Conclude(c, S, how)
      PROVE  /\ ended' \in [Ids -> Seq(ErrorCodes \cup {"done", "timeout"})]
             /\ rpc_holders_' \in [Clients -> SUBSET Ids]
             /\ rpc_timeout_holders_' \in [Clients -> SUBSET Ids]
  BY <1>2 DEF Conclude
<1>3. ASSUME NEW c \in Clients, ReceiveReply(c) PROVE TypeOK'
  <2> DEFINE r == Head(replies[c])
  <2>1. r \in Reply /\ replies' \in [Clients -> Seq(Reply)]  BY <1>3 DEF ReceiveReply
  <2>2. replied(holder[r.id].shape, r) \in ErrorCodes \cup {"done", "timeout"}
    BY <2>1, RepliedType
  <2>3. CASE r.id \in rpc_holders_[c]
    <3>1. {r.id} \in SUBSET Ids  BY <2>3
    <3>2. Conclude(c, {r.id}, replied(holder[r.id].shape, r))  BY <1>3, <2>3 DEF ReceiveReply
    <3> QED  BY <1>2, <1>3, <2>1, <2>2, <3>1, <3>2 DEF ReceiveReply
  <2>4. CASE r.id \notin rpc_holders_[c]  BY <1>3, <2>1, <2>4 DEF ReceiveReply
  <2> QED  BY <2>3, <2>4
<1>4. ASSUME NEW c \in Clients, CheckTimeout(c) PROVE TypeOK'
  <2>1. rpc_timeout_holders_[c] \cap expired \in SUBSET Ids  OBVIOUS
  <2> QED  BY <1>2, <1>4, <2>1 DEF CheckTimeout, network
<1>5. ASSUME NEW c \in Clients, Serve(c) PROVE TypeOK'
  <2> DEFINE q == Head(requests[c])
  <2>1. q \in Request /\ requests' \in [Clients -> Seq(Request)]  BY <1>5 DEF Serve
  <2>2. requested(q) \in Reply  BY <2>1, RequestedType
  <2>3. replies' \in [Clients -> Seq(Reply)]  BY <1>5, <2>2 DEF Serve
  <2>4. served' \in [Ids -> Nat]
    <3> DEFINE count == [served EXCEPT ![q.id] = @ + 1]
    <3>1. served' = count \/ served' = served  BY <1>5 DEF Serve
    <3>2. count = [i \in Ids |-> IF i = q.id THEN served[i] + 1 ELSE served[i]]
      OBVIOUS
    <3> HIDE DEF q, count
    <3> QED  BY <3>1, <3>2
  <2> QED  BY <1>5, <2>1, <2>3, <2>4 DEF Serve, client
<1>6. ASSUME NEW c \in Clients, LoseRequest(c) PROVE TypeOK'
  <2>1. Head(requests[c]) \in Request /\ requests' \in [Clients -> Seq(Request)]
    BY <1>6 DEF LoseRequest
  <2>2. Head(requests[c]).id \in Nat  BY <2>1 DEF Request
  <2> QED  BY <1>6, <2>1, <2>2 DEF LoseRequest, client
<1>6b. ASSUME NEW c \in Clients, ServeThrows(c) PROVE TypeOK'
  <2>1. Head(requests[c]) \in Request /\ requests' \in [Clients -> Seq(Request)]
    BY <1>6b DEF ServeThrows
  <2>2. Head(requests[c]).id \in Nat  BY <2>1 DEF Request
  <2> QED  BY <1>6b, <2>1, <2>2 DEF ServeThrows, client
<1>7. ASSUME NEW c \in Clients, LoseReply(c) PROVE TypeOK'
  <2>1. Head(replies[c]) \in Reply /\ replies' \in [Clients -> Seq(Reply)]
    BY <1>7 DEF LoseReply
  <2>2. Head(replies[c]).id \in Nat  BY <2>1 DEF Reply
  <2> QED  BY <1>7, <2>1, <2>2 DEF LoseReply, client
<1>8. ASSUME NEW i \in Ids, Elapse(i) PROVE TypeOK'
  BY <1>8 DEF Elapse, client, network
<1>9. ASSUME NEW s \in Services, On(s) PROVE TypeOK'
  BY <1>9 DEF On, client, network
<1>10. CASE UNCHANGED vars  BY <1>10 DEF vars
<1> QED  BY <1>1, <1>3, <1>4, <1>5, <1>6, <1>6b, <1>7, <1>8, <1>9, <1>10 DEF Next

-----------------------------------------------------------------------------
(***************************************************************************)
(* Ending open calls of one client: each gets its first callback and       *)
(* leaves both maps, and no other call is touched.                         *)
(***************************************************************************)
LEMMA ConcludeCalls ==
  ASSUME IInv, NEW c \in Clients, NEW S \in SUBSET rpc_holders_[c], NEW how,
         Conclude(c, S, how), UNCHANGED <<total_id_, holder>>
  PROVE  Calls'
<1> USE DEF IInv, TypeOK, Calls
<1>1. \A d \in Clients : /\ rpc_holders_'[d] = rpc_holders_[d] \ (IF d = c THEN S ELSE {})
                         /\ rpc_timeout_holders_'[d] =
                              rpc_timeout_holders_[d] \ (IF d = c THEN S ELSE {})
  BY DEF Conclude
<1>2. \A i \in S : i \in Ids /\ i <= total_id_ /\ holder[i].client = c /\ ended[i] = <<>>
  BY DEF OpenCalls
<1>3. \A i \in S : Len(ended'[i]) = 1
  BY <1>2 DEF Conclude
<1>4. \A i \in Ids \ S : ended'[i] = ended[i]
  BY DEF Conclude
<1>5. NoStrayTimeout'  BY <1>1 DEF NoStrayTimeout
<1>6. OpenCalls'  BY <1>1, <1>2, <1>4 DEF OpenCalls
<1>7. GivenIds'  BY <1>2, <1>4 DEF GivenIds
<1>8. OneCallback'
  <2> SUFFICES ASSUME NEW i \in 1..total_id_
               PROVE  /\ Len(ended'[i]) <= 1
                      /\ Len(ended'[i]) = 0 <=> i \in rpc_holders_'[holder[i].client]
    BY DEF OneCallback
  <2>1. i \in Ids /\ holder[i].client \in Clients
    BY RPCAssumption DEF GivenIds, Ids
  <2>2. CASE i \in S
    <3>1. holder[i].client = c /\ Len(ended'[i]) = 1  BY <1>2, <1>3, <2>2
    <3>2. i \notin rpc_holders_'[c]  BY <1>1, <2>2
    <3> QED  BY <3>1, <3>2
  <2>3. CASE i \notin S
    <3>1. i \in rpc_holders_'[holder[i].client] <=> i \in rpc_holders_[holder[i].client]
      BY <1>1, <2>1, <2>3
    <3> QED  BY <1>4, <2>1, <2>3, <3>1 DEF OneCallback
  <2> QED  BY <2>2, <2>3
<1> QED  BY <1>5, <1>6, <1>7, <1>8

LEMMA CallsStep == IInv /\ [Next]_vars => Calls'
<1> SUFFICES ASSUME IInv, [Next]_vars PROVE Calls'
  OBVIOUS
<1> USE DEF IInv, Calls
<1>0. ASSUME UNCHANGED <<total_id_, holder, rpc_holders_, rpc_timeout_holders_, ended>>
      PROVE  Calls'
  BY <1>0 DEF OneCallback, NoStrayTimeout, OpenCalls, GivenIds
<1>1. ASSUME NEW c \in Clients, NEW s \in Shapes, NEW timed \in BOOLEAN, Emit(c, s, timed)
      PROVE  Calls'
  <2> DEFINE n == total_id_ + 1
  <2>1. n \in Ids /\ total_id_ \in Nat /\ total_id_' = n
    BY <1>1, RPCAssumption DEF Emit, Ids, TypeOK
  <2>2. /\ holder'[n] = [client |-> c, shape |-> s]
        /\ \A i \in Ids : i # n => holder'[i] = holder[i]
    BY <1>1, <2>1 DEF Emit, TypeOK
  <2>3. \A d \in Clients :
           /\ rpc_holders_'[d] = rpc_holders_[d] \cup (IF d = c THEN {n} ELSE {})
           /\ rpc_timeout_holders_'[d] \subseteq
                rpc_timeout_holders_[d] \cup (IF d = c THEN {n} ELSE {})
    BY <1>1 DEF Emit, setTimeout, TypeOK
  <2>4. ended' = ended /\ ended[n] = <<>>
    BY <1>1, <2>1 DEF Emit, GivenIds
  <2>5. NoStrayTimeout'  BY <2>3 DEF NoStrayTimeout
  <2>6. OpenCalls'
    <3> SUFFICES ASSUME NEW d \in Clients, NEW i \in rpc_holders_'[d]
                 PROVE  i <= total_id_' /\ holder'[i].client = d /\ ended'[i] = <<>>
      BY DEF OpenCalls
    <3>1. CASE i \in rpc_holders_[d]
      <4>1. i \in Ids /\ i <= total_id_ /\ i # n
        BY <2>1, <3>1 DEF OpenCalls, TypeOK, Ids
      <4> QED  BY <2>1, <2>2, <2>4, <3>1, <4>1 DEF OpenCalls, Ids
    <3>2. CASE i \notin rpc_holders_[d]
      BY <2>1, <2>2, <2>3, <2>4, <3>2
    <3> QED  BY <3>1, <3>2
  <2>7. GivenIds'
    BY <2>1, <2>2, <2>4 DEF GivenIds, Ids
  <2>8. OneCallback'
    <3> SUFFICES ASSUME NEW i \in 1..total_id_'
                 PROVE  /\ Len(ended'[i]) <= 1
                        /\ Len(ended'[i]) = 0 <=> i \in rpc_holders_'[holder'[i].client]
      BY DEF OneCallback
    <3>1. i \in Ids  BY <2>1, RPCAssumption DEF Ids
    <3>2. CASE i = n  BY <2>1, <2>2, <2>3, <2>4, <3>2
    <3>3. CASE i # n
      <4>1. i \in 1..total_id_ /\ holder[i].client \in Clients
        BY <2>1, <3>1, <3>3 DEF GivenIds
      <4> QED  BY <2>2, <2>3, <2>4, <3>1, <3>3, <4>1 DEF OneCallback
    <3> QED  BY <3>2, <3>3
  <2> QED  BY <2>5, <2>6, <2>7, <2>8
<1>2. ASSUME NEW c \in Clients, ReceiveReply(c) PROVE Calls'
  <2> DEFINE r == Head(replies[c])
  <2>1. CASE r.id \in rpc_holders_[c]
    <3>1. {r.id} \in SUBSET rpc_holders_[c]  BY <2>1
    <3>2. Conclude(c, {r.id}, replied(holder[r.id].shape, r))
      BY <1>2, <2>1 DEF ReceiveReply
    <3> QED  BY <1>2, <3>1, <3>2, ConcludeCalls DEF ReceiveReply
  <2>2. CASE r.id \notin rpc_holders_[c]  BY <1>0, <1>2, <2>2 DEF ReceiveReply
  <2> QED  BY <2>1, <2>2
<1>3. ASSUME NEW c \in Clients, CheckTimeout(c) PROVE Calls'
  <2>1. rpc_timeout_holders_[c] \cap expired \in SUBSET rpc_holders_[c]
    BY DEF NoStrayTimeout
  <2> QED  BY <1>3, <2>1, ConcludeCalls DEF CheckTimeout
<1>4. ASSUME NEW c \in Clients,
             Serve(c) \/ ServeThrows(c) \/ LoseRequest(c) \/ LoseReply(c)
      PROVE  Calls'
  BY <1>0, <1>4 DEF Serve, ServeThrows, LoseRequest, LoseReply, client
<1>5. ASSUME NEW i \in Ids, Elapse(i) PROVE Calls'
  BY <1>0, <1>5 DEF Elapse, client
<1>6. ASSUME NEW s \in Services, On(s) PROVE Calls'
  BY <1>0, <1>6 DEF On, client
<1>7. CASE UNCHANGED vars  BY <1>0, <1>7 DEF vars
<1> QED  BY <1>1, <1>2, <1>3, <1>4, <1>5, <1>6, <1>7 DEF Next

-----------------------------------------------------------------------------
(***************************************************************************)
(* What Append and Tail do to the elements of a queue.                     *)
(***************************************************************************)
LEMMA AppendElements ==
  ASSUME NEW S, NEW s \in Seq(S), NEW e \in S
  PROVE  /\ Append(s, e) \in Seq(S) /\ DOMAIN Append(s, e) = DOMAIN s \cup {Len(s) + 1}
         /\ Len(s) + 1 \notin DOMAIN s
         /\ Append(s, e)[Len(s) + 1] = e
         /\ \A j \in DOMAIN s : Append(s, e)[j] = s[j]
OBVIOUS

LEMMA TailElements ==
  ASSUME NEW S, NEW s \in Seq(S), s # <<>>
  PROVE  /\ Tail(s) \in Seq(S) /\ 1 \in DOMAIN s /\ Head(s) = s[1]
         /\ \A j \in DOMAIN Tail(s) :
              j + 1 \in DOMAIN s /\ j + 1 # 1 /\ Tail(s)[j] = s[j + 1]
         /\ \A j, k \in DOMAIN Tail(s) : j + 1 = k + 1 => j = k
OBVIOUS

(***************************************************************************)
(* A request that was taken off its queue leaves the rest as they were; if *)
(* it had an id, none with that id is left.                                *)
(***************************************************************************)
LEMMA RequestTaken ==
  ASSUME IInv, NEW c \in Clients, requests[c] # <<>>,
         requests' = [requests EXCEPT ![c] = Tail(@)]
  PROVE  /\ \A d \in Clients : d # c => requests'[d] = requests[d]
         /\ \A j \in DOMAIN requests'[c] :
              /\ j + 1 \in DOMAIN requests[c] /\ requests'[c][j] = requests[c][j + 1]
              /\ Head(requests[c]).id # 0 => requests'[c][j].id # Head(requests[c]).id
         /\ \A j, k \in DOMAIN requests'[c] : j + 1 = k + 1 => j = k
<1> USE DEF IInv, Wire
<1>1. requests[c] \in Seq(Request)  BY DEF TypeOK
<1>2. /\ \A d \in Clients : d # c => requests'[d] = requests[d]
      /\ requests'[c] = Tail(requests[c])
  BY DEF TypeOK
<1>3. /\ 1 \in DOMAIN requests[c] /\ Head(requests[c]) = requests[c][1]
      /\ \A j \in DOMAIN requests'[c] :
           j + 1 \in DOMAIN requests[c] /\ j + 1 # 1 /\ requests'[c][j] = requests[c][j + 1]
      /\ \A j, k \in DOMAIN requests'[c] : j + 1 = k + 1 => j = k
  <2>1. /\ 1 \in DOMAIN requests[c] /\ Head(requests[c]) = requests[c][1]
        /\ \A j \in DOMAIN Tail(requests[c]) :
             /\ j + 1 \in DOMAIN requests[c] /\ j + 1 # 1
             /\ Tail(requests[c])[j] = requests[c][j + 1]
        /\ \A j, k \in DOMAIN Tail(requests[c]) : j + 1 = k + 1 => j = k
    BY ONLY <1>1, requests[c] # <<>>, TailElements
  <2> QED  BY ONLY <1>2, <2>1
<1>4. ASSUME NEW j \in DOMAIN requests'[c], Head(requests[c]).id # 0,
             requests'[c][j].id = Head(requests[c]).id
      PROVE  FALSE
  BY <1>3, <1>4 DEF RequestsUnserved
<1> QED  BY <1>2, <1>3, <1>4

LEMMA RequestsKept ==
  ASSUME IInv, NEW c \in Clients, requests[c] # <<>>,
         requests' = [requests EXCEPT ![c] = Tail(@)],
         UNCHANGED <<total_id_, holder>>,
         \A i \in Ids : i # Head(requests[c]).id => served'[i] = served[i]
  PROVE  RequestsUnserved'
<1>1. RequestsUnserved /\ total_id_ \in 0..MaxCalls  BY DEF IInv, Wire, TypeOK
<1>0. /\ \A d \in Clients : d # c => requests'[d] = requests[d]
      /\ \A j \in DOMAIN requests'[c] :
           /\ j + 1 \in DOMAIN requests[c] /\ requests'[c][j] = requests[c][j + 1]
           /\ Head(requests[c]).id # 0 => requests'[c][j].id # Head(requests[c]).id
      /\ \A j, k \in DOMAIN requests'[c] : j + 1 = k + 1 => j = k
  BY RequestTaken
<1> SUFFICES ASSUME NEW d \in Clients, NEW j \in DOMAIN requests'[d],
                    ~(requests'[d][j].id = 0 /\ requests'[d][j].body = "empty")
             PROVE  /\ requests'[d][j].id \in 1..total_id_
                    /\ holder[requests'[d][j].id].client = d
                    /\ requests'[d][j] = pack(requests'[d][j].id,
                                               holder[requests'[d][j].id].shape)
                    /\ served'[requests'[d][j].id] = 0
                    /\ \A k \in DOMAIN requests'[d] :
                         requests'[d][k].id = requests'[d][j].id => k = j
  BY DEF RequestsUnserved
<1>2. \A i \in 1..total_id_ : i \in Ids  BY <1>1, RPCAssumption DEF Ids
<1>3. PICK b \in DOMAIN requests[d] : requests'[d][j] = requests[d][b] /\ (d = c => b = j + 1)
                                       /\ (d # c => b = j)
  BY ONLY <1>0
<1>4. /\ requests[d][b].id \in 1..total_id_ /\ holder[requests[d][b].id].client = d
      /\ requests[d][b] = pack(requests[d][b].id, holder[requests[d][b].id].shape)
      /\ served[requests[d][b].id] = 0
      /\ \A k \in DOMAIN requests[d] : requests[d][k].id = requests[d][b].id => k = b
  BY <1>1, <1>3 DEF RequestsUnserved
<1>5. served'[requests[d][b].id] = 0
  <2>1. CASE d = c
    BY <1>0, <1>2, <1>3, <1>4, <2>1
  <2>2. CASE d # c
    <3>1. 1 \in DOMAIN requests[c] /\ Head(requests[c]) = requests[c][1]
      BY TailElements DEF IInv, TypeOK
    <3>2. requests[d][b].id # requests[c][1].id
      BY <1>1, <1>4, <2>2, <3>1 DEF RequestsUnserved
    <3> QED  BY <1>2, <1>4, <3>1, <3>2
  <2> QED  BY <2>1, <2>2
<1>6. ASSUME NEW k \in DOMAIN requests'[d], requests'[d][k].id = requests'[d][j].id
      PROVE  k = j
  BY <1>0, <1>3, <1>4, <1>6
<1> QED  BY <1>3, <1>4, <1>5, <1>6

(***************************************************************************)
(* Verdict in the next state.  A call that has been answered is not asked  *)
(* again and is not served again, so a true answer stays true.             *)
(***************************************************************************)
VerdictThen(i, how) ==
    /\ \A j \in DOMAIN requests'[holder'[i].client] :
         requests'[holder'[i].client][j].id # i
    /\ how = "done" =>
         /\ served'[i] = 1
         /\ \E s \in callbacks_' : /\ s.request = holder'[i].shape.request
                                   /\ s.reply = holder'[i].shape.reply
                                   /\ s.result = "good"
    /\ how \in {"REQUEST_INVALID", "REQUEST_NOT_MATCHED", "REQUEST_PARSE_ERROR"}
         => served'[i] = 0

AnswerStays ==
    \A i \in 1..total_id_ :
        /\ holder'[i] = holder[i]
        /\ ~Asked(i) => /\ served'[i] = served[i]
                        /\ \A j \in DOMAIN requests'[holder[i].client] :
                             requests'[holder[i].client][j].id # i

LEMMA VerdictStays ==
  ASSUME AnswerStays, callbacks_ \subseteq callbacks_', NEW i \in 1..total_id_, NEW how,
         Verdict(i, how)
  PROVE  VerdictThen(i, how)
BY DEF AnswerStays, Verdict, VerdictThen

LEMMA RepliesStay ==
  ASSUME IInv, AnswerStays, callbacks_ \subseteq callbacks_', total_id_' \in Nat,
         total_id_ <= total_id_',
         \A d \in Clients : \A j \in DOMAIN replies'[d] :
            LET r == replies'[d][j] IN
              \/ \E k \in DOMAIN replies[d] : r = replies[d][k]
              \/ r.id = 0
              \/ /\ r.id \in 1..total_id_ /\ holder[r.id].client = d
                 /\ VerdictThen(r.id, replied(holder[r.id].shape, r))
  PROVE  RepliesTrue'
<1>1. total_id_ \in Nat /\ \A i \in 1..total_id_ : i \in 1..total_id_'
  BY RPCAssumption DEF IInv, TypeOK
<1>2. ASSUME NEW d \in Clients, NEW j \in DOMAIN replies'[d], replies'[d][j].id # 0
      PROVE  /\ replies'[d][j].id \in 1..total_id_' /\ holder'[replies'[d][j].id].client = d
             /\ VerdictThen(replies'[d][j].id,
                            replied(holder'[replies'[d][j].id].shape, replies'[d][j]))
  <2> DEFINE r == replies'[d][j]
  <2>1. CASE \E k \in DOMAIN replies[d] : r = replies[d][k]
    <3>1. /\ r.id \in 1..total_id_ /\ holder[r.id].client = d
          /\ Verdict(r.id, replied(holder[r.id].shape, r))
      BY <1>2, <2>1 DEF IInv, Wire, RepliesTrue
    <3>2. VerdictThen(r.id, replied(holder[r.id].shape, r))
      BY <3>1, VerdictStays
    <3>3. holder'[r.id] = holder[r.id]  BY <3>1 DEF AnswerStays
    <3> QED  BY <1>1, <3>1, <3>2, <3>3
  <2>2. CASE /\ r.id \in 1..total_id_ /\ holder[r.id].client = d
             /\ VerdictThen(r.id, replied(holder[r.id].shape, r))
    <3>1. holder'[r.id] = holder[r.id]  BY <2>2 DEF AnswerStays
    <3> QED  BY <1>1, <2>2, <3>1
  <2> QED  BY <1>2, <2>1, <2>2
<1> QED  BY <1>2 DEF RepliesTrue, Verdict, VerdictThen, Asked

LEMMA CallbacksStay ==
  ASSUME IInv, AnswerStays, callbacks_ \subseteq callbacks_',
         \A i \in 1..total_id_' :
            \/ i \in 1..total_id_ /\ ended'[i] = ended[i]
            \/ ended'[i] = <<>>
            \/ Head(ended'[i]) = "timeout"
            \/ VerdictThen(i, Head(ended'[i]))
  PROVE  CallbacksTrue'
<1>1. ASSUME NEW i \in 1..total_id_', ended'[i] # <<>>, Head(ended'[i]) # "timeout"
      PROVE  VerdictThen(i, Head(ended'[i]))
  <2>1. CASE i \in 1..total_id_ /\ ended'[i] = ended[i]
    <3>1. Verdict(i, Head(ended[i]))  BY <1>1, <2>1 DEF IInv, Wire, CallbacksTrue
    <3> QED  BY <2>1, <3>1, VerdictStays
  <2> QED  BY <1>1, <2>1
<1> QED  BY <1>1 DEF CallbacksTrue, Verdict, VerdictThen, Asked

(***************************************************************************)
(* The server's answer is true when it is given.                           *)
(***************************************************************************)
LEMMA ServeVerdict ==
  ASSUME IInv, NEW c \in Clients, Serve(c), Head(requests[c]).id # 0
  PROVE  LET q == Head(requests[c]) IN
           /\ q.id \in 1..total_id_ /\ holder[q.id].client = c
           /\ requested(q).id = q.id
           /\ VerdictThen(q.id, replied(holder[q.id].shape, requested(q)))
<1> DEFINE q == Head(requests[c])
<1> DEFINE sh == holder[q.id].shape
<1>1. /\ q.id \in 1..total_id_ /\ holder[q.id].client = c /\ q = pack(q.id, sh)
      /\ served[q.id] = 0 /\ q.id # 0
  <2>1. 1 \in DOMAIN requests[c] /\ q = requests[c][1]
    BY TailElements DEF IInv, TypeOK, Serve
  <2> QED  BY <2>1 DEF IInv, Wire, RequestsUnserved
<1>2. q.request = sh.request /\ q.reply = sh.reply
  BY <1>1 DEF pack
<1>3. q.id \in Ids  BY <1>1, RPCAssumption DEF IInv, TypeOK, Ids
<1>4. UNCHANGED <<holder, callbacks_>>  BY DEF Serve, client
<1>5. \A j \in DOMAIN requests'[c] : requests'[c][j].id # q.id
  BY <1>1, RequestTaken DEF Serve
<1>6. IF \E s \in callbacks_ : Runs(q, s) THEN served'[q.id] = 1 ELSE served'[q.id] = 0
  BY <1>1, <1>3 DEF Serve, IInv, TypeOK
<1> HIDE DEF q, sh
<1>7. /\ requested(q).id = q.id /\ requested(q).request = q.request
      /\ requested(q).reply = q.reply
  BY DEF requested, callbackRequested, makeReply
<1>8. CASE \E s \in callbacks_ : s.request = q.request
  <2>1. PICK s \in callbacks_ : /\ s = (CHOOSE t \in callbacks_ : t.request = q.request)
                                /\ s.request = q.request
    BY <1>8
  <2>2. requested(q) = callbackRequested(s, q)  BY <1>8, <2>1 DEF requested
  <2>3. \A t \in callbacks_ : Runs(q, t) => t = s
    BY <2>1 DEF Runs, IInv, Wire, OneServicePerName
  <2>4. s.result \in Bodies  BY RPCAssumption DEF IInv, TypeOK
  <2>5. CASE Runs(q, s)
    <3>1. served'[q.id] = 1  BY <1>6, <2>5
    <3>2. requested(q) = makeReply(q, "REPLY_PACK_ERROR", "empty")
            \/ (s.result # "empty" /\ requested(q) = makeReply(q, "NOERROR", s.result))
      BY <2>2, <2>5 DEF callbackRequested
    <3>3. replied(sh, requested(q)) \in {"REPLY_PACK_ERROR", "REPLY_NOT_MATCHED",
                                         "REPLY_PARSE_ERROR", "done"}
      BY <3>2 DEF replied, makeReply
    <3>4. replied(sh, requested(q)) = "done" => s.result = "good"
      BY <2>4, <3>2 DEF replied, makeReply, Bodies
    <3>5. VerdictThen(q.id, replied(sh, requested(q)))
      BY <1>1, <1>2, <1>4, <1>5, <2>1, <2>5, <3>1, <3>3, <3>4 DEF VerdictThen, Runs, sh
    <3> QED  BY <1>1, <1>7, <3>5 DEF q, sh
  <2>6. CASE ~Runs(q, s)
    <3>1. served'[q.id] = 0  BY <1>6, <2>3, <2>6
    <3>2. requested(q).errcode \in {"REQUEST_PARSE_ERROR", "REQUEST_NOT_MATCHED"}
      BY <2>2, <2>6 DEF callbackRequested, makeReply
    <3>3. replied(sh, requested(q)) # "done"  BY <3>2 DEF replied
    <3>4. VerdictThen(q.id, replied(sh, requested(q)))
      BY <1>1, <1>4, <1>5, <3>1, <3>3 DEF VerdictThen
    <3> QED  BY <1>1, <1>7, <3>4 DEF q, sh
  <2> QED  BY <2>5, <2>6
<1>9. CASE ~\E s \in callbacks_ : s.request = q.request
  <2>1. served'[q.id] = 0  BY <1>6, <1>9 DEF Runs
  <2>2. requested(q).errcode = "REQUEST_INVALID"  BY <1>9 DEF requested, makeReply
  <2>3. replied(sh, requested(q)) # "done"  BY <2>2 DEF replied
  <2>4. VerdictThen(q.id, replied(sh, requested(q)))
    BY <1>1, <1>4, <1>5, <2>1, <2>3 DEF VerdictThen
  <2> QED  BY <1>1, <1>7, <2>4 DEF q, sh
<1> QED  BY <1>8, <1>9

LEMMA EmitWire ==
  ASSUME IInv, NEW c \in Clients, NEW s \in Shapes, NEW timed \in BOOLEAN, Emit(c, s, timed)
  PROVE  Wire'
<1> DEFINE n == total_id_ + 1
<1> DEFINE m == pack(n, s)
<1>1. /\ n \in Ids /\ total_id_ \in Nat /\ total_id_' = n /\ n \notin 1..total_id_
      /\ \A i \in 1..total_id_ : i \in Ids /\ i \in 1..n
      /\ \A i \in 1..n : i \in 1..total_id_ \/ i = n
  BY RPCAssumption DEF Emit, IInv, TypeOK, Ids
<1>2. /\ holder'[n] = [client |-> c, shape |-> s]
      /\ \A i \in Ids : i # n => holder'[i] = holder[i]
  BY <1>1 DEF Emit, IInv, TypeOK
<1>3. UNCHANGED <<callbacks_, replies, served, ended>>  BY DEF Emit
<1>4. (m.id = 0 /\ m.body = "empty") \/ (m.id = n /\ m = pack(m.id, s))
  BY <1>1 DEF pack
<1>5. m \in Request  BY <1>1, PackType
<1>6. requests'[c] = Append(requests[c], m) /\ requests[c] \in Seq(Request)
      /\ \A d \in Clients : d # c => requests'[d] = requests[d]
  BY DEF Emit, IInv, TypeOK
<1> HIDE DEF m, n
<1>7. \A d \in Clients : \A j \in DOMAIN requests'[d] :
        \/ j \in DOMAIN requests[d] /\ requests'[d][j] = requests[d][j]
        \/ d = c /\ j = Len(requests[c]) + 1 /\ requests'[d][j] = m
  BY <1>5, <1>6, AppendElements
<1>8. RequestsUnserved  BY DEF IInv, Wire
<1>9. AnswerStays
  <2> SUFFICES ASSUME NEW i \in 1..total_id_
               PROVE  /\ holder'[i] = holder[i] /\ served'[i] = served[i]
                      /\ ~Asked(i) => \A j \in DOMAIN requests'[holder[i].client] :
                                        requests'[holder[i].client][j].id # i
    BY DEF AnswerStays
  <2>1. i \in Ids /\ i # n /\ i # 0 /\ holder[i].client \in Clients
    BY <1>1 DEF IInv, Calls, GivenIds
  <2> QED  BY <1>2, <1>3, <1>4, <1>7, <2>1 DEF Asked
<1>10. RequestsUnserved'
  <2> SUFFICES ASSUME NEW d \in Clients, NEW j \in DOMAIN requests'[d],
                      ~(requests'[d][j].id = 0 /\ requests'[d][j].body = "empty")
               PROVE  /\ requests'[d][j].id \in 1..n
                      /\ holder'[requests'[d][j].id].client = d
                      /\ requests'[d][j] = pack(requests'[d][j].id,
                                                 holder'[requests'[d][j].id].shape)
                      /\ served'[requests'[d][j].id] = 0
                      /\ \A k \in DOMAIN requests'[d] :
                           requests'[d][k].id = requests'[d][j].id => k = j
    BY <1>1 DEF RequestsUnserved
  <2>1. \A k \in DOMAIN requests[d] : requests[d][k].id # n
    BY <1>1, <1>8 DEF RequestsUnserved, Ids
  <2>2. CASE j \in DOMAIN requests[d] /\ requests'[d][j] = requests[d][j]
    <3>1. /\ requests[d][j].id \in 1..total_id_ /\ holder[requests[d][j].id].client = d
          /\ requests[d][j] = pack(requests[d][j].id, holder[requests[d][j].id].shape)
          /\ served[requests[d][j].id] = 0
          /\ \A k \in DOMAIN requests[d] : requests[d][k].id = requests[d][j].id => k = j
      BY <1>8, <2>2 DEF RequestsUnserved
    <3>2. requests[d][j].id \in Ids /\ requests[d][j].id # n /\ requests[d][j].id # 0
      BY <1>1, <3>1
    <3> QED  BY <1>1, <1>2, <1>3, <1>4, <1>7, <2>2, <3>1, <3>2
  <2>3. CASE d = c /\ j = Len(requests[c]) + 1 /\ requests'[d][j] = m
    <3>1. m.id = n /\ m = pack(m.id, s)  BY <1>4, <2>3
    <3>2. served[n] = 0  BY <1>1 DEF IInv, Wire, ServedOnce, n
    <3>3. n \in 1..n  BY <1>1 DEF n
    <3> QED  BY <1>2, <1>3, <1>7, <2>1, <2>3, <3>1, <3>2, <3>3
  <2> QED  BY <1>7, <2>2, <2>3
<1>11. RepliesTrue'
  BY <1>1, <1>3, <1>9, RepliesStay DEF n
<1>12. CallbacksTrue'
  <2>1. ended[n] = <<>>  BY <1>1 DEF IInv, Calls, GivenIds, n
  <2>2. \A i \in 1..total_id_' :
          (i \in 1..total_id_ /\ ended'[i] = ended[i]) \/ ended'[i] = <<>>
    <3>1. total_id_' = n /\ ended' = ended  BY <1>1, <1>3
    <3>2. \A i \in 1..n : i \in 1..total_id_ \/ i = n  BY <1>1
    <3> QED  BY ONLY <2>1, <3>1, <3>2
  <2>3. callbacks_ \subseteq callbacks_'  BY <1>3
  <2> QED  BY <1>9, <2>2, <2>3, CallbacksStay
<1>13. ServedOnce'  BY <1>1, <1>3 DEF IInv, Wire, ServedOnce, Ids, n
<1>14. OneServicePerName'  BY <1>3 DEF IInv, Wire, OneServicePerName
<1> QED  BY <1>10, <1>11, <1>12, <1>13, <1>14 DEF Wire

LEMMA ServeWire ==
  ASSUME IInv, NEW c \in Clients, Serve(c)
  PROVE  Wire'
<1> DEFINE q == Head(requests[c])
<1>1. UNCHANGED <<total_id_, holder, callbacks_, ended>>  BY DEF Serve, client
<1>2. /\ requests[c] # <<>> /\ requests' = [requests EXCEPT ![c] = Tail(@)]
      /\ 1 \in DOMAIN requests[c] /\ q = requests[c][1] /\ q \in Request
  BY TailElements DEF Serve, IInv, TypeOK
<1>3. \A i \in Ids : i # q.id => served'[i] = served[i]
  BY DEF Serve, IInv, TypeOK
<1>4. q.id \in Ids => served[q.id] = 0 /\ served'[q.id] \in {0, 1} /\ q.id \in 1..total_id_
                      /\ holder[q.id].client = c
  <2>1. q.id \in Ids => served[q.id] = 0 /\ q.id \in 1..total_id_ /\ holder[q.id].client = c
    BY <1>2 DEF IInv, Wire, RequestsUnserved, Ids
  <2> QED  BY <2>1 DEF Serve, IInv, TypeOK
<1>5. total_id_ \in Nat /\ \A i \in 1..total_id_ : i \in Ids /\ holder[i].client \in Clients
  <2>1. total_id_ \in Nat /\ \A i \in 1..total_id_ : i \in Ids
    BY RPCAssumption DEF IInv, TypeOK, Ids
  <2> QED  BY <2>1 DEF IInv, Calls, GivenIds
<1> HIDE DEF q
<1>6. RequestsUnserved'  BY <1>1, <1>2, <1>3, RequestsKept DEF q
<1>7. AnswerStays
  <2> SUFFICES ASSUME NEW i \in 1..total_id_, ~Asked(i)
               PROVE  /\ served'[i] = served[i]
                      /\ \A j \in DOMAIN requests'[holder[i].client] :
                           requests'[holder[i].client][j].id # i
    BY <1>1 DEF AnswerStays
  <2>1. i # q.id  BY <1>2, <1>4, <1>5 DEF Asked
  <2>2. /\ \A d \in Clients : d # c => requests'[d] = requests[d]
        /\ \A j \in DOMAIN requests'[c] :
             j + 1 \in DOMAIN requests[c] /\ requests'[c][j] = requests[c][j + 1]
    BY <1>2, RequestTaken
  <2> QED  BY <1>3, <1>5, <2>1, <2>2 DEF Asked
<1>8. RepliesTrue'
  <2>1. requested(q) \in Reply  BY <1>2, RequestedType DEF IInv, TypeOK
  <2>2. /\ replies'[c] = Append(replies[c], requested(q)) /\ replies[c] \in Seq(Reply)
        /\ \A d \in Clients : d # c => replies'[d] = replies[d]
    BY DEF Serve, IInv, TypeOK, q
  <2>3. \A d \in Clients : \A j \in DOMAIN replies'[d] :
          \/ j \in DOMAIN replies[d] /\ replies'[d][j] = replies[d][j]
          \/ d = c /\ replies'[d][j] = requested(q)
    BY <2>1, <2>2, AppendElements
  <2>4. \/ requested(q).id = 0
        \/ /\ requested(q).id \in 1..total_id_ /\ holder[requested(q).id].client = c
           /\ VerdictThen(requested(q).id,
                          replied(holder[requested(q).id].shape, requested(q)))
    <3>1. CASE q.id = 0  BY <3>1 DEF requested, callbackRequested, makeReply
    <3>2. CASE q.id # 0
      <4>1. /\ q.id \in 1..total_id_ /\ holder[q.id].client = c
            /\ requested(q).id = q.id
            /\ VerdictThen(q.id, replied(holder[q.id].shape, requested(q)))
        BY <3>2, ServeVerdict DEF q
      <4> QED  BY ONLY <4>1
    <3> QED  BY <3>1, <3>2
  <2> QED  BY <1>1, <1>5, <1>7, <2>3, <2>4, RepliesStay
<1>9. CallbacksTrue'  BY <1>1, <1>7, CallbacksStay
<1>10. ServedOnce'
  <2> SUFFICES ASSUME NEW i \in Ids
               PROVE  served'[i] <= 1 /\ (i > total_id_ => served'[i] = 0)
    BY <1>1 DEF ServedOnce
  <2>1. served[i] <= 1 /\ (i > total_id_ => served[i] = 0)  BY DEF IInv, Wire, ServedOnce
  <2>2. CASE i = q.id
    <3>1. i \in 1..total_id_ /\ served'[i] \in {0, 1}  BY <1>4, <2>2
    <3> QED  BY <1>5, <3>1
  <2>3. CASE i # q.id  BY <1>3, <2>1, <2>3
  <2> QED  BY <2>2, <2>3
<1>11. OneServicePerName'  BY <1>1 DEF IInv, Wire, OneServicePerName
<1> QED  BY <1>6, <1>8, <1>9, <1>10, <1>11 DEF Wire

(***************************************************************************)
(* Steps that leave the requests, or all but the first of one queue, and   *)
(* what was served as they are.                                            *)
(***************************************************************************)
LEMMA QuietWire ==
  ASSUME IInv, UNCHANGED <<total_id_, holder, served>>, callbacks_ \subseteq callbacks_',
         requests' = requests \/ \E c \in Clients :
                                   /\ requests[c] # <<>>
                                   /\ requests' = [requests EXCEPT ![c] = Tail(@)]
  PROVE  RequestsUnserved' /\ AnswerStays /\ ServedOnce'
<1>1. ServedOnce'  BY DEF IInv, Wire, ServedOnce
<1>2. CASE requests' = requests
  <2>1. RequestsUnserved'  BY <1>2 DEF IInv, Wire, RequestsUnserved
  <2>2. AnswerStays  BY <1>2 DEF AnswerStays, Asked
  <2> QED  BY <1>1, <2>1, <2>2
<1>3. ASSUME NEW c \in Clients, requests[c] # <<>>,
             requests' = [requests EXCEPT ![c] = Tail(@)]
      PROVE  RequestsUnserved' /\ AnswerStays
  <2>1. RequestsUnserved'  BY <1>3, RequestsKept
  <2>2. /\ \A d \in Clients : d # c => requests'[d] = requests[d]
        /\ \A j \in DOMAIN requests'[c] :
             j + 1 \in DOMAIN requests[c] /\ requests'[c][j] = requests[c][j + 1]
    BY <1>3, RequestTaken
  <2>3. \A i \in 1..total_id_ : holder[i].client \in Clients
    <3>1. \A i \in 1..total_id_ : i \in Ids /\ i <= total_id_
      BY RPCAssumption DEF IInv, TypeOK, Ids
    <3> QED  BY <3>1 DEF IInv, Calls, GivenIds
  <2>4. AnswerStays  BY <2>2, <2>3 DEF AnswerStays, Asked
  <2> QED  BY <2>1, <2>4
<1> QED  BY <1>1, <1>2, <1>3

LEMMA ReplyTaken ==
  ASSUME IInv, NEW c \in Clients, replies[c] # <<>>,
         replies' = [replies EXCEPT ![c] = Tail(@)]
  PROVE  /\ \A d \in Clients : \A j \in DOMAIN replies'[d] :
              \E k \in DOMAIN replies[d] : replies'[d][j] = replies[d][k]
         /\ 1 \in DOMAIN replies[c] /\ Head(replies[c]) = replies[c][1]
<1>1. /\ replies[c] \in Seq(Reply) /\ replies'[c] = Tail(replies[c])
      /\ \A d \in Clients : d # c => replies'[d] = replies[d]
  BY DEF IInv, TypeOK
<1>2. /\ 1 \in DOMAIN replies[c] /\ Head(replies[c]) = replies[c][1]
      /\ \A j \in DOMAIN Tail(replies[c]) :
           j + 1 \in DOMAIN replies[c] /\ Tail(replies[c])[j] = replies[c][j + 1]
  BY ONLY <1>1, replies[c] # <<>>, TailElements
<1>3. ASSUME NEW d \in Clients, NEW j \in DOMAIN replies'[d]
      PROVE  \E k \in DOMAIN replies[d] : replies'[d][j] = replies[d][k]
  BY <1>1, <1>2
<1> QED  BY ONLY <1>2, <1>3

LEMMA WireStep == IInv /\ [Next]_vars => Wire'
<1> SUFFICES ASSUME IInv, [Next]_vars PROVE Wire'
  OBVIOUS
<1>0. /\ total_id_ \in Nat
      /\ \A i \in 1..total_id_ : i \in Ids /\ holder[i].client \in Clients
  <2>1. total_id_ \in Nat /\ \A i \in 1..total_id_ : i \in Ids
    BY RPCAssumption DEF IInv, TypeOK, Ids
  <2> QED  BY <2>1 DEF IInv, Calls, GivenIds
<1>1. ASSUME NEW c \in Clients, NEW s \in Shapes, NEW timed \in BOOLEAN, Emit(c, s, timed)
      PROVE  Wire'
  BY <1>1, EmitWire
<1>2. ASSUME NEW c \in Clients, ReceiveReply(c) PROVE Wire'
  <2> DEFINE r == Head(replies[c])
  <2>1. UNCHANGED <<total_id_, holder, served, callbacks_, requests>>
    BY <1>2 DEF ReceiveReply
  <2>2. RequestsUnserved' /\ AnswerStays /\ ServedOnce'  BY <2>1, QuietWire
  <2>3. /\ \A d \in Clients : \A j \in DOMAIN replies'[d] :
             \E k \in DOMAIN replies[d] : replies'[d][j] = replies[d][k]
        /\ 1 \in DOMAIN replies[c] /\ r = replies[c][1]
    BY <1>2, ReplyTaken DEF ReceiveReply
  <2>4. RepliesTrue'  BY <1>0, <2>1, <2>2, <2>3, RepliesStay
  <2>5. OneServicePerName'  BY <2>1 DEF IInv, Wire, OneServicePerName
  <2>6. CallbacksTrue'
    <3>1. CASE r.id \in rpc_holders_[c]
      <4>1. Conclude(c, {r.id}, replied(holder[r.id].shape, r))
        BY <1>2, <3>1 DEF ReceiveReply
      <4>2. r.id \in Ids /\ ended[r.id] = <<>>
        BY <3>1 DEF IInv, TypeOK, Calls, OpenCalls
      <4>3. /\ ended'[r.id] = Append(<<>>, replied(holder[r.id].shape, r))
            /\ \A i \in Ids : i # r.id => ended'[i] = ended[i]
        BY <4>1, <4>2 DEF Conclude
      <4>4. Head(ended'[r.id]) = replied(holder[r.id].shape, r)  BY <4>3
      <4>5. r.id # 0  BY <4>2 DEF Ids
      <4>6. r.id \in 1..total_id_ /\ Verdict(r.id, replied(holder[r.id].shape, r))
        BY <2>3, <4>5 DEF IInv, Wire, RepliesTrue
      <4>7. VerdictThen(r.id, Head(ended'[r.id]))
        BY <2>1, <2>2, <4>4, <4>6, VerdictStays
      <4>8. \A i \in 1..total_id_' :
              (i \in 1..total_id_ /\ ended'[i] = ended[i]) \/ VerdictThen(i, Head(ended'[i]))
        BY <1>0, <2>1, <4>3, <4>7
      <4> QED  BY <2>1, <2>2, <4>8, CallbacksStay
    <3>2. CASE r.id \notin rpc_holders_[c]
      <4>1. ended' = ended  BY <1>2, <3>2 DEF ReceiveReply
      <4> QED  BY <2>1, <2>2, <4>1, CallbacksStay
    <3> QED  BY <3>1, <3>2
  <2> QED  BY <2>2, <2>4, <2>5, <2>6 DEF Wire
<1>3. ASSUME NEW c \in Clients, CheckTimeout(c) PROVE Wire'
  <2> DEFINE S == rpc_timeout_holders_[c] \cap expired
  <2>1. UNCHANGED <<total_id_, holder, served, callbacks_, requests, replies>>
    BY <1>3 DEF CheckTimeout, network
  <2>2. RequestsUnserved' /\ AnswerStays /\ ServedOnce'  BY <2>1, QuietWire
  <2>3. RepliesTrue'  BY <1>0, <2>1, <2>2, RepliesStay
  <2>4. OneServicePerName'  BY <2>1 DEF IInv, Wire, OneServicePerName
  <2>5. \A i \in S : i \in Ids /\ ended[i] = <<>>
    BY DEF IInv, TypeOK, Calls, NoStrayTimeout, OpenCalls
  <2>6. \A i \in Ids : IF i \in S THEN ended'[i] = Append(<<>>, "timeout")
                                  ELSE ended'[i] = ended[i]
    BY <1>3, <2>5 DEF CheckTimeout, Conclude
  <2>7. \A i \in Ids : i \in S => Head(ended'[i]) = "timeout"
    BY <2>6
  <2>8. CallbacksTrue'  BY <1>0, <2>1, <2>2, <2>6, <2>7, CallbacksStay
  <2> QED  BY <2>2, <2>3, <2>4, <2>8 DEF Wire
<1>4. ASSUME NEW c \in Clients, Serve(c) PROVE Wire'
  BY <1>4, ServeWire
<1>5. ASSUME UNCHANGED <<total_id_, holder, served, ended, replies>>,
             callbacks_ \subseteq callbacks_', OneServicePerName',
             requests' = requests \/ \E c \in Clients :
                                       /\ requests[c] # <<>>
                                       /\ requests' = [requests EXCEPT ![c] = Tail(@)]
      PROVE  Wire'
  <2>1. RequestsUnserved' /\ AnswerStays /\ ServedOnce'  BY <1>5, QuietWire
  <2>2. RepliesTrue'  BY <1>0, <1>5, <2>1, RepliesStay
  <2>3. CallbacksTrue'  BY <1>5, <2>1, CallbacksStay
  <2> QED  BY <1>5, <2>1, <2>2, <2>3 DEF Wire
<1>6. callbacks_' = callbacks_ => OneServicePerName'
  BY DEF IInv, Wire, OneServicePerName
<1>7. ASSUME NEW c \in Clients, LoseRequest(c) PROVE Wire'
  BY <1>5, <1>6, <1>7 DEF LoseRequest, client
<1>7b. ASSUME NEW c \in Clients, ServeThrows(c) PROVE Wire'
  BY <1>5, <1>6, <1>7b DEF ServeThrows, client
<1>8. ASSUME NEW c \in Clients, LoseReply(c) PROVE Wire'
  <2>1. UNCHANGED <<total_id_, holder, served, callbacks_, requests, ended>>
    BY <1>8 DEF LoseReply, client
  <2>2. RequestsUnserved' /\ AnswerStays /\ ServedOnce'  BY <2>1, QuietWire
  <2>3. \A d \in Clients : \A j \in DOMAIN replies'[d] :
             \E k \in DOMAIN replies[d] : replies'[d][j] = replies[d][k]
    BY <1>8, ReplyTaken DEF LoseReply
  <2>4. RepliesTrue'  BY <1>0, <2>1, <2>2, <2>3, RepliesStay
  <2>5. CallbacksTrue'  BY <2>1, <2>2, CallbacksStay
  <2> QED  BY <1>6, <2>1, <2>2, <2>4, <2>5 DEF Wire
<1>9. ASSUME NEW i \in Ids, Elapse(i) PROVE Wire'
  BY <1>5, <1>6, <1>9 DEF Elapse, client, network
<1>10. ASSUME NEW s \in Services, On(s) PROVE Wire'
  <2>1. callbacks_ \subseteq callbacks_'  BY <1>10 DEF On
  <2>2. OneServicePerName'  BY <1>10 DEF On, IInv, Wire, OneServicePerName
  <2> QED  BY <1>5, <1>10, <2>1, <2>2 DEF On, client, network
<1>11. CASE UNCHANGED vars  BY <1>5, <1>6, <1>11 DEF vars
<1> QED  BY <1>1, <1>2, <1>3, <1>4, <1>7, <1>7b, <1>8, <1>9, <1>10, <1>11 DEF Next

-----------------------------------------------------------------------------
LEMMA Invariance == Spec => []IInv
<1>1. Init => IInv
  <2> SUFFICES ASSUME Init PROVE IInv
    OBVIOUS
  <2>1. TypeOK  BY RPCAssumption DEF Init, TypeOK, NoHolder
  <2>2. Calls
    BY RPCAssumption DEF Init, Calls, OneCallback, NoStrayTimeout, OpenCalls, GivenIds, Ids
  <2>3. Wire
    BY RPCAssumption DEF Init, Wire, RequestsUnserved, RepliesTrue, CallbacksTrue,
                         ServedOnce, OneServicePerName
  <2> QED  BY <2>1, <2>2, <2>3 DEF IInv
<1>2. IInv /\ [Next]_vars => IInv'
  <2> SUFFICES ASSUME IInv, [Next]_vars PROVE IInv'
    OBVIOUS
  <2>1. TypeOK'  BY TypeStep DEF IInv
  <2>2. Calls'  BY CallsStep
  <2>3. Wire'  BY WireStep
  <2> QED  BY <2>1, <2>2, <2>3 DEF IInv
<1> QED  BY <1>1, <1>2, PTL DEF Spec

(***************************************************************************)
(* The type invariant.                                                     *)
(***************************************************************************)
THEOREM TypeCorrect == Spec => []TypeOK
<1>1. IInv => TypeOK  BY DEF IInv
<1> QED  BY Invariance, <1>1, PTL

(***************************************************************************)
(* RPCEmitter::replied() and checkTimeout() run one callback per call,     *)
(* whatever is lost and however late a reply comes, for any number of      *)
(* clients, calls and services.                                            *)
(***************************************************************************)
THEOREM EachCallHasOneCallback == Spec => []OneCallback
<1>1. IInv => OneCallback  BY DEF IInv, Calls
<1> QED  BY Invariance, <1>1, PTL

(***************************************************************************)
(* rpc_timeout_holders_ keeps no holder that rpc_holders_ has forgotten.   *)
(***************************************************************************)
THEOREM NoHolderStrays == Spec => []NoStrayTimeout
<1>1. IInv => NoStrayTimeout  BY DEF IInv, Calls
<1> QED  BY Invariance, <1>1, PTL

(***************************************************************************)
(* RPCHolder::replied(): done() runs only after a handler for exactly the  *)
(* caller's types ran for this call, once; and when the server reports an  *)
(* error in the request, none ran.                                         *)
(***************************************************************************)
THEOREM CallbacksAreTrue == Spec => []CallbackTellsTruth
<1>1. IInv => CallbackTellsTruth
  <2> SUFFICES ASSUME IInv, NEW i \in 1..total_id_
               PROVE  /\ served[i] <= 1
                      /\ ended[i] = <<"done">> => Verdict(i, "done")
                      /\ \A e \in {"REQUEST_INVALID", "REQUEST_NOT_MATCHED",
                                   "REQUEST_PARSE_ERROR"} :
                           ended[i] = <<e>> => Verdict(i, e)
    BY DEF CallbackTellsTruth, Verdict
  <2>1. served[i] <= 1  BY RPCAssumption DEF IInv, TypeOK, Wire, ServedOnce, Ids
  <2>2. ASSUME NEW e, ended[i] = <<e>>, e # "timeout" PROVE Verdict(i, e)
    BY <2>2 DEF IInv, Wire, CallbacksTrue
  <2> QED  BY <2>1, <2>2
<1> QED  BY Invariance, <1>1, PTL
=============================================================================
