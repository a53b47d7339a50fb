-------------------------- MODULE TinyTableProofs ---------------------------
(***************************************************************************)
(* Proofs about TinyTable, for every kind of table, any sets of keys,      *)
(* values and calls, and any number of failures.                           *)
(***************************************************************************)
EXTENDS TinyTable, TLAPS

-----------------------------------------------------------------------------
(***************************************************************************)
(* Queues.                                                                 *)
(***************************************************************************)
LEMMA TailElements ==
  ASSUME NEW S, NEW s \in Seq(S), s # <<>>
  PROVE  /\ Tail(s) \in Seq(S) /\ 1 \in DOMAIN s /\ Head(s) = s[1] /\ Head(s) \in S
         /\ \A j \in DOMAIN Tail(s) :
              j \in Nat /\ j + 1 \in DOMAIN s /\ j + 1 # 1 /\ Tail(s)[j] = s[j + 1]
OBVIOUS

LEMMA AppendElements ==
  ASSUME NEW S, NEW s \in Seq(S), NEW e \in S
  PROVE  /\ Append(s, e) \in Seq(S)
         /\ \A j \in DOMAIN Append(s, e) :
              IF j = Len(s) + 1 THEN Append(s, e)[j] = e
                                ELSE j \in DOMAIN s /\ Append(s, e)[j] = s[j]
OBVIOUS

-----------------------------------------------------------------------------
Request == [id : Ids, op : Ops, key : Keys, value : Objects]
Answer == [id : Ids, op : Ops, retcode : {0, 1, 11}, value : Objects]

LEMMA CallType ==
  ASSUME NEW c \in Calls
  PROVE  c.op \in Ops /\ c.key \in Keys /\ c.value \in Objects
BY TableAssumption DEF Ops, Objects

LEMMA HandleStep ==
  ASSUME IInv, NEW c \in Calls, NEW done \in BOOLEAN, Handle(c, done)
  PROVE  IInv'
<1> DEFINE i == total_id_ + 1
           q == [id |-> i, op |-> c.op, key |-> c.key, value |-> c.value]
<1>0. TypeOK /\ HandlerWhileOpen /\ Emitted /\ MaxCalls \in Nat
  BY TableAssumption DEF IInv
<1>1. /\ total_id_' = i /\ i \in Ids /\ i > total_id_ /\ total_id_ \in Nat
      /\ UNCHANGED <<replies, kind, items_, db, failures, seen, stale>>
  BY <1>0 DEF Handle, server, TypeOK, Ids
<1>2. /\ DOMAIN handlers_' = DOMAIN handlers_ \cup {i} /\ handlers_'[i] = c
      /\ \A j \in DOMAIN handlers_ : j # i => handlers_'[j] = handlers_[j]
  <2>1. handlers_' = Put(handlers_, i, c)  BY DEF Handle
  <2> QED  BY <2>1 DEF Put
<1>3. outcome[i].how = "none"  BY <1>0, <1>1 DEF Emitted
<1>4. q \in Request  BY <1>1, CallType DEF Request
<1>5. requests \in Seq(Request)  BY <1>0 DEF TypeOK, Request
<1>6. /\ requests' \in Seq(Request)
      /\ \A j \in DOMAIN requests' :
           \/ j \in DOMAIN requests /\ requests'[j] = requests[j]
           \/ j = Len(requests) + 1 /\ requests'[j] = q /\ outcome'[i] = Open
      /\ outcome' = outcome \/ outcome' = [outcome EXCEPT ![i] = Open]
  <2>1. CASE ~done  BY <1>5, <2>1 DEF Handle
  <2>2. CASE done
    <3>1. requests' = Append(requests, q) /\ outcome' = [outcome EXCEPT ![i] = Open]
      BY <1>1, <2>2 DEF Handle
    <3>2. outcome'[i] = Open  BY <1>0, <1>1, <3>1 DEF TypeOK
    <3> QED  BY <1>4, <1>5, <3>1, <3>2, AppendElements
  <2> QED  BY <2>1, <2>2
<1> HIDE DEF q
<1>7. /\ outcome' \in [Ids -> Outcomes]
      /\ outcome'[i].how \in {"none", "open"}
      /\ \A j \in Ids : j # i => outcome'[j] = outcome[j]
  <2>1. Open \in Outcomes /\ Open.how = "open"  BY DEF Open, Outcomes
  <2>2. outcome \in [Ids -> Outcomes]  BY <1>0 DEF TypeOK
  <2> QED  BY <1>1, <1>3, <1>6, <2>1, <2>2
<1>8. TypeOK'
  BY <1>0, <1>1, <1>2, <1>6, <1>7 DEF TypeOK, Request, Ids
<1>9. HandlerWhileOpen'
  <2>1. DOMAIN handlers_' = {j \in 1..total_id_' : outcome'[j].how \in {"none", "open"}}
    <3>1. DOMAIN handlers_ = {j \in 1..total_id_ : outcome[j].how \in {"none", "open"}}
      BY <1>0 DEF HandlerWhileOpen
    <3>2. 1..total_id_' = (1..total_id_) \cup {i} /\ 1..total_id_ \subseteq Ids /\ i \notin 1..total_id_
      BY <1>0, <1>1 DEF Ids
    <3> QED  BY <1>2, <1>7, <3>1, <3>2
  <2>2. \A n \in DOMAIN requests' : requests'[n].id \in 1..total_id_'
    <3>1. q.id = i  BY DEF q
    <3> QED  BY <1>0, <1>1, <1>6, <3>1 DEF HandlerWhileOpen
  <2> QED  BY <1>0, <1>1, <2>1, <2>2 DEF HandlerWhileOpen
<1>10. Emitted'
  <2>0. q.id = i /\ Open.how = "open"  BY DEF q, Open
  <2>1. \A j \in Ids : j > total_id_' => outcome'[j].how = "none"
    BY <1>0, <1>1, <1>7 DEF Emitted, Ids
  <2>2. \A r \in replies : r.id <= total_id_  BY <1>0 DEF Emitted
  <2>3. \A j \in DOMAIN seen : j <= total_id_  BY <1>0 DEF Emitted
  <2>4. \A r \in replies : r.id \in Nat
    BY <1>0 DEF TypeOK, Ids
  <2>5. ASSUME NEW n \in DOMAIN requests'
        PROVE  /\ outcome'[requests'[n].id].how \in {"open", "timeout"}
               /\ requests'[n].id \notin DOMAIN seen
               /\ \A r \in replies : r.id # requests'[n].id
               /\ \A m \in DOMAIN requests' : requests'[m].id = requests'[n].id => m = n
    <3>1. \A m \in DOMAIN requests : requests[m].id # i /\ requests[m].id \in Ids
      <4>1. \A m \in DOMAIN requests : requests[m] \in Request  BY <1>5
      <4>2. \A m \in DOMAIN requests : requests[m].id \in Ids  BY <4>1 DEF Request
      <4> QED  BY <1>0, <1>1, <4>2 DEF HandlerWhileOpen
    <3>2. CASE n \in DOMAIN requests /\ requests'[n] = requests[n]
      BY <1>0, <1>6, <1>7, <2>0, <3>1, <3>2 DEF Emitted
    <3>3. CASE n = Len(requests) + 1 /\ requests'[n] = q /\ outcome'[i] = Open
      <4>1. i \notin DOMAIN seen /\ \A r \in replies : r.id # i  BY <1>1, <2>2, <2>3, <2>4
      <4>2. \A m \in DOMAIN requests' : requests'[m].id = i => m = n
        BY <1>6, <3>1, <3>3
      <4> QED  BY <2>0, <3>3, <4>1, <4>2
    <3> QED  BY <1>6, <3>2, <3>3
  <2>6. \A r \in replies' : r.id <= total_id_'  BY <1>1, <2>2, <2>4
  <2>7. \A j \in DOMAIN seen : j \in Nat  BY <1>0 DEF TypeOK, Ids
  <2>8. \A j \in DOMAIN seen' : j <= total_id_'  BY <1>1, <2>3, <2>7
  <2> QED  BY <1>1, <2>1, <2>5, <2>6, <2>8 DEF Emitted
<1>11. \A r \in replies' : Right(r)'  BY <1>1 DEF IInv, Right
<1>12. MemoryIsTrue'  BY <1>1 DEF IInv, MemoryIsTrue
<1>13. GetAnswersRow'
  <2>1. \A j \in DOMAIN seen : j \in Ids /\ j # i
    BY <1>0, <1>1 DEF TypeOK, Emitted
  <2> QED  BY <1>1, <1>7, <2>1 DEF IInv, GetAnswersRow
<1> QED  BY <1>8, <1>9, <1>10, <1>11, <1>12, <1>13 DEF IInv

(***************************************************************************)
(* A call ends: by its reply or by its timeout.                            *)
(***************************************************************************)
LEMMA EndStep ==
  ASSUME IInv, NEW i \in Ids, NEW o \in Outcomes, o.how \notin {"none", "open"},
         i <= total_id_, \A n \in DOMAIN requests : requests[n].id = i => o.how = "timeout",
         End(i, o), replies' \subseteq replies, UNCHANGED <<total_id_, requests, server>>,
         (i \in DOMAIN seen /\ kind \in {"db", "cache"} /\ ~seen[i].stale) =>
            /\ o.how = "done" /\ o.op = "get" => o.value = seen[i].row
            /\ o.how = "nonexist" =>
                 seen[i].row = Absent \/ seen[i].failed \/ seen[i].key \in Garbled
  PROVE  IInv'
<1>0. TypeOK /\ HandlerWhileOpen /\ Emitted /\ GetAnswersRow /\ MaxCalls \in Nat
  BY TableAssumption DEF IInv
<1>1. /\ outcome' \in [Ids -> Outcomes] /\ outcome'[i] = o
      /\ \A j \in Ids : j # i => outcome'[j] = outcome[j]
  BY <1>0 DEF End, TypeOK
<1>2. /\ DOMAIN handlers_' = DOMAIN handlers_ \ {i}
      /\ \A j \in DOMAIN handlers_' : handlers_'[j] = handlers_[j]
  <2>1. handlers_' = Remove(handlers_, i)  BY DEF End, removeHandler
  <2> QED  BY <2>1 DEF Remove
<1>3. UNCHANGED <<kind, items_, db, failures, seen, stale>>  BY DEF server
<1>4. TypeOK'  BY <1>0, <1>1, <1>2, <1>3 DEF TypeOK
<1>5. HandlerWhileOpen'
  <2>1. 1..total_id_ \subseteq Ids  BY <1>0 DEF TypeOK, Ids
  <2>2. DOMAIN handlers_' = {j \in 1..total_id_ : outcome'[j].how \in {"none", "open"}}
    BY <1>0, <1>1, <1>2, <2>1 DEF HandlerWhileOpen
  <2> QED  BY <1>0, <1>3, <2>2 DEF HandlerWhileOpen
<1>6. Emitted'
  <2>1. \A j \in Ids : j > total_id_ => outcome'[j].how = "none"
    <3>1. total_id_ \in Nat /\ i \in Nat  BY <1>0 DEF TypeOK, Ids
    <3>2. ~(i > total_id_)  BY <3>1
    <3> QED  BY <1>0, <1>1, <3>2 DEF Emitted
  <2>2. requests \in Seq(Request)  BY <1>0 DEF TypeOK, Request
  <2>3. \A n \in DOMAIN requests : requests[n].id \in Ids
    <3>1. \A n \in DOMAIN requests : requests[n] \in Request  BY <2>2
    <3> QED  BY <3>1 DEF Request
  <2>4. \A n \in DOMAIN requests : outcome'[requests[n].id].how \in {"open", "timeout"}
    BY <1>0, <1>1, <2>3 DEF Emitted
  <2> QED  BY <1>0, <1>3, <2>1, <2>4 DEF Emitted
<1>7. \A r \in replies' : Right(r)'  BY <1>3 DEF IInv, Right
<1>8. MemoryIsTrue'  BY <1>3 DEF IInv, MemoryIsTrue
<1>9. GetAnswersRow'
  <2>1. \A j \in DOMAIN seen : j \in Ids  BY <1>0 DEF TypeOK
  <2> QED  BY <1>0, <1>1, <1>3, <2>1 DEF GetAnswersRow
<1> QED  BY <1>4, <1>5, <1>6, <1>7, <1>8, <1>9 DEF IInv

LEMMA TimeoutStep ==
  ASSUME IInv, NEW i \in Ids, rpc_timeout(i) PROVE IInv'
<1> DEFINE o == [how |-> "timeout"]
<1>1. End(i, o) /\ UNCHANGED <<total_id_, requests, replies, server>> /\ outcome[i] = Open
  BY DEF rpc_timeout
<1>2. o \in Outcomes /\ o.how = "timeout"  BY DEF Outcomes
<1>3. i <= total_id_
  <2>1. total_id_ \in Nat /\ i \in Nat  BY TableAssumption DEF IInv, TypeOK, Ids
  <2>2. ~(i > total_id_)  BY <1>1 DEF IInv, Emitted, Open
  <2> QED  BY <2>1, <2>2
<1> HIDE DEF o
<1> QED  BY <1>1, <1>2, <1>3, EndStep

LEMMA DeliverStep ==
  ASSUME IInv, NEW r \in replies, Deliver(r) PROVE IInv'
<1>0. TypeOK /\ HandlerWhileOpen /\ Emitted  BY DEF IInv
<1>1. UNCHANGED <<total_id_, requests, server>> /\ replies' \subseteq replies
  BY DEF Deliver
<1>2. r \in Answer  BY <1>0 DEF TypeOK, Answer
<1>3. r.id \in Ids /\ r.op \in Ops /\ r.value \in Objects  BY <1>2 DEF Answer
<1>4. CASE outcome[r.id] = Open
  <2>1. End(r.id, rpc_done(r))  BY <1>4 DEF Deliver
  <2>2. r.id \in DOMAIN handlers_
    <3>1. total_id_ \in Nat /\ r.id \in Nat  BY <1>0, <1>3, TableAssumption DEF TypeOK, Ids
    <3>2. r.id \in 1..total_id_  BY <1>0, <1>3, <3>1 DEF Emitted, Ids
    <3> QED  BY <1>0, <1>4, <3>2 DEF HandlerWhileOpen, Open
  <2>3. handlers_[r.id].value \in Objects  BY <1>0, <2>2, CallType DEF TypeOK
  <2>4. /\ rpc_done(r) \in Outcomes /\ rpc_done(r).how \notin {"none", "open"}
        /\ rpc_done(r).how = "done" /\ rpc_done(r).op = "get"
             => r.op = "get" /\ r.retcode = 0 /\ rpc_done(r).value = r.value
        /\ rpc_done(r).how = "nonexist" => r.op = "get" /\ r.retcode # 0
    BY <1>3, <2>3 DEF rpc_done, GetDone, SetOrDelDone, LoadError, Outcomes, Ops
  <2>5. Right(r)  BY DEF IInv
  <2>6. r.id <= total_id_ /\ \A n \in DOMAIN requests : requests[n].id # r.id
    BY <1>0 DEF Emitted
  <2>7. (r.id \in DOMAIN seen /\ kind \in {"db", "cache"} /\ ~seen[r.id].stale) =>
            /\ rpc_done(r).how = "done" /\ rpc_done(r).op = "get"
                 => rpc_done(r).value = seen[r.id].row
            /\ rpc_done(r).how = "nonexist" =>
                 seen[r.id].row = Absent \/ seen[r.id].failed \/ seen[r.id].key \in Garbled
    BY <2>4, <2>5 DEF Right
  <2> QED  BY <1>1, <1>3, <2>1, <2>4, <2>6, <2>7, EndStep
<1>5. CASE outcome[r.id] # Open
  <2>1. UNCHANGED <<outcome, handlers_>>  BY <1>5 DEF Deliver
  <2> QED  BY <1>1, <2>1 DEF IInv, server, TypeOK, HandlerWhileOpen, Emitted, Right,
             MemoryIsTrue, GetAnswersRow
<1> QED  BY <1>4, <1>5

-----------------------------------------------------------------------------
(***************************************************************************)
(* The server.  Whatever the request: it is taken, and one reply is put on *)
(* the way.                                                                *)
(***************************************************************************)
LEMMA LoseStep == IInv /\ LoseRequest => IInv'
<1> SUFFICES ASSUME IInv, LoseRequest PROVE IInv'
  OBVIOUS
<1>0. TypeOK /\ HandlerWhileOpen /\ Emitted  BY DEF IInv
<1>1. requests \in Seq(Request) /\ requests # <<>> /\ requests' = Tail(requests)
  BY <1>0 DEF TypeOK, Request, LoseRequest
<1>2. UNCHANGED <<handlers_, total_id_, replies, outcome, kind, items_, db, failures, seen, stale>>
  BY DEF LoseRequest, server
<1>3. /\ requests' \in Seq(Request)
      /\ \A j \in DOMAIN requests' :
           j \in Nat /\ j + 1 \in DOMAIN requests /\ requests'[j] = requests[j + 1]
  BY <1>1, TailElements
<1>4. TypeOK'  BY <1>0, <1>2, <1>3 DEF TypeOK, Request
<1>5. HandlerWhileOpen'  BY <1>0, <1>2, <1>3 DEF HandlerWhileOpen
<1>6. Emitted'
  <2>1. ASSUME NEW n \in DOMAIN requests', NEW m \in DOMAIN requests',
               requests'[m].id = requests'[n].id
        PROVE  m = n
    <3>1. n \in Nat /\ m \in Nat /\ m + 1 = n + 1  BY <1>0, <1>3, <2>1 DEF Emitted
    <3> QED  BY <3>1
  <2> QED  BY <1>0, <1>2, <1>3, <2>1 DEF Emitted
<1> QED  BY <1>2, <1>4, <1>5, <1>6 DEF IInv, Right, MemoryIsTrue, GetAnswersRow

(***************************************************************************)
(* What a request is answered with; the reply is right about the row.      *)
(***************************************************************************)
Served(q, code, value) ==
    /\ code \in {0, 1, 11} /\ value \in Objects
    /\ (q.op = "get" /\ kind \in {"db", "cache"} /\ q.key \notin stale) =>
         IF code = 0
           THEN q.key \in DOMAIN db /\ value = db[q.key]
           ELSE q.key \notin DOMAIN db \/ failures' # failures \/ q.key \in Garbled

LEMMA ReplyStep ==
  ASSUME IInv, requests # <<>>, NEW code, NEW value, Reply(Head(requests), code, value),
         Served(Head(requests), code, value), failures' \in 0..MaxFailures,
         \A k \in DOMAIN items_' : kind = "cache" /\ items_'[k] \in Objects \ Garbled,
         \A k \in DOMAIN db' : db'[k] \in Objects \ Garbled,
         \A k \in DOMAIN items_' \ stale' : k \in DOMAIN db' /\ db'[k] = items_'[k]
  PROVE  IInv'
<1> DEFINE q == Head(requests)
           a == [id |-> q.id, op |-> q.op, retcode |-> code, value |-> value]
           s == [key |-> q.key, row |-> IF q.key \in DOMAIN db THEN db[q.key] ELSE Absent,
                 stale |-> q.key \in stale, failed |-> failures' # failures]
<1>0. TypeOK /\ HandlerWhileOpen /\ Emitted /\ GetAnswersRow  BY DEF IInv
<1>1. requests \in Seq(Request)  BY <1>0 DEF TypeOK, Request
<1>2. /\ requests' \in Seq(Request) /\ 1 \in DOMAIN requests /\ q = requests[1] /\ q \in Request
      /\ \A j \in DOMAIN requests' : /\ j \in Nat /\ j + 1 \in DOMAIN requests /\ j + 1 # 1
                                     /\ requests'[j] = requests[j + 1]
  <2>1. requests' = Tail(requests)  BY DEF Reply
  <2> QED  BY <1>1, <2>1, TailElements
<1>3. q.id \in Ids /\ q.op \in Ops /\ q.key \in Keys  BY <1>2 DEF Request
<1>4. UNCHANGED <<kind, handlers_, total_id_, outcome>>  BY DEF Reply
<1>5. /\ outcome[q.id].how \in {"open", "timeout"} /\ q.id \notin DOMAIN seen
      /\ q.id \in 1..total_id_
      /\ \A r \in replies : r.id # q.id
      /\ \A n \in DOMAIN requests' : requests'[n].id # q.id
  <2>1. \A n \in DOMAIN requests : requests[n].id = q.id => n = 1  BY <1>0, <1>2 DEF Emitted
  <2> QED  BY <1>0, <1>2, <2>1 DEF Emitted, HandlerWhileOpen
<1>6. replies' = replies \cup {a}  BY DEF Reply
<1>7. a \in Answer /\ a.id = q.id /\ a.op = q.op /\ a.retcode = code /\ a.value = value
  BY <1>3 DEF Answer, Served
<1>8. /\ \A j \in DOMAIN seen : j \in DOMAIN seen' /\ seen'[j] = seen[j]
      /\ \A j \in DOMAIN seen' : j \in DOMAIN seen \/ (j = q.id /\ q.op = "get" /\ seen'[j] = s)
  <2>1. CASE q.op # "get"  BY <2>1 DEF Reply
  <2>2. CASE q.op = "get"
    <3>1. seen' = Put(seen, q.id, s)  BY <2>2 DEF Reply
    <3> HIDE DEF s
    <3> QED  BY <1>5, <2>2, <3>1 DEF Put
  <2> QED  BY <2>1, <2>2
<1>9. /\ s.key = q.key /\ s.row = (IF q.key \in DOMAIN db THEN db[q.key] ELSE Absent)
      /\ s.stale = (q.key \in stale) /\ s.failed = (failures' # failures)
  OBVIOUS
<1> HIDE DEF a, s, q
<1>10. TypeOK'
  <2>1. replies' \subseteq Answer  BY <1>0, <1>6, <1>7 DEF TypeOK, Answer
  <2>2. \A j \in DOMAIN seen' : j \in Ids  BY <1>0, <1>3, <1>8 DEF TypeOK
  <2> QED  BY <1>0, <1>2, <1>4, <2>1, <2>2 DEF TypeOK, Request, Answer
<1>11. HandlerWhileOpen'
  <2>1. \A n \in DOMAIN requests' : requests'[n].id \in 1..total_id_  BY <1>0, <1>2 DEF HandlerWhileOpen
  <2>2. \A r, t \in replies' : r.id = t.id => r = t  BY <1>0, <1>5, <1>6, <1>7 DEF HandlerWhileOpen
  <2> QED  BY <1>0, <1>4, <2>1, <2>2 DEF HandlerWhileOpen
<1>12. Emitted'
  <2>1. ASSUME NEW n \in DOMAIN requests', NEW m \in DOMAIN requests',
               requests'[m].id = requests'[n].id
        PROVE  m = n
    <3>1. n \in Nat /\ m \in Nat /\ m + 1 = n + 1  BY <1>0, <1>2, <2>1 DEF Emitted
    <3> QED  BY <3>1
  <2>2. ASSUME NEW n \in DOMAIN requests'
        PROVE  /\ outcome[requests'[n].id].how \in {"open", "timeout"}
               /\ requests'[n].id \notin DOMAIN seen'
               /\ \A r \in replies' : r.id # requests'[n].id
    <3>1. n + 1 \in DOMAIN requests /\ requests'[n] = requests[n + 1]  BY <1>2
    <3>2. requests'[n].id # q.id  BY <1>5
    <3> QED  BY <1>0, <1>6, <1>7, <1>8, <3>1, <3>2 DEF Emitted
  <2>3. q.id <= total_id_  BY <1>0, <1>5 DEF TypeOK
  <2>4. \A r \in replies' : r.id <= total_id_  BY <1>0, <1>6, <1>7, <2>3 DEF Emitted
  <2>5. \A j \in DOMAIN seen' : j <= total_id_  BY <1>0, <1>8, <2>3 DEF Emitted
  <2> QED  BY <1>0, <1>4, <2>1, <2>2, <2>4, <2>5 DEF Emitted
<1>13. ASSUME NEW r \in replies' PROVE Right(r)'
  <2>1. CASE r \in replies
    <3>1. r.id # q.id /\ Right(r)  BY <1>5, <2>1 DEF IInv
    <3> QED  BY <1>4, <1>8, <3>1 DEF Right
  <2>2. CASE r = a
    <3>1. CASE q.op = "get" /\ q.id \in DOMAIN seen'
      <4>1. seen'[r.id] = s /\ r.id = q.id  BY <1>5, <1>7, <1>8, <2>2, <3>1
      <4>2. Served(q, code, value)  BY DEF q
      <4>3. (kind \in {"db", "cache"} /\ ~s.stale) =>
              IF code = 0 THEN value = s.row
                          ELSE s.row = Absent \/ s.failed \/ s.key \in Garbled
        BY <1>9, <3>1, <4>2 DEF Served
      <4> QED  BY <1>4, <1>7, <2>2, <4>1, <4>3 DEF Right
    <3>2. CASE ~(q.op = "get" /\ q.id \in DOMAIN seen')  BY <1>7, <2>2, <3>2 DEF Right
    <3> QED  BY <3>1, <3>2
  <2> QED  BY <1>6, <2>1, <2>2
<1>14. MemoryIsTrue'  BY DEF MemoryIsTrue
<1>15. GetAnswersRow'
  <2> SUFFICES ASSUME NEW j \in DOMAIN seen', kind' \in {"db", "cache"}, ~seen'[j].stale
               PROVE  /\ outcome'[j].how = "done" /\ outcome'[j].op = "get"
                           => outcome'[j].value = seen'[j].row
                      /\ outcome'[j].how = "nonexist" =>
                           seen'[j].row = Absent \/ seen'[j].failed \/ seen'[j].key \in Garbled
    BY DEF GetAnswersRow
  <2>1. CASE j = q.id  BY <1>4, <1>5, <2>1
  <2>2. CASE j \in DOMAIN seen  BY <1>0, <1>4, <1>8, <2>2 DEF GetAnswersRow
  <2> QED  BY <1>8, <2>1, <2>2
<1> QED  BY <1>10, <1>11, <1>12, <1>13, <1>14, <1>15 DEF IInv

(***************************************************************************)
(* Every way a request is handled is such a reply.                         *)
(***************************************************************************)
LEMMA ServeStep == IInv /\ Serve => IInv'
<1> SUFFICES ASSUME IInv, Serve PROVE IInv'
  OBVIOUS
<1> DEFINE q == Head(requests)
           garbled == (IF q.op = "set" THEN q.value ELSE q.key) \in Garbled
<1>0. /\ requests # <<>> /\ failures \in 0..MaxFailures /\ MaxFailures \in Nat
      /\ \A k \in DOMAIN items_ : kind = "cache" /\ items_[k] \in Objects \ Garbled
      /\ \A k \in DOMAIN db : db[k] \in Objects \ Garbled
      /\ \A k \in DOMAIN items_ \ stale : k \in DOMAIN db /\ db[k] = items_[k]
      /\ Blank \in Objects
  BY TableAssumption DEF IInv, Serve, TypeOK, HandlerWhileOpen, MemoryIsTrue, Objects
<1>1. q \in Request
  <2>1. requests \in Seq(Request)  BY DEF IInv, TypeOK, Request
  <2> QED  BY <1>0, <2>1, TailElements
<1>2. q.op \in Ops /\ q.value \in Objects  BY <1>1 DEF Request
<1>3. Fails => failures' \in 0..MaxFailures /\ failures' # failures  BY <1>0 DEF Fails
<1>4. ASSUME NEW code, NEW value, Reply(q, code, value), Served(q, code, value),
             UNCHANGED <<items_, db, stale>>, failures' \in 0..MaxFailures
      PROVE  IInv'
  BY <1>0, <1>4, ReplyStep
<1> HIDE DEF q
<1>5. CASE q.op = "load" \/ kind = "none"
  <2>1. Reply(q, 0, Blank) /\ UNCHANGED <<items_, db, failures, stale>>
    BY <1>5 DEF Serve, q
  <2>2. Served(q, 0, Blank)  BY <1>0, <1>5 DEF Served
  <2> QED  BY <1>0, <1>4, <2>1, <2>2
<1>6. CASE garbled /\ Refuse(q) /\ q.op # "load" /\ kind # "none"
  <2>1. Reply(q, 11, Blank) /\ UNCHANGED <<items_, db, failures, stale>>
    BY <1>6 DEF Refuse
  <2>2. Served(q, 11, Blank)  BY <1>0, <1>6 DEF Served
  <2> QED  BY <1>0, <1>4, <2>1, <2>2
<1>7. ASSUME ~garbled, q.op = "get", processGet(q), kind # "none" PROVE IInv'
  <2>1. ASSUME GetInMemory(q), kind = "mem" \/ (kind = "cache" /\ q.key \in DOMAIN items_)
        PROVE  IInv'
    <3>1. UNCHANGED <<items_, db, failures, stale>>  BY <2>1 DEF GetInMemory
    <3>2. CASE q.key \in DOMAIN items_
      <4>1. Reply(q, 0, items_[q.key])  BY <2>1, <3>2 DEF GetInMemory
      <4>2. Served(q, 0, items_[q.key])  BY <1>0, <3>2 DEF Served
      <4> QED  BY <1>0, <1>4, <3>1, <4>1, <4>2
    <3>3. CASE q.key \notin DOMAIN items_
      <4>1. Reply(q, 1, Blank)  BY <2>1, <3>3 DEF GetInMemory
      <4>2. Served(q, 1, Blank)  BY <1>0, <2>1, <3>3 DEF Served
      <4> QED  BY <1>0, <1>4, <3>1, <4>1, <4>2
    <3> QED  BY <3>2, <3>3
  <2>2. ASSUME NEW keep \in BOOLEAN, Select(q, keep), keep => kind = "cache"
        PROVE  IInv'
    <3>1. CASE Fails /\ Reply(q, 1, Blank) /\ UNCHANGED <<items_, db, stale>>
      <4>1. Served(q, 1, Blank)  BY <1>0, <1>3, <3>1 DEF Served
      <4> QED  BY <1>3, <1>4, <3>1, <4>1
    <3>2. CASE /\ UNCHANGED <<items_, db, failures, stale>> /\ q.key \notin DOMAIN db
               /\ Reply(q, 1, Blank)
      <4>1. Served(q, 1, Blank)  BY <1>0, <3>2 DEF Served
      <4> QED  BY <1>0, <1>4, <3>2, <4>1
    <3>3. CASE /\ UNCHANGED <<db, failures, stale>> /\ q.key \in DOMAIN db
               /\ Reply(q, 0, db[q.key])
               /\ items_' = IF keep THEN Put(items_, q.key, db[q.key]) ELSE items_
      <4>1. Served(q, 0, db[q.key])  BY <1>0, <3>3 DEF Served
      <4>2. CASE ~keep  BY <1>0, <1>4, <3>3, <4>1, <4>2
      <4>3. CASE keep
        <5>1. /\ DOMAIN items_' = DOMAIN items_ \cup {q.key} /\ items_'[q.key] = db[q.key]
              /\ \A k \in DOMAIN items_ : k # q.key => items_'[k] = items_[k]
          BY <3>3, <4>3 DEF Put
        <5>2. \A k \in DOMAIN items_' : kind = "cache" /\ items_'[k] \in Objects \ Garbled
          BY <1>0, <2>2, <3>3, <4>3, <5>1
        <5>3. \A k \in DOMAIN items_' \ stale' : k \in DOMAIN db' /\ db'[k] = items_'[k]
          BY <1>0, <3>3, <5>1
        <5> QED  BY <1>0, <3>3, <4>1, <5>2, <5>3, ReplyStep DEF q
      <4> QED  BY <4>2, <4>3
    <3> QED  BY <2>2, <3>1, <3>2, <3>3 DEF Select
  <2> QED  BY <1>7, <2>1, <2>2 DEF processGet
<1>8. ASSUME NEW o, o.id = q.id, o.op = "set", q.op = "set", o.value \in Objects \ Garbled,
             proceeSet(o), kind # "none"
      PROVE  IInv'
  <2>1. /\ DOMAIN items_' = DOMAIN items_
        /\ \A k \in DOMAIN items_ : items_'[k] = IF k = o.key THEN o.value ELSE items_[k]
    BY <1>8 DEF proceeSet, Exchange, Put
  <2>2. \A k \in DOMAIN items_' : kind = "cache" /\ items_'[k] \in Objects \ Garbled
    BY <1>0, <1>2, <1>8, <2>1
  <2>3. /\ DOMAIN Put(db, o.key, o.value) = DOMAIN db \cup {o.key}
        /\ Put(db, o.key, o.value)[o.key] = o.value
        /\ \A k \in DOMAIN db : k # o.key => Put(db, o.key, o.value)[k] = db[k]
    BY DEF Put
  <2>4. stale' = IF failures' = failures THEN stale \ {o.key}
                 ELSE stale \cup (DOMAIN items_ \cap {o.key})
    BY <1>8 DEF proceeSet
  <2>4a. ASSUME NEW code, Reply(o, code, Blank) PROVE Reply(q, code, Blank)
    BY <1>8, <2>4a DEF Reply
  <2>5. CASE UNCHANGED failures /\ Reply(o, 0, Blank) /\ db' = Put(db, o.key, o.value)
    <3>1. Served(q, 0, Blank)  BY <1>0, <1>8 DEF Served
    <3>2. \A k \in DOMAIN db' : db'[k] \in Objects \ Garbled  BY <1>0, <1>2, <1>8, <2>3, <2>5
    <3>3. \A k \in DOMAIN items_' \ stale' : k \in DOMAIN db' /\ db'[k] = items_'[k]
      BY <1>0, <2>1, <2>3, <2>4, <2>5
    <3> QED  BY <1>0, <2>2, <2>4a, <2>5, <3>1, <3>2, <3>3, ReplyStep DEF q
  <2>6. CASE Fails /\ Reply(o, 1, Blank) /\ db' \in {db, Put(db, o.key, o.value)}
    <3>1. Served(q, 1, Blank)  BY <1>0, <1>8 DEF Served
    <3>2. \A k \in DOMAIN db' : db'[k] \in Objects \ Garbled
      BY <1>0, <1>2, <1>8, <2>3, <2>6
    <3>3. stale' = stale \cup (DOMAIN items_ \cap {o.key})  BY <1>3, <2>4, <2>6
    <3>4. \A k \in DOMAIN items_' \ stale' : k \in DOMAIN db' /\ db'[k] = items_'[k]
      BY <1>0, <2>1, <2>3, <2>6, <3>3
    <3> QED  BY <1>0, <1>3, <2>2, <2>4a, <2>6, <3>1, <3>2, <3>4, ReplyStep DEF q
  <2> QED  BY <1>8, <2>5, <2>6 DEF proceeSet, ReplaceDB
<1>9. ASSUME ~garbled, q.op = "del", proceeDel(q), kind # "none" PROVE IInv'
  <2>1. items_' = items_ /\ stale' = stale \cup (DOMAIN items_ \cap {q.key})
    BY <1>9 DEF proceeDel
  <2>2. \A k \in DOMAIN Remove(db, q.key) :
          k \in DOMAIN db /\ Remove(db, q.key)[k] = db[k]
    BY DEF Remove
  <2>3. \A k \in DOMAIN db : k # q.key => k \in DOMAIN Remove(db, q.key)
    BY DEF Remove
  <2>4. ASSUME NEW code \in {0, 1}, Reply(q, code, Blank), failures' \in 0..MaxFailures,
               db' \in {db, Remove(db, q.key)}
        PROVE  IInv'
    <3>1. Served(q, code, Blank)  BY <1>0, <1>9 DEF Served
    <3>2. \A k \in DOMAIN db' : db'[k] \in Objects \ Garbled  BY <1>0, <2>2, <2>4
    <3>3. \A k \in DOMAIN items_' \ stale' : k \in DOMAIN db' /\ db'[k] = items_'[k]
      BY <1>0, <2>1, <2>2, <2>3, <2>4
    <3> QED  BY <1>0, <2>1, <2>4, <3>1, <3>2, <3>3, ReplyStep DEF q
  <2> QED  BY <1>0, <1>3, <1>9, <2>4 DEF proceeDel, DeleteDB
<1>10. CASE garbled /\ DeserializeThrows(q) /\ q.op # "load" /\ kind # "none"
  <2>1. CASE LoseRequest  BY <2>1, LoseStep
  <2>2. ASSUME NEW h \in HalfRead, q.op = "set",
               proceeSet([q EXCEPT !.key = h.key, !.value = h.value])
        PROVE  IInv'
    <3> DEFINE o == [q EXCEPT !.key = h.key, !.value = h.value]
    <3>1. o.id = q.id /\ o.op = "set" /\ o.value = h.value
      BY <1>1, <2>2 DEF Request
    <3>2. h.value \in Objects \ Garbled  BY TableAssumption DEF Objects
    <3> HIDE DEF o
    <3>3. proceeSet(o)  BY <2>2 DEF o
    <3> QED  BY <1>8, <1>10, <2>2, <3>1, <3>2, <3>3
  <2> QED  BY <1>10, <2>1, <2>2 DEF DeserializeThrows
<1>11. ~garbled /\ q.op = "set" => q.value \in Objects \ Garbled  BY <1>2
<1> QED  BY <1>2, <1>5, <1>6, <1>7, <1>8, <1>9, <1>10, <1>11 DEF Serve, Ops, q

-----------------------------------------------------------------------------
LEMMA InitIInv == Init => IInv
<1> SUFFICES ASSUME Init PROVE IInv
  OBVIOUS
<1>1. /\ DOMAIN handlers_ = {} /\ DOMAIN items_ = {} /\ DOMAIN seen = {} /\ DOMAIN requests = {}
      /\ total_id_ = 0 /\ replies = {} /\ requests = <<>> /\ failures = 0 /\ kind \in Kinds
      /\ \A i \in Ids : outcome[i].how = "none"
  BY DEF Init
<1>2. outcome \in [Ids -> Outcomes]  BY DEF Init, Outcomes
<1>3. \A k \in DOMAIN db : db[k] \in Objects \ Garbled
  BY TableAssumption DEF Init, Objects
<1>4. 1..total_id_ = {}  BY <1>1
<1> QED  BY <1>1, <1>2, <1>3, <1>4, TableAssumption DEF IInv, TypeOK, HandlerWhileOpen,
           Emitted, MemoryIsTrue, GetAnswersRow

LEMMA NextIInv == IInv /\ [Next]_vars => IInv'
<1> SUFFICES ASSUME IInv, [Next]_vars PROVE IInv'
  OBVIOUS
<1>1. CASE UNCHANGED vars
  BY <1>1 DEF vars, server, IInv, TypeOK, HandlerWhileOpen, Emitted, Right, MemoryIsTrue,
       GetAnswersRow
<1> QED  BY <1>1, HandleStep, TimeoutStep, DeliverStep, LoseStep, ServeStep DEF Next

LEMMA Invariance == Spec => []IInv
BY InitIInv, NextIInv, PTL DEF Spec

(***************************************************************************)
(* Every variable of the client and of the server keeps its type: no call  *)
(* beyond those made has a handler, a request or a reply, and every        *)
(* callback gets an object.                                                *)
(***************************************************************************)
THEOREM TypeCorrect == Spec => []TypeOK
<1>1. IInv => TypeOK  BY DEF IInv
<1> QED  BY <1>1, Invariance, PTL

(***************************************************************************)
(* A handler of TableClient is there exactly as long as its call has not   *)
(* ended, so that rpc_done(), rpc_error() and rpc_timeout() never run on a *)
(* removed one, whatever is lost and however late a reply comes.           *)
(***************************************************************************)
THEOREM HandlersLiveAsLongAsCalls == Spec => []HandlerWhileOpen
<1>1. IInv => HandlerWhileOpen  BY DEF IInv
<1> QED  BY <1>1, Invariance, PTL

(***************************************************************************)
(* A get of a TinyDBTable or TinyCacheTable answers with the row as it was *)
(* when it was served, after any sequence of sets, deletes and failures,   *)
(* but for the keys that went stale in memory.                             *)
(***************************************************************************)
THEOREM GetsAnswerRows == Spec => []GetAnswersRow
<1>1. IInv => GetAnswersRow  BY DEF IInv
<1> QED  BY <1>1, Invariance, PTL

=============================================================================
