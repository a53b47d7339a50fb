------------------------------ MODULE TinyRPC -------------------------------
(***************************************************************************)
(* common/tinyrpc_client.h, common/tinyrpc.cpp, common/tinyrpc_server.h:   *)
(* remote calls between AsyncRPCClient<ZMQClient> and                      *)
(* AsyncRPCServer<ZMQAsyncServer>.                                         *)
(*                                                                         *)
(* A client numbers its calls from a counter all clients of the process    *)
(* share, keeps a holder per call and sends the request at once; poll()    *)
(* hands each reply to the holder with its id, checkTimeout() ends the     *)
(* holders that waited too long.  The server answers each request it can   *)
(* read, unless the deserializer or the handler throws.  The DEALER and ROUTER sockets deliver in order and do not        *)
(* duplicate, but a broken connection loses messages.                      *)
(*                                                                         *)
(* A body is "good", "bad" (the other side fails to parse it) or "empty"   *)
(* (serialize() returns no bytes, which both sides take for a failure).    *)
(***************************************************************************)
EXTENDS Integers, Sequences, FiniteSets

CONSTANTS
    Clients,    \* AsyncRPCClient objects
    Shapes,     \* what callers emit: [request, reply : names, body]
    Services,   \* what the server registers: [request, reply : names, result]
    NoName,     \* the name of an unset string field
    MaxCalls    \* bound: calls ever emitted

Bodies == {"good", "bad", "empty"}

Names == {s.request : s \in Shapes \cup Services}
            \cup {s.reply : s \in Shapes \cup Services} \cup {NoName}

Ids == 1..MaxCalls

ErrorCodes == {"REQUEST_INVALID", "REQUEST_NOT_MATCHED", "REQUEST_PARSE_ERROR",
               "REPLY_PACK_ERROR", "REPLY_NOT_MATCHED", "REPLY_PARSE_ERROR"}

ASSUME RPCAssumption ==
    /\ \A s \in Shapes : s.request # NoName /\ s.reply # NoName /\ s.body \in Bodies
    /\ \A s \in Services : s.request # NoName /\ s.reply # NoName /\ s.result \in Bodies
    /\ MaxCalls \in Nat

VARIABLES
    total_id_,              \* last id given out
    holder,                 \* holder[i]: client and shape of call i
    rpc_holders_,           \* rpc_holders_[c]: ids of calls that are open
    rpc_timeout_holders_,   \* ... those with a timeout
    expired,                \* ids whose timeout has passed
    callbacks_,             \* services registered at the server
    requests,               \* requests[c]: messages from client c to the server
    replies,                \* replies[c]: messages back
    lost,                   \* ids of calls whose request or reply was lost
    thrown,                 \* ids of calls whose handling at the server threw
    served,                 \* served[i]: how often a handler returned for call i
    ended                   \* ended[i]: callbacks call i received, in order

client == <<total_id_, holder, rpc_holders_, rpc_timeout_holders_>>
network == <<requests, replies, lost, thrown>>
vars == <<total_id_, holder, rpc_holders_, rpc_timeout_holders_, expired,
          callbacks_, requests, replies, lost, thrown, served, ended>>

Request == [id : Nat, request : Names, reply : Names, body : Bodies]

Reply == [id : Nat, request : Names, reply : Names, body : Bodies,
          errcode : ErrorCodes \cup {"NOERROR"}]

NoHolder == [client |-> NoName, shape |-> NoName]

-----------------------------------------------------------------------------
Init ==
    /\ total_id_ = 0
    /\ holder = [i \in Ids |-> NoHolder]
    /\ rpc_holders_ = [c \in Clients |-> {}]
    /\ rpc_timeout_holders_ = [c \in Clients |-> {}]
    /\ expired = {} /\ callbacks_ = {} /\ lost = {} /\ thrown = {}
    /\ requests = [c \in Clients |-> <<>>]
    /\ replies = [c \in Clients |-> <<>>]
    /\ served = [i \in Ids |-> 0]
    /\ ended = [i \in Ids |-> <<>>]

(***************************************************************************)
(* pack(): with an empty body no field of the request is set, and its      *)
(* result is not looked at: the blank request is sent all the same.        *)
(***************************************************************************)
pack(i, s) ==
    IF s.body = "empty"
      THEN [id |-> 0, request |-> NoName, reply |-> NoName, body |-> "empty"]
      ELSE [id |-> i, request |-> s.request, reply |-> s.reply, body |-> s.body]

(***************************************************************************)
(* AsyncRPCClient::emit() and the .done().timeout().error() chained to it: *)
(* a call with a timeout other than -1 also joins rpc_timeout_holders_.    *)
(***************************************************************************)
setTimeout(c, i) ==
    rpc_timeout_holders_' = [rpc_timeout_holders_ EXCEPT ![c] = @ \cup {i}]

Emit(c, s, timed) ==
    /\ total_id_ < MaxCalls
    /\ LET i == total_id_ + 1 IN
         /\ total_id_' = i
         /\ holder' = [holder EXCEPT ![i] = [client |-> c, shape |-> s]]
         /\ rpc_holders_' = [rpc_holders_ EXCEPT ![c] = @ \cup {i}]
         /\ IF timed THEN setTimeout(c, i) ELSE UNCHANGED rpc_timeout_holders_
         /\ requests' = [requests EXCEPT ![c] = Append(@, pack(i, s))]
    /\ UNCHANGED <<expired, callbacks_, replies, lost, thrown, served, ended>>

(***************************************************************************)
(* RPCHolder::replied(): which of the callbacks runs.                      *)
(***************************************************************************)
replied(s, r) ==
    IF r.errcode # "NOERROR" THEN r.errcode
    ELSE IF r.request # s.request \/ r.reply # s.reply THEN "REPLY_NOT_MATCHED"
    ELSE IF r.body = "bad" THEN "REPLY_PARSE_ERROR"
    ELSE "done"

(***************************************************************************)
(* Ends the calls S of client c: the callback of each runs, then both maps *)
(* forget its holder.                                                      *)
(***************************************************************************)
\* A mistake TimedCallEnds finds: the call stays in rpc_holders_.
ConcludeTimeout(c, S, how) ==
    /\ ended' = [i \in Ids |-> IF i \in S THEN Append(ended[i], how) ELSE ended[i]]
    /\ rpc_timeout_holders_' = [rpc_timeout_holders_ EXCEPT ![c] = @ \ S]
    /\ UNCHANGED rpc_holders_

\* A mistake OneCallback and NoStrayTimeout find: one of the two maps keeps
\* the holder.
ConcludeOne(c, S, how) ==
    /\ ended' = [i \in Ids |-> IF i \in S THEN Append(ended[i], how) ELSE ended[i]]
    /\ rpc_holders_' = [rpc_holders_ EXCEPT ![c] = @ \ S]
    /\ UNCHANGED rpc_timeout_holders_

Conclude(c, S, how) ==
    /\ ended' = [i \in Ids |-> IF i \in S THEN Append(ended[i], how) ELSE ended[i]]
    /\ rpc_holders_' = [rpc_holders_ EXCEPT ![c] = @ \ S]
    /\ rpc_timeout_holders_' = [rpc_timeout_holders_ EXCEPT ![c] = @ \ S]

(***************************************************************************)
(* ZMQClient::poll() and RPCEmitter::replied(): a reply whose id is not    *)
(* open any more is ignored.                                               *)
(***************************************************************************)
ReceiveReply(c) ==
    /\ replies[c] # <<>>
    /\ replies' = [replies EXCEPT ![c] = Tail(@)]
    /\ LET r == Head(replies[c]) IN
         IF r.id \in rpc_holders_[c]
           THEN Conclude(c, {r.id}, replied(holder[r.id].shape, r))
           ELSE UNCHANGED <<ended, rpc_holders_, rpc_timeout_holders_>>
    /\ UNCHANGED <<total_id_, holder, expired, callbacks_, requests, lost, thrown,
                   served>>

(***************************************************************************)
(* A call's timeout passes, and a checkTimeout() ends all calls that are   *)
(* due.                                                                    *)
(***************************************************************************)
Elapse(i) ==
    /\ i \in UNION {rpc_timeout_holders_[c] : c \in Clients}
    /\ i \notin expired
    /\ expired' = expired \cup {i}
    /\ UNCHANGED <<client, callbacks_, network, served, ended>>

CheckTimeout(c) ==
    /\ rpc_timeout_holders_[c] \cap expired # {}
    /\ Conclude(c, rpc_timeout_holders_[c] \cap expired, "timeout")
    /\ UNCHANGED <<total_id_, holder, expired, callbacks_, network, served>>

-----------------------------------------------------------------------------
(***************************************************************************)
(* RPCDispatcher::on(): the first registration of a request name stays.    *)
(***************************************************************************)
On(s) ==
    /\ s \in Services
    /\ \A t \in callbacks_ : t.request # s.request
    /\ callbacks_' = callbacks_ \cup {s}
    /\ UNCHANGED <<client, expired, network, served, ended>>

(***************************************************************************)
(* RPCDispatcher::requested() and RPCCallback::requested(): the reply      *)
(* echoes id and names of the request.                                     *)
(***************************************************************************)
\* A mistake PackedCallEnds finds: the reply does not carry the id.
makeReplyBlank(q, errcode, body) ==
    [id |-> 0, request |-> q.request, reply |-> q.reply,
     body |-> body, errcode |-> errcode]

makeReply(q, errcode, body) ==
    [id |-> q.id, request |-> q.request, reply |-> q.reply,
     body |-> body, errcode |-> errcode]

Runs(q, s) == s.request = q.request /\ s.reply = q.reply /\ q.body = "good"

\* A mistake CallbackTellsTruth finds: a handler whose reply came out empty is
\* reported as a request that could not be parsed.
callbackRequestedParse(s, q) ==
    IF Runs(q, s) /\ s.result # "empty"
      THEN makeReply(q, "NOERROR", s.result)
      ELSE makeReply(q, "REQUEST_PARSE_ERROR", "empty")

callbackRequested(s, q) ==
    IF Runs(q, s)
      THEN IF s.result = "empty" THEN makeReply(q, "REPLY_PACK_ERROR", "empty")
                                 ELSE makeReply(q, "NOERROR", s.result)
      ELSE IF s.reply = q.reply THEN makeReply(q, "REQUEST_PARSE_ERROR", "empty")
                                ELSE makeReply(q, "REQUEST_NOT_MATCHED", "empty")

requested(q) ==
    IF \E s \in callbacks_ : s.request = q.request
      THEN callbackRequested(CHOOSE s \in callbacks_ : s.request = q.request, q)
      ELSE makeReply(q, "REQUEST_INVALID", "empty")

(***************************************************************************)
(* ZMQAsyncServer::poll() and AsyncRPCServer::doMsgRequest(): one request  *)
(* is read, handled, and its reply sent to the client it came from.        *)
(***************************************************************************)
Serve(c) ==
    /\ requests[c] # <<>>
    /\ requests' = [requests EXCEPT ![c] = Tail(@)]
    /\ LET q == Head(requests[c]) IN
         /\ replies' = [replies EXCEPT ![c] = Append(@, requested(q))]
         /\ served' = IF \E s \in callbacks_ : Runs(q, s)
                        THEN [served EXCEPT ![q.id] = @ + 1] ELSE served
    /\ UNCHANGED <<client, expired, callbacks_, lost, thrown, ended>>

(***************************************************************************)
(* ZMQAsyncServer::on_recv() logs what the deserializer or the handler of  *)
(* a service throws and sends nothing: the request is gone and nobody will *)
(* answer the call.                                                        *)
(***************************************************************************)
ServeThrows(c) ==
    /\ requests[c] # <<>>
    /\ LET q == Head(requests[c]) IN
         /\ \E s \in callbacks_ : s.request = q.request /\ s.reply = q.reply
         /\ thrown' = thrown \cup {q.id}
    /\ requests' = [requests EXCEPT ![c] = Tail(@)]
    /\ UNCHANGED <<client, expired, callbacks_, replies, lost, served, ended>>

LoseRequest(c) ==
    /\ requests[c] # <<>>
    /\ requests' = [requests EXCEPT ![c] = Tail(@)]
    /\ lost' = lost \cup {Head(requests[c]).id}
    /\ UNCHANGED <<client, expired, callbacks_, replies, thrown, served, ended>>

LoseReply(c) ==
    /\ replies[c] # <<>>
    /\ replies' = [replies EXCEPT ![c] = Tail(@)]
    /\ lost' = lost \cup {Head(replies[c]).id}
    /\ UNCHANGED <<client, expired, callbacks_, requests, thrown, served, ended>>

Next ==
    \/ \E c \in Clients :
          \/ \E s \in Shapes, timed \in BOOLEAN : Emit(c, s, timed)
          \/ ReceiveReply(c) \/ CheckTimeout(c)
          \/ Serve(c) \/ ServeThrows(c) \/ LoseRequest(c) \/ LoseReply(c)
    \/ \E i \in Ids : Elapse(i)
    \/ \E s \in Services : On(s)

Spec == Init /\ [][Next]_vars

(***************************************************************************)
(* Client and server poll in a loop, the client checks timeouts in it, and *)
(* time passes for every call that has a timeout.                          *)
(***************************************************************************)
FairSpec ==
    /\ Spec
    /\ \A c \in Clients :
          /\ WF_vars(ReceiveReply(c)) /\ WF_vars(CheckTimeout(c))
          /\ WF_vars(Serve(c) \/ ServeThrows(c))
    /\ WF_vars(\E i \in Ids : Elapse(i))

-----------------------------------------------------------------------------
(***************************************************************************)
(* Type invariant.                                                         *)
(***************************************************************************)
TypeOK ==
    /\ total_id_ \in 0..MaxCalls
    /\ holder \in [Ids -> [client : Clients, shape : Shapes] \cup {NoHolder}]
    /\ rpc_holders_ \in [Clients -> SUBSET Ids]
    /\ rpc_timeout_holders_ \in [Clients -> SUBSET Ids]
    /\ expired \subseteq Ids /\ lost \subseteq Nat /\ thrown \subseteq Nat /\ callbacks_ \subseteq Services
    /\ requests \in [Clients -> Seq(Request)]
    /\ replies \in [Clients -> Seq(Reply)]
    /\ served \in [Ids -> Nat]
    /\ ended \in [Ids -> Seq(ErrorCodes \cup {"done", "timeout"})]

(***************************************************************************)
(* Whatever races with whatever, a late reply with the timeout included, a *)
(* call gets one callback: it is open with none, or closed with one.       *)
(***************************************************************************)
OneCallback ==
    \A i \in 1..total_id_ :
        /\ Len(ended[i]) <= 1
        /\ Len(ended[i]) = 0 <=> i \in rpc_holders_[holder[i].client]

(***************************************************************************)
(* The map of timeouts keeps no holder that the call no longer needs.      *)
(***************************************************************************)
NoStrayTimeout ==
    \A c \in Clients : rpc_timeout_holders_[c] \subseteq rpc_holders_[c]

(***************************************************************************)
(* The callback tells the truth.  done() means that a handler registered   *)
(* for exactly the caller's request and reply types ran for this very      *)
(* call, once, and returned; an error the server reports means that no     *)
(* handler returned for it, unless its reply came out empty.               *)
(***************************************************************************)
CallbackTellsTruth ==
    \A i \in 1..total_id_ :
        /\ served[i] <= 1
        /\ ended[i] = <<"done">> =>
             /\ served[i] = 1
             /\ \E s \in callbacks_ : /\ s.request = holder[i].shape.request
                                      /\ s.reply = holder[i].shape.reply
                                      /\ s.result = "good"
        /\ ended[i] \in {<<"REQUEST_INVALID">>, <<"REQUEST_NOT_MATCHED">>,
                         <<"REQUEST_PARSE_ERROR">>} => served[i] = 0

(***************************************************************************)
(* A call with a timeout ends, whatever is lost.                           *)
(***************************************************************************)
TimedCallEnds ==
    \A i \in Ids :
        (\E c \in Clients : i \in rpc_timeout_holders_[c])
            ~> \A c \in Clients : i \notin rpc_holders_[c]

(***************************************************************************)
(* Every call that has a body ends, timeout or not, unless its request or  *)
(* its reply is lost or its handling at the server throws: the server is   *)
(* silent about that, and only a timeout ends such a call.                 *)
(***************************************************************************)
PackedCallEnds ==
    \A i \in Ids :
        (i <= total_id_ /\ holder[i].shape.body # "empty")
            ~> (ended[i] # <<>> \/ i \in lost \cup thrown)
-----------------------------------------------------------------------------
(***************************************************************************)
(* The inductive strengthening of OneCallback and NoStrayTimeout: a map    *)
(* holds only calls of its own client that were given an id and have not   *)
(* had a callback; an id that was given out has a client, one that was not *)
(* has had no callback.                                                    *)
(***************************************************************************)
OpenCalls ==
    \A c \in Clients : \A i \in rpc_holders_[c] :
        i <= total_id_ /\ holder[i].client = c /\ ended[i] = <<>>

GivenIds ==
    \A i \in Ids :
        IF i <= total_id_ THEN holder[i].client \in Clients ELSE ended[i] = <<>>

Calls == OneCallback /\ NoStrayTimeout /\ OpenCalls /\ GivenIds

(***************************************************************************)
(* The strengthening of CallbackTellsTruth follows a call over the wire.   *)
(* Its request, if pack() made one, is there at most once and nothing has  *)
(* served it; once the server has answered, the request is gone and what   *)
(* the answer will tell the caller is true, on the wire and ever after.    *)
(***************************************************************************)
Asked(i) ==
    \E j \in DOMAIN requests[holder[i].client] :
        requests[holder[i].client][j].id = i

Verdict(i, how) ==
    /\ ~Asked(i)
    /\ how = "done" =>
         /\ served[i] = 1
         /\ \E s \in callbacks_ : /\ s.request = holder[i].shape.request
                                  /\ s.reply = holder[i].shape.reply
                                  /\ s.result = "good"
    /\ how \in {"REQUEST_INVALID", "REQUEST_NOT_MATCHED", "REQUEST_PARSE_ERROR"}
         => served[i] = 0

RequestsUnserved ==
    \A c \in Clients : \A j \in DOMAIN requests[c] :
        LET q == requests[c][j] IN
          \/ q.id = 0 /\ q.body = "empty"
          \/ /\ q.id \in 1..total_id_ /\ holder[q.id].client = c
             /\ q = pack(q.id, holder[q.id].shape)
             /\ served[q.id] = 0
             /\ \A k \in DOMAIN requests[c] : requests[c][k].id = q.id => k = j

RepliesTrue ==
    \A c \in Clients : \A j \in DOMAIN replies[c] :
        LET r == replies[c][j] IN
          \/ r.id = 0
          \/ /\ r.id \in 1..total_id_ /\ holder[r.id].client = c
             /\ Verdict(r.id, replied(holder[r.id].shape, r))

CallbacksTrue ==
    \A i \in 1..total_id_ : ended[i] # <<>> =>
        Head(ended[i]) = "timeout" \/ Verdict(i, Head(ended[i]))

ServedOnce ==
    \A i \in Ids : served[i] <= 1 /\ (i > total_id_ => served[i] = 0)

OneServicePerName ==
    \A s, t \in callbacks_ : s.request = t.request => s = t

Wire == RequestsUnserved /\ RepliesTrue /\ CallbacksTrue /\ ServedOnce /\ OneServicePerName

IInv == TypeOK /\ Calls /\ Wire
=============================================================================
