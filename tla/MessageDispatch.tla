--------------------------- MODULE MessageDispatch ---------------------------
(***************************************************************************)
(* Requests of src/common/message_dispatcher.h: the writer serializes an   *)
(* object, packs it behind a MessageHeader by name or by type code, and    *)
(* the reader's MessageNameDispatcher or MessageDispatcher finds the       *)
(* handler, deserializes the body and packs the reply.  The sizes in the   *)
(* header are bit fields: modelled with SizeBits bits.                     *)
(***************************************************************************)
EXTENDS TinySerializer

CONSTANTS
    Values,         \* by type, a sequence of what a property may hold
    Keys,           \* message names, and type codes
    MaxHandlers,    \* bound: calls of on()
    BodySizes,      \* the bytes a serialized body may take
    SizeBits        \* the width of MessageHeader::size

ASSUME DispatchAssumption ==
    /\ DOMAIN Values = Types
    /\ BodySizes \subseteq Nat \ {0} /\ SizeBits \in Nat \ {0}

VARIABLES
    handlers_,      \* the keys with a handler, and which was bound to each
    bound,          \* the keys on() was called with, in order
    request,        \* the message on its way, or NoRequest
    calls,          \* what handlers were called with
    outcome         \* how the request ended: replied, done, refused or threw

vars == <<serializerVars, handlers_, bound, request, calls, outcome>>

TypeOK ==
    /\ \A p \in Sides : Properties(p) \subseteq Menu
    /\ DOMAIN handlers_ \subseteq Keys
    /\ \A k \in DOMAIN handlers_ : handlers_[k] \in DOMAIN bound
    /\ Len(calls) <= 1
    /\ outcome \in {"none", "replied", "done", "refused", "threw"}

NoRequest == [key |-> "none"]

Init ==
    /\ SerializerInit
    /\ handlers_ = <<>>
    /\ bound = <<>>
    /\ request = NoRequest
    /\ calls = <<>>
    /\ outcome = "none"

------------------------------------------------------------------------------
Declare(p) ==
    /\ request = NoRequest /\ outcome = "none"
    /\ \E x \in Menu : property(p, x)
    /\ UNCHANGED <<handlers_, bound, request, calls, outcome>>

Done(p) ==
    /\ request = NoRequest /\ outcome = "none"
    /\ createProtoDescriptor(p)
    /\ UNCHANGED <<handlers_, bound, request, calls, outcome>>

\* The first handler of a key stays.
bindHandlerPtr(key, handler) ==
    handlers_' = IF key \in DOMAIN handlers_ THEN handlers_
                 ELSE [k \in DOMAIN handlers_ \cup {key} |->
                         IF k = key THEN handler ELSE handlers_[k]]

on(key) ==
    /\ Len(bound) < MaxHandlers /\ request = NoRequest /\ outcome = "none"
    /\ bound' = Append(bound, key)
    /\ bindHandlerPtr(key, Len(bound'))
    /\ UNCHANGED <<serializerVars, request, calls, outcome>>

\* The objects of a side's struct.
Objects(p) ==
    LET names == {x.name : x \in Properties(p)}
        typeOf(name) == (CHOOSE x \in Properties(p) : x.name = name).type
    IN {[name \in names |-> Values[typeOf(name)][pick[name]]] : pick \in [names -> {1, 2}]}

\* packMsgByName(), packMsgByType(): the header of a body of that many bytes.
\* The name stands before the body and counts with it; here it has one byte.
MsgSize(byName, size) == IF byName THEN 1 + size ELSE size

Header(byName, size) == [type_is_name |-> byName,
                         size |-> MsgSize(byName, size) % (2 ^ SizeBits)]

\* serialize() throws without a descriptor; an object none of whose properties
\* is carried has no bytes and is not packed.
send(byName, key) ==
    /\ request = NoRequest /\ outcome = "none"
    /\ \E object \in Objects("writer"), size \in BodySizes :
          LET message == DynSerialize("writer", object)
          IN IF ~descriptor_pool_["writer"].built
             THEN outcome' = "threw" /\ UNCHANGED request
             ELSE IF DOMAIN message = {}
             THEN outcome' = "refused" /\ UNCHANGED request
             ELSE /\ request' = [key |-> key, header |-> Header(byName, size), object |-> object,
                                 message |-> message, msgsize |-> MsgSize(byName, size)]
                  /\ UNCHANGED outcome
    /\ UNCHANGED <<serializerVars, handlers_, bound, calls>>

\* The header says how long the message is.
Whole == request.header.size = request.msgsize

\* What parsing the first bytes of a body gives: all its fields when they are
\* all there, else some of them.
Bodies == IF Whole THEN {request.message}
          ELSE {[n \in DOMAIN request.message \ cut |-> request.message[n]] :
                    cut \in SUBSET DOMAIN request.message}

Throw == outcome' = "threw" /\ UNCHANGED calls

\* MessageHandlerT_N::process(): the handler is called with the object; if it
\* has a reply that has no bytes, an exception says so.
process(body) ==
    IF ~descriptor_pool_["reader"].built THEN Throw
    ELSE /\ calls' = Append(calls, [by |-> handlers_[request.key],
                                   object |-> DynDeserialize("reader", NewObject("reader"), body)])
         /\ outcome' \in {"done", "replied", "threw"}

\* A mistake HandlerSeesRequest finds: the size in the header is believed.
NameDispatchTrusting ==
    IF ~request.header.type_is_name \/ request.key \notin DOMAIN handlers_ THEN Throw
    ELSE \E body \in Bodies : process(body)

\* MessageNameDispatcher::dispatch().
NameDispatch ==
    IF ~Whole \/ ~request.header.type_is_name \/ request.key \notin DOMAIN handlers_
    THEN Throw
    ELSE \E body \in Bodies : process(body)

\* MessageDispatcher::dispatch(), by type code: the size is not checked, and
\* a body cut short may fail to parse.
TypeDispatch ==
    IF request.header.type_is_name \/ request.key \notin DOMAIN handlers_ THEN Throw
    ELSE \/ \E body \in Bodies : process(body)
         \/ ~Whole /\ Throw

dispatch(byName) ==
    /\ request # NoRequest /\ outcome = "none"
    /\ IF byName THEN NameDispatch ELSE TypeDispatch
    /\ UNCHANGED <<serializerVars, handlers_, bound, request>>

Next ==
    \/ \E p \in Sides : Declare(p) \/ Done(p)
    \/ \E key \in Keys : on(key) \/ \E byName \in BOOLEAN : send(byName, key)
    \/ \E byName \in BOOLEAN : dispatch(byName)

Spec == Init /\ [][Next]_vars

------------------------------------------------------------------------------
\* A handler found by name sees the object that was sent, whatever the two
\* programs declared and in whichever order: every property of the reader's
\* message holds the value of the writer's property of the same number and
\* type, and the default where the writer carries none.  By type code this
\* holds for bodies whose size the header can hold.
HandlerSeesRequest ==
    calls # <<>> /\ (request.header.type_is_name \/ Whole) =>
        \A x \in Properties("reader") :
            LET same == {w \in Properties("writer") :
                            w.number = x.number /\ Fields("writer", w) # {}}
                value == calls[1].object[x.name]
            IN Fields("reader", x) # {} /\ x.type # "dummy" =>
                  /\ \A w \in same : w.type = x.type => value = request.object[w.name]
                  /\ same = {} => value = Default(x.type)
==============================================================================
