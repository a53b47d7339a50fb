----------------------------- MODULE MCTinyRPC ------------------------------
(***************************************************************************)
(* TinyRPC with two clients, calls of every kind and a server that knows   *)
(* some of them.                                                           *)
(***************************************************************************)
EXTENDS TinyRPC

Shape(q, r, b) == [request |-> q, reply |-> r, body |-> b]
Service(q, r, b) == [request |-> q, reply |-> r, result |-> b]

\* Get may be registered for either of two reply types; Ping answers with a
\* reply the client cannot parse.
ServerServices == {Service("Get", "GetReply", "good"), Service("Get", "Other", "empty"),
                   Service("Ping", "Pong", "bad")}

CallShapes == {Shape("Get", "GetReply", "good"), Shape("Get", "Other", "good"),
               Shape("Ping", "Pong", "good"), Shape("Ping", "Pong", "bad"),
               Shape("Get", "GetReply", "empty")}
=============================================================================
