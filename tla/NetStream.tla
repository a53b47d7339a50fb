------------------------------ MODULE NetStream ------------------------------
(***************************************************************************)
(* Messages on one TCP connection of src/common/net_asio, from send() on   *)
(* one side to the bound handler on the other.  A write transfers as much  *)
(* as the socket takes and continues later; a read gets whatever arrived,  *)
(* so the receiver cuts its buffer into messages by their headers; its     *)
(* message handler parses each one on the io thread and posts it to the    *)
(* connection's strand, where a worker dispatches it.                      *)
(*                                                                         *)
(* A message travels in three pieces: two halves of its header and a body. *)
(***************************************************************************)
EXTENDS Naturals, Sequences, SequencesExt

CONSTANTS
    Receivers,      \* who receives: "Client", "Acceptor"
    MaxSent,        \* bound: messages sent
    MaxWriting      \* bound: writes in progress at one time

StreamConfig ==
    Receivers \subseteq {"Client", "Acceptor"} /\ MaxSent \in Nat /\ MaxWriting \in Nat

\* A message is one of a bound type, of a type without a handler, one whose
\* body does not parse, or one with a header size above 8192.
Kinds == {"bound", "unbound", "malformed", "oversize"}

VARIABLES
    receiver,       \* which handle_message() receives
    sent,           \* the kinds of the messages passed to send()
    writing,        \* the writes in progress: the pieces each has left
    wire,           \* pieces in transit
    readbuf_,       \* the receiver's buffer
    reader,         \* the receiver: reading, spinning or closed
    strand_,        \* messages posted and not dispatched
    handled,        \* what the handlers were called with
    mixed           \* the pieces of two messages were interleaved

vars == <<receiver, sent, writing, wire, readbuf_, reader, strand_, handled, mixed>>

Ids == 1 .. MaxSent

\* What a handler is called with for message n: the message, or NULL.
Null == 0

Pieces(n) == << <<n, "head1">>, <<n, "head2">>, <<n, "body">> >>

Piece == Ids \X {"head1", "head2", "body"}

TypeOK ==
    /\ receiver \in Receivers
    /\ sent \in Seq(Kinds) /\ Len(sent) <= MaxSent
    /\ writing \in Seq(Seq(Piece))
    /\ wire \in Seq(Piece) /\ readbuf_ \in Seq(Piece)
    /\ reader \in {"reading", "spinning", "closed"}
    /\ strand_ \in Seq(Ids \X {"message", "null"})
    /\ handled \in Seq(Ids \cup {Null})
    /\ mixed \in BOOLEAN

Init ==
    /\ receiver \in Receivers
    /\ sent = <<>> /\ writing = <<>> /\ wire = <<>> /\ readbuf_ = <<>>
    /\ reader = "reading"
    /\ strand_ = <<>> /\ handled = <<>>
    /\ mixed = FALSE

------------------------------------------------------------------------------
(* The sender.                                                             *)

\* send(): the header and the body into a buffer of their own, and a write of
\* it begun, whether or not another is in progress.
send(kind) ==
    /\ Len(sent) < MaxSent /\ Len(writing) < MaxWriting
    /\ sent' = Append(sent, kind)
    /\ writing' = Append(writing, Pieces(Len(sent) + 1))
    /\ UNCHANGED <<receiver, wire, readbuf_, reader, strand_, handled, mixed>>

\* The socket takes some pieces of the write whose turn it is; what is left
\* is written when it is its turn again, behind the other writes.
asyncWrite ==
    /\ writing # <<>>
    /\ \E k \in 1 .. Len(Head(writing)) :
          LET rest == SubSeq(Head(writing), k + 1, Len(Head(writing)))
          IN /\ wire' = wire \o SubSeq(Head(writing), 1, k)
             /\ writing' = IF rest = <<>> THEN Tail(writing)
                                          ELSE Append(Tail(writing), rest)
             /\ mixed' = (mixed \/ (rest # <<>> /\ Len(writing) > 1))
    /\ UNCHANGED <<receiver, sent, readbuf_, reader, strand_, handled>>

------------------------------------------------------------------------------
(* The receiver.                                                           *)

\* makeMessage(): a message of a bound type whose body parses, or NULL.
makeMessage(n) == IF sent[n] = "bound" THEN <<n, "message">> ELSE <<n, "null">>

\* handle_message(): the acceptor posts what was made, also NULL, the client
\* only a message.
AcceptorMessage(posted, n) == Append(posted, makeMessage(n))
ClientMessage(posted, n) ==
    IF makeMessage(n)[2] = "message" THEN Append(posted, makeMessage(n)) ELSE posted
handle_message(posted, n) ==
    IF receiver = "Acceptor" THEN AcceptorMessage(posted, n) ELSE ClientMessage(posted, n)

\* readMessages(): the loop over a buffer, as a record of the buffer left,
\* what was posted and how the loop ended.  A header without its body leaves
\* the loop condition true and nothing consumed, for ever.
Outcome(buf, posted, end) == [buf |-> buf, posted |-> posted, end |-> end]

Step(o) ==
    LET n == o.buf[1][1]
    IN IF sent[n] = "oversize" THEN [o EXCEPT !.end = "closed"]
       ELSE IF Len(o.buf) < 3 THEN [o EXCEPT !.end = "spinning"]
       ELSE Outcome(SubSeq(o.buf, 4, Len(o.buf)), handle_message(o.posted, n), o.end)

HasHeader(o) == o.end = "reading" /\ Len(o.buf) >= 2

\* A mistake EveryMessageHandled finds: one message for each read.
readMessagesOnce(buf, posted) ==
    LET o == Outcome(buf, posted, "reading") IN IF HasHeader(o) THEN Step(o) ELSE o

\* A mistake HandledAsSent finds: the message is handled and not consumed
\* when nothing follows it.
readMessagesKeeps(buf, posted) ==
    LET o == Outcome(buf, posted, "reading")
    IN IF HasHeader(o) THEN [Step(o) EXCEPT !.buf = IF @ = <<>> THEN buf ELSE @] ELSE o

readMessages(buf, posted) ==
    LET Rounds[k \in 0 .. Len(buf)] ==
            IF k = 0 THEN Outcome(buf, posted, "reading")
            ELSE IF HasHeader(Rounds[k - 1]) THEN Step(Rounds[k - 1]) ELSE Rounds[k - 1]
    IN Rounds[Len(buf)]

\* handle_read(): some pieces have arrived; the messages are read, and the
\* next read begun unless a header was too large.
handle_read ==
    /\ reader = "reading" /\ ~mixed
    /\ \E k \in 1 .. Len(wire) :
          LET o == readMessages(readbuf_ \o SubSeq(wire, 1, k), strand_)
          IN /\ wire' = SubSeq(wire, k + 1, Len(wire))
             /\ readbuf_' = o.buf
             /\ strand_' = o.posted
             /\ reader' = o.end
    /\ UNCHANGED <<receiver, sent, writing, handled, mixed>>

\* Headers put together from two messages hold any size and any type; the
\* receiver ends up closed or spinning.
handle_read_mixed ==
    /\ reader = "reading" /\ mixed
    /\ reader' \in {"closed", "spinning"}
    /\ UNCHANGED <<receiver, sent, writing, wire, readbuf_, strand_, handled, mixed>>

\* process(): the handler is called with what was made of the message, even
\* with NULL.
process(n, made) == Append(handled, IF made = "null" THEN Null ELSE n)

\* dispatchMsg1() on the strand: the handler bound to the type, if any.
dispatch ==
    /\ strand_ # <<>>
    /\ strand_' = Tail(strand_)
    /\ LET n == Head(strand_)[1]
       IN handled' = IF sent[n] \in {"unbound", "oversize"} THEN handled
                     ELSE process(n, Head(strand_)[2])
    /\ UNCHANGED <<receiver, sent, writing, wire, readbuf_, reader, mixed>>

Next == (\E kind \in Kinds : send(kind)) \/ asyncWrite \/ handle_read \/ handle_read_mixed
        \/ dispatch

\* The threads of the two io_service pools and the workers keep running.
Fairness == WF_vars(asyncWrite) /\ WF_vars(handle_read) /\ WF_vars(dispatch)

Spec == Init /\ [][Next]_vars /\ Fairness

------------------------------------------------------------------------------
Bound == {n \in DOMAIN sent : sent[n] = "bound"}

\* However a message is cut on its way, handlers see the messages of bound
\* types whole, each once and in the order of send(): before a handler is called
\* with one, handlers were called with exactly those sent before it.  This is
\* as long as no write was begun while another was half done.
HandledAsSent ==
    ~mixed =>
        \A i \in DOMAIN handled : handled[i] # Null =>
            /\ handled[i] \in Bound
            /\ {handled[j] : j \in 1 .. i - 1} \ {Null} = {n \in Bound : n < handled[i]}

\* Every message of a bound type that was sent is handled, unless the receiver
\* closed, or spins on half a message, before it had it whole, or two writes were
\* mixed.  One the receiver has posted is handled whatever comes behind it.
EveryMessageHandled ==
    \A n \in Ids :
        (n \in DOMAIN sent /\ sent[n] = "bound")
            ~> \/ Contains(handled, n) \/ mixed
               \/ reader # "reading" /\ \A i \in DOMAIN strand_ : strand_[i][1] # n

------------------------------------------------------------------------------
(***************************************************************************)
(* The inductive strengthening of HandledAsSent.  The pieces of all        *)
(* messages are numbered as they were sent; s has those after the first n. *)
(***************************************************************************)
Place(p) == 3 * p[1] - (IF p[2] = "head1" THEN 2 ELSE IF p[2] = "head2" THEN 1 ELSE 0)

Follow(s, n) == \A i \in DOMAIN s : Place(s[i]) = n + i

\* The writes in progress have what comes after the first n pieces, only the
\* first of them less than a message.
Written(j) == 3 * (Len(sent) - Len(writing) + j)
Unwritten(n) ==
    /\ Len(writing) <= Len(sent)
    /\ \A j \in DOMAIN writing :
          /\ writing[j] # <<>> /\ (j > 1 => Len(writing[j]) = 3)
          /\ Follow(writing[j], Written(j) - Len(writing[j]))
    /\ IF writing = <<>> THEN n = Written(0) ELSE n + Len(writing[1]) = Written(1)

\* What was made of the first n messages is posted, behind what was handled.
Posted(posted, n) ==
    /\ \A i \in DOMAIN posted :
          /\ posted[i][1] \in 1 .. n /\ posted[i] = makeMessage(posted[i][1])
          /\ \A j \in DOMAIN posted : i < j => posted[i][1] < posted[j][1]
          /\ \A j \in DOMAIN handled : handled[j] < posted[i][1]
    /\ \A i \in DOMAIN handled : handled[i] # Null => handled[i] <= n
    /\ \A m \in Bound : m <= n => \/ \E i \in DOMAIN handled : handled[i] = m
                                  \/ \E i \in DOMAIN posted : posted[i][1] = m

\* The receiver has consumed n messages, and still gets the others.
Consumed(n) ==
    /\ Posted(strand_, n)
    /\ reader = "reading" =>
          /\ Follow(readbuf_, 3 * n) /\ Follow(wire, 3 * n + Len(readbuf_))
          /\ Unwritten(3 * n + Len(readbuf_) + Len(wire))

IInv == TypeOK /\ HandledAsSent /\ (~mixed => \E n \in 0 .. Len(sent) : Consumed(n))
==============================================================================
