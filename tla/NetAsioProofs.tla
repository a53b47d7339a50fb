--------------------------- MODULE NetAsioProofs ----------------------------
(***************************************************************************)
(* Proofs about NetAsio, for any number of sessions, resolutions, sends    *)
(* and faults, with a retry interval and without; and, in the second half, *)
(* about NetStream, for any number of messages, however they are cut.      *)
(***************************************************************************)
EXTENDS MCNetStream, FiniteSetTheorems, WellFoundedInduction, TLAPS

-----------------------------------------------------------------------------
(***************************************************************************)
(* The queue of completed handlers.                                        *)
(***************************************************************************)
LEMMA QueuedType == ASSUME ready \in Seq(Completion), NEW ops PROVE Queued(ops) \in Nat
<1> DEFINE S == {i \in DOMAIN ready : ready[i].op \in ops}
<1>1. DOMAIN ready = 1 .. Len(ready) /\ Len(ready) \in Nat  OBVIOUS
<1>2. IsFiniteSet(1 .. Len(ready))  BY <1>1, FS_Interval
<1>3. IsFiniteSet(S)  BY <1>1, <1>2, FS_Subset
<1> QED  BY <1>3, FS_CardinalityType DEF Queued

LEMMA TimesType ==
  ASSUME NEW n \in Nat, NEW op \in {"resolve", "connect", "read", "write"}
  PROVE  Times(n, op) \in Seq(Completion)
BY DEF Times, Completion

LEMMA AbortedType == TypeOK => Aborted \in Seq(Completion)
<1> SUFFICES ASSUME TypeOK PROVE Aborted \in Seq(Completion)
  OBVIOUS
<1>1. reads \in Nat /\ writes \in Nat  BY DEF TypeOK
<1>2. /\ Times(1, "connect") \in Seq(Completion) /\ Times(reads, "read") \in Seq(Completion)
      /\ Times(writes, "write") \in Seq(Completion)
  BY <1>1, TimesType
<1>3. <<>> \in Seq(Completion)  OBVIOUS
<1> HIDE DEF Times
<1> QED  BY <1>2, <1>3 DEF Aborted

(***************************************************************************)
(* What a handler that runs takes from the queue, and what a completed     *)
(* operation puts there.                                                   *)
(***************************************************************************)
LEMMA TakeReady ==
  ASSUME TypeOK, NEW op, Handle(op)
  PROVE  /\ Head(ready) \in Completion /\ Tail(ready) \in Seq(Completion)
         /\ \A i \in DOMAIN ready : ready[i].op # op =>
              \E j \in DOMAIN Tail(ready) : Tail(ready)[j] = ready[i]
<1>1. ready \in Seq(Completion) /\ ready # <<>> /\ Head(ready).op = op
  BY DEF TypeOK, Handle
<1>2. Head(ready) \in Completion /\ Tail(ready) \in Seq(Completion)  BY <1>1
<1>3. ASSUME NEW i \in DOMAIN ready, ready[i].op # op
      PROVE  \E j \in DOMAIN Tail(ready) : Tail(ready)[j] = ready[i]
  <2>1. i \in Nat /\ i # 1 /\ i > 0  BY <1>1, <1>3
  <2>2. i - 1 \in DOMAIN Tail(ready) /\ Tail(ready)[i - 1] = ready[i]  BY <1>1, <2>1
  <2> QED  BY <2>2
<1> QED  BY <1>2, <1>3

LEMMA PutReady ==
  ASSUME TypeOK, NEW op \in {"resolve", "connect", "read", "write"}, NEW ok \in BOOLEAN
  PROVE  /\ Complete(op, ok) \in Seq(Completion)
         /\ \A i \in DOMAIN ready : i \in DOMAIN Complete(op, ok) /\ Complete(op, ok)[i] = ready[i]
         /\ \E i \in DOMAIN Complete(op, ok) : Complete(op, ok)[i].op = op
<1> DEFINE e == [op |-> op, ok |-> ok]
<1>1. ready \in Seq(Completion) /\ e \in Completion /\ e.op = op  BY DEF TypeOK, Completion
<1> HIDE DEF e
<1>2. /\ Append(ready, e) \in Seq(Completion)
      /\ \A i \in DOMAIN ready : i \in DOMAIN Append(ready, e) /\ Append(ready, e)[i] = ready[i]
      /\ Len(ready) + 1 \in DOMAIN Append(ready, e) /\ Append(ready, e)[Len(ready) + 1] = e
  BY <1>1
<1>3. Complete(op, ok) = Append(ready, e)  BY DEF Complete, e
<1> QED  BY <1>1, <1>2, <1>3

-----------------------------------------------------------------------------
(***************************************************************************)
(* The types, of the client's part and of the acceptor's.                  *)
(***************************************************************************)
ClientType ==
    /\ user \in {"connect", "start", "done"}
    /\ outrun \in BOOLEAN /\ spinning \in BOOLEAN
    /\ state_ \in States /\ managed \in BOOLEAN
    /\ resolves \in 0 .. MaxResolves
    /\ socket_ \in Socket
    /\ reads \in Nat /\ writes \in Nat
    /\ ready \in Seq(Completion) /\ timer \in BOOLEAN

ServerType ==
    /\ acceptor_ \in {"open", "closed"}
    /\ accept_ \in {"waiting", "arrived", "failed", "started"}
    /\ arrived \in Sessions \cup {NoSession}
    /\ accept_ \in {"arrived", "started"} <=> arrived # NoSession
    /\ stuck \subseteq Sessions \cup {NoSession}
    /\ session \in [Sessions -> [state : SessionStates, open : BOOLEAN,
                                 reading : BOOLEAN, writes : Nat]]
    /\ connections_ \subseteq Sessions

SessionStep(s) ==
    \/ SessionReadError(s) \/ SessionSpins(s) \/ SessionSend(s)
    \/ SessionWriteDone(s) \/ SessionFreed(s)

LEMMA EndOrBegin ==
  /\ Ends => state_' = "Closed" /\ outrun' \in BOOLEAN
  /\ \A state : Begins(state) => state_' = state /\ outrun' \in BOOLEAN
<1>1. Ends => state_' = "Closed" /\ outrun' \in BOOLEAN
  <2>1. SUFFICES ASSUME Ends PROVE state_' = "Closed" /\ outrun' \in BOOLEAN
    OBVIOUS
  <2>2. state_' = "Closed" /\ outrun' = (outrun \/ user = "start")
    BY <2>1, Zenon DEF Ends, set_state
  <2>3. (outrun \/ user = "start") \in BOOLEAN  OBVIOUS
  <2>4. outrun' \in BOOLEAN  BY <2>2, <2>3, Zenon
  <2> QED  BY <2>2, <2>4
<1>2. ASSUME NEW state, Begins(state) PROVE state_' = state /\ outrun' \in BOOLEAN
  <2>1. outrun' = FALSE  BY <1>2 DEF Begins
  <2>2. outrun' \in BOOLEAN  BY <2>1, Zenon
  <2> QED  BY <1>2, <2>2 DEF Begins, set_state
<1> QED  BY <1>1, <1>2

LEMMA ClientTypes == TypeOK /\ [Next]_vars => ClientType'
<1> SUFFICES ASSUME TypeOK, [Next]_vars PROVE ClientType'
  OBVIOUS
<1> USE NetAsioAssumption
<1>0. /\ reads \in Nat /\ writes \in Nat /\ resolves \in Nat
      /\ MaxResolves \in Nat /\ ready \in Seq(Completion) /\ ClientType
      /\ \A ops : Queued(ops) \in Nat
  BY QueuedType DEF TypeOK, ClientType
<1>1. \A op \in {"resolve", "connect", "read", "write"}, ok \in BOOLEAN :
        Complete(op, ok) \in Seq(Completion)
  BY PutReady
<1>2. \A op : Handle(op) => Head(ready) \in Completion /\ Tail(ready) \in Seq(Completion)
  BY TakeReady
<1>3. /\ Aborted \in Seq(Completion)
      /\ Tail(ready) \o Aborted \in Seq(Completion) \/ ready = <<>>
  BY <1>0, AbortedType
<1> HIDE DEF Completion
<1>4. CASE handle_resolve
  <2>1. [at |-> "connecting", peer |-> NoSession] \in Socket  BY DEF Socket
  <2>2. ready' \in Seq(Completion)  BY <1>2, <1>3, <1>4 DEF handle_resolve, Handle
  <2>3. state_' \in States /\ outrun' \in BOOLEAN
    BY <1>4, EndOrBegin DEF handle_resolve, States
  <2> QED  BY <1>0, <1>4, <2>1, <2>2, <2>3 DEF handle_resolve, ClientType
<1>5. CASE handle_connect \/ handle_read \/ handle_write
  <2>1. CASE handle_connect
    <3>1. state_' \in States /\ outrun' \in BOOLEAN
      BY <2>1, EndOrBegin DEF handle_connect, States
    <3> QED  BY <1>0, <1>2, <2>1, <3>1 DEF handle_connect, ClientType
  <2>2. CASE handle_read
    <3>1. state_' \in States /\ outrun' \in BOOLEAN
      BY <1>0, <2>2, EndOrBegin DEF handle_read, States, ClientType
    <3>2. spinning' \in BOOLEAN
      <4>1. spinning' = spinning \/ spinning' = TRUE  BY <2>2 DEF handle_read
      <4>2. TRUE \in BOOLEAN /\ spinning \in BOOLEAN  BY <1>0 DEF ClientType
      <4> QED  BY <4>1, <4>2, Zenon
    <3>3. reads' \in Nat
      <4>1. reads' = reads \/ reads' = reads + 1  BY <2>2 DEF handle_read
      <4> QED  BY <1>0, <4>1
    <3>4. /\ ready' = Tail(ready) /\ Handle("read")
          /\ UNCHANGED <<user, managed, resolves, socket_, writes, timer>>
      BY <2>2 DEF handle_read
    <3> QED  BY <1>0, <1>2, <3>1, <3>2, <3>3, <3>4 DEF ClientType
  <2>3. CASE handle_write
    BY <1>0, <1>2, <2>3 DEF handle_write, ClientType, set_state, States, startVars
  <2> QED  BY <1>5, <2>1, <2>2, <2>3
<1>6. CASE connect \/ connect_returns \/ handle_retry \/ stop
  <2>1. Queued({"resolve"}) \in Nat  BY <1>0
  <2>2. start => resolves' \in 0 .. MaxResolves /\ state_' = "Resolving" /\ outrun' = FALSE
    BY <1>0, <2>1 DEF start, set_state, Begins
  <2>3. CASE handle_retry  BY <1>0, <2>2, <2>3 DEF handle_retry, ClientType, States
  <2>4. CASE stop  BY <1>0, <2>4 DEF stop, ClientType, set_state, States, startVars
  <2>5. CASE connect
    <3>1. outrun' = FALSE /\ managed' = TRUE  BY <2>5 DEF connect
    <3>2. outrun' \in BOOLEAN /\ managed' \in BOOLEAN  BY <3>1, Zenon
    <3>3. resolves' \in 0 .. MaxResolves  BY <1>0, <2>1, <2>5 DEF connect
    <3> QED  BY <1>0, <2>5, <3>2, <3>3 DEF connect, ClientType
  <2>6. CASE connect_returns
    BY <1>0, <2>6 DEF connect_returns, ClientType, set_state, States
  <2> QED  BY <1>6, <2>3, <2>4, <2>5, <2>6
<1>7. CASE send
  BY <1>0, <1>7 DEF send, ClientType, startVars
<1>8. CASE ResolveDone
  BY <1>0, <1>1, <1>8 DEF ResolveDone, ClientType, startVars
<1>9. CASE ConnectDone
  <2>1. /\ [at |-> "none", peer |-> NoSession] \in Socket
        /\ \A s \in Sessions : [at |-> "up", peer |-> s] \in Socket
    BY DEF Socket
  <2>2. (\E s \in Sessions : session[s].state = "free") => Fresh \in Sessions
    BY DEF Fresh
  <2> QED  BY <1>0, <1>1, <1>9, <2>1, <2>2 DEF ConnectDone, ClientType, startVars
<1>10. CASE ReadDone \/ WriteDone
  <2>1. Up \in BOOLEAN  BY DEF Up
  <2>2. Complete("read", Up) \in Seq(Completion) /\ Complete("write", Up) \in Seq(Completion)
    BY <1>1, <2>1, Zenon
  <2>3. ready' \in Seq(Completion)  BY <1>10, <2>2, Zenon DEF ReadDone, WriteDone
  <2>4. /\ reads' \in Nat /\ writes' \in Nat
        /\ UNCHANGED <<user, outrun, spinning, state_, managed, resolves, socket_, timer>>
    BY <1>0, <1>10 DEF ReadDone, WriteDone, ClientType, startVars
  <2> QED  BY <1>0, <2>3, <2>4 DEF ClientType
<1>11. ASSUME UNCHANGED clientVars PROVE ClientType'
  BY <1>0, <1>11 DEF clientVars, startVars, ClientType
<1>12. CASE LinkBreaks \/ AcceptDone \/ AcceptFails \/ handle_accept \/ handle_accept_returns
            \/ close \/ UNCHANGED vars
  BY <1>11, <1>12 DEF LinkBreaks, AcceptDone, AcceptFails, handle_accept,
       handle_accept_returns, close, vars
<1>13. ASSUME NEW s \in Sessions, SessionStep(s) PROVE ClientType'
  BY <1>11, <1>13 DEF SessionStep, SessionReadError, SessionSpins, SessionSend,
       SessionWriteDone, SessionFreed
<1>14. CASE Destroy
  <2>1. [at |-> "none", peer |-> NoSession] \in Socket /\ <<>> \in Seq(Completion)
    BY DEF Socket
  <2>2. timer' = FALSE  BY <1>14 DEF Destroy
  <2>3. timer' \in BOOLEAN  BY <2>2, Zenon
  <2>4. resolves' = 0 /\ 0 \in 0 .. MaxResolves  BY <1>0, <1>14 DEF Destroy
  <2> QED  BY <1>0, <1>14, <2>1, <2>3, <2>4 DEF Destroy, ClientType, startVars
<1> QED  BY <1>4, <1>5, <1>6, <1>7, <1>8, <1>9, <1>10, <1>12, <1>13, <1>14
      DEF Next, SessionStep

(***************************************************************************)
(* The acceptor's part goes with LetGoMeansClosed: handle_error() stops a  *)
(* session through the manager, which closes the socket only of a session  *)
(* it still holds.                                                         *)
(***************************************************************************)
SessionType == [state : SessionStates, open : BOOLEAN, reading : BOOLEAN, writes : Nat]

AcceptType ==
    /\ acceptor_ \in {"open", "closed"}
    /\ accept_ \in {"waiting", "arrived", "failed", "started"}
    /\ arrived \in Sessions \cup {NoSession}
    /\ accept_ \in {"arrived", "started"} <=> arrived # NoSession
    /\ stuck \subseteq Sessions \cup {NoSession}

ServerInv == ServerType /\ LetGoMeansClosed

LEMMA ErrorHandled ==
  ASSUME ServerInv, NEW s \in Sessions, NEW sess \in [Sessions -> SessionType],
         sess[s].open = session[s].open,
         \A t \in Sessions : t # s => sess[t] = session[t],
         handle_error(s, sess), UNCHANGED acceptVars
  PROVE  ServerInv'
<1>0. session \in [Sessions -> SessionType] /\ connections_ \subseteq Sessions
  BY DEF ServerInv, ServerType, SessionType
<1>1. CASE sess[s].state = "Closed"
  <2>1. session' = sess /\ connections_' = connections_  BY <1>1 DEF handle_error
  <2> QED  BY <2>1 DEF ServerInv, ServerType, SessionType, LetGoMeansClosed, acceptVars
<1>2. CASE sess[s].state # "Closed"
  <2>1. /\ session' = Stopped(s, [sess EXCEPT ![s].state = "Closed"])
        /\ connections_' = connections_ \ {s}
    BY <1>2 DEF handle_error
  <2>2. sess[s] \in SessionType  OBVIOUS
  <2> DEFINE e == [sess[s] EXCEPT !.state = "Closed"]
             f == [e EXCEPT !.open = FALSE]
  <2>3. e \in SessionType /\ e.open = sess[s].open  BY <2>2 DEF SessionType, SessionStates
  <2>4. f \in SessionType /\ f.open = FALSE  BY <2>3 DEF SessionType
  <2>5. /\ session' \in [Sessions -> SessionType]
        /\ session'[s] = IF s \in connections_ THEN f ELSE e
        /\ \A t \in Sessions : t # s => session'[t] = session[t]
    BY <2>1, <2>3, <2>4 DEF Stopped
  <2> HIDE DEF e, f
  <2>6. ~session'[s].open
    <3>1. CASE s \in connections_  BY <2>4, <2>5, <3>1
    <3>2. CASE s \notin connections_  BY <2>3, <2>5, <3>2 DEF ServerInv, LetGoMeansClosed
    <3> QED  BY <3>1, <3>2
  <2>7. \A t \in Sessions \ connections_' : ~session'[t].open
    BY <2>1, <2>5, <2>6 DEF ServerInv, LetGoMeansClosed
  <2> QED  BY <1>0, <2>1, <2>5, <2>7 DEF ServerInv, ServerType, SessionType, LetGoMeansClosed,
         acceptVars
<1> QED  BY <1>1, <1>2

LEMMA NewSessionAs ==
  ASSUME NEW st \in SessionStates
  PROVE  [NewSession EXCEPT !.state = st] \in SessionType /\ ~[NewSession EXCEPT !.state = st].open
<1>1. NewSession \in SessionType /\ ~NewSession.open
  BY DEF NewSession, SessionType, SessionStates
<1> QED  BY <1>1 DEF SessionType

LEMMA ServerStep == TypeOK /\ LetGoMeansClosed /\ [Next]_vars => ServerInv'
<1> SUFFICES ASSUME TypeOK, LetGoMeansClosed, [Next]_vars PROVE ServerInv'
  OBVIOUS
<1>0. /\ ServerInv /\ session \in [Sessions -> SessionType] /\ connections_ \subseteq Sessions
      /\ arrived \in Sessions \cup {NoSession} /\ NoSession \notin Sessions
  BY NetAsioAssumption DEF ServerInv, ServerType, TypeOK, SessionType
<1>1. NewSession \in SessionType /\ ~NewSession.open
  BY <1>0 DEF NewSession, SessionType, SessionStates
<1>2. ASSUME UNCHANGED serverVars PROVE ServerInv'
  BY <1>0, <1>2 DEF serverVars, acceptVars, ServerInv, ServerType, LetGoMeansClosed
<1>3. ASSUME NEW e \in SessionType, NEW s \in Sessions, session' = [session EXCEPT ![s] = e],
             e.open => s \in connections_', connections_ \subseteq connections_',
             connections_' \subseteq Sessions, AcceptType'
      PROVE  ServerInv'
  <2>1. /\ session' \in [Sessions -> SessionType] /\ session'[s] = e
        /\ \A t \in Sessions : t # s => session'[t] = session[t]
    BY <1>0, <1>3
  <2>2. \A t \in Sessions \ connections_' : ~session'[t].open
    BY <1>0, <1>3, <2>1 DEF ServerInv, LetGoMeansClosed
  <2> QED  BY <1>0, <1>3, <2>1, <2>2
         DEF AcceptType, ServerInv, ServerType, SessionType, LetGoMeansClosed
<1>4. CASE connect \/ connect_returns \/ handle_resolve \/ handle_connect \/ handle_read
           \/ handle_write \/ handle_retry \/ send \/ stop \/ ResolveDone \/ ReadDone
           \/ WriteDone \/ LinkBreaks \/ Destroy \/ UNCHANGED vars
  BY <1>2, <1>4 DEF connect, connect_returns, handle_resolve, handle_connect, handle_read,
       handle_write, handle_retry, send, stop, ResolveDone, ReadDone, WriteDone, LinkBreaks,
       Destroy, vars
<1>4a. AcceptType  BY <1>0 DEF AcceptType, ServerInv, ServerType
<1>5. CASE ConnectDone
  <2>1. CASE UNCHANGED serverVars  BY <1>2, <2>1
  <2>2. ASSUME \E s \in Sessions : session[s].state = "free",
               session' = [session EXCEPT ![Fresh] = [NewSession EXCEPT !.state = "backlog"]]
        PROVE  ServerInv'
    <3> DEFINE e == [NewSession EXCEPT !.state = "backlog"]
    <3>1. e \in SessionType /\ ~e.open
      BY NewSessionAs DEF SessionStates
    <3>2. UNCHANGED <<acceptVars, connections_>>  BY <1>5 DEF ConnectDone
    <3>3. AcceptType' /\ connections_' = connections_
      BY <1>4a, <3>2 DEF AcceptType, acceptVars
    <3>4. Fresh \in Sessions  BY <2>2 DEF Fresh
    <3> HIDE DEF e
    <3>5. session' = [session EXCEPT ![Fresh] = e]  BY <2>2 DEF e
    <3> QED  BY <1>0, <1>3, <3>1, <3>3, <3>4, <3>5
  <2> QED  BY <1>5, <2>1, <2>2 DEF ConnectDone, serverVars
<1>6. CASE AcceptDone \/ AcceptFails
  BY <1>0, <1>6 DEF AcceptDone, AcceptFails, ServerInv, ServerType, LetGoMeansClosed
<1>7. CASE handle_accept
  <2>1. CASE accept_ = "failed"
    BY <1>0, <1>7, <2>1 DEF handle_accept, ServerInv, ServerType, LetGoMeansClosed
  <2>2. CASE accept_ = "arrived"
    <3> DEFINE e == [state |-> "Connecting", open |-> TRUE, reading |-> TRUE, writes |-> 0]
    <3>1. e \in SessionType  BY DEF SessionType, SessionStates
    <3>2. /\ arrived \in Sessions /\ connections_' = connections_ \cup {arrived}
          /\ session' = [session EXCEPT ![arrived] = e] /\ accept_' = "started"
          /\ UNCHANGED <<acceptor_, arrived>> /\ stuck' \subseteq Sessions \cup {NoSession}
      BY <1>0, <1>4a, <1>7, <2>2 DEF handle_accept, AcceptType
    <3>3. AcceptType'  BY <1>0, <1>4a, <3>2 DEF AcceptType
    <3> HIDE DEF e
    <3> QED  BY <1>0, <1>3, <3>1, <3>2, <3>3
  <2> QED  BY <1>7, <2>1, <2>2 DEF handle_accept
<1>7a. CASE handle_accept_returns
  <2> DEFINE e == [session[arrived] EXCEPT !.state = "Connected"]
  <2>1. /\ arrived \in Sessions /\ session' = [session EXCEPT ![arrived] = e]
        /\ accept_' = "waiting" /\ arrived' = NoSession
        /\ UNCHANGED <<acceptor_, stuck, connections_>>
    BY <1>0, <1>4a, <1>7a DEF handle_accept_returns, AcceptType
  <2>2. e \in SessionType /\ e.open = session[arrived].open
    BY <1>0, <2>1 DEF SessionType, SessionStates
  <2>3. e.open => arrived \in connections_  BY <2>1, <2>2 DEF LetGoMeansClosed
  <2>4. AcceptType'  BY <1>4a, <2>1 DEF AcceptType
  <2> HIDE DEF e
  <2> QED  BY <1>0, <1>3, <2>1, <2>2, <2>3, <2>4
<1>8. CASE close
  <2> DEFINE waiting == {s \in Sessions : session[s].state = "backlog"} \ {arrived}
  <2>1. /\ session' = [s \in Sessions |->
                          IF s \in connections_ THEN [session[s] EXCEPT !.open = FALSE]
                          ELSE IF s \in waiting THEN [NewSession EXCEPT !.state = "Closed"]
                          ELSE session[s]]
        /\ connections_' = {} /\ acceptor_' = "closed" /\ UNCHANGED <<accept_, arrived, stuck>>
    BY <1>8 DEF close
  <2> HIDE DEF waiting
  <2>2. ASSUME NEW s \in Sessions PROVE session'[s] \in SessionType /\ ~session'[s].open
    <3>1. session[s] \in SessionType  BY <1>0
    <3>2. CASE s \in connections_  BY <2>1, <3>1, <3>2 DEF SessionType
    <3>3. CASE s \notin connections_ /\ s \in waiting
      <4>1. session'[s] = [NewSession EXCEPT !.state = "Closed"]  BY <2>1, <3>3
      <4> QED  BY <4>1, NewSessionAs DEF SessionStates
    <3>4. CASE s \notin connections_ /\ s \notin waiting
      BY <2>1, <3>1, <3>4 DEF LetGoMeansClosed
    <3> QED  BY <3>2, <3>3, <3>4
  <2>3. session' \in [Sessions -> SessionType]  BY <2>1, <2>2
  <2> QED  BY <1>0, <2>1, <2>2, <2>3 DEF ServerInv, ServerType, SessionType, LetGoMeansClosed
<1>9. ASSUME NEW s \in Sessions, SessionReadError(s) PROVE ServerInv'
  <2> DEFINE sess == [session EXCEPT ![s].reading = FALSE]
  <2>1. session[s] \in SessionType  BY <1>0
  <2>2. /\ [session[s] EXCEPT !.reading = FALSE] \in SessionType
        /\ [session[s] EXCEPT !.reading = FALSE].open = session[s].open
    BY <2>1 DEF SessionType
  <2>3. /\ sess \in [Sessions -> SessionType] /\ sess[s].open = session[s].open
        /\ \A t \in Sessions : t # s => sess[t] = session[t]
    BY <1>0, <2>2
  <2>4. handle_error(s, sess) /\ UNCHANGED acceptVars  BY <1>9 DEF SessionReadError
  <2> HIDE DEF sess
  <2> QED  BY <1>0, <2>3, <2>4, ErrorHandled
<1>9a. ASSUME NEW s \in Sessions, SessionSpins(s) PROVE ServerInv'
  BY <1>0, <1>9a DEF SessionSpins, ServerInv, ServerType, LetGoMeansClosed
<1>10. ASSUME NEW s \in Sessions, SessionSend(s) PROVE ServerInv'
  <2> DEFINE e == [session[s] EXCEPT !.writes = @ + 1]
  <2>1. session[s] \in SessionType  BY <1>0
  <2>2. e \in SessionType /\ e.open = session[s].open
    BY <1>0, <1>10, <2>1 DEF SessionSend, SessionType
  <2>3. /\ session' = [session EXCEPT ![s] = e] /\ AcceptType' /\ connections_' = connections_
    BY <1>0, <1>4a, <1>10 DEF SessionSend, AcceptType, acceptVars
  <2> HIDE DEF e
  <2>4. e.open => s \in connections_  BY <2>2 DEF LetGoMeansClosed
  <2> QED  BY <1>0, <1>3, <2>2, <2>3, <2>4
<1>11. ASSUME NEW s \in Sessions, SessionWriteDone(s) PROVE ServerInv'
  <2> DEFINE e == [session[s] EXCEPT !.writes = @ - 1]
             sess == [session EXCEPT ![s].writes = @ - 1]
  <2>1. session[s] \in SessionType  BY <1>0
  <2>2. e \in SessionType /\ e.open = session[s].open
    BY <1>0, <1>11, <2>1 DEF SessionWriteDone, SessionType
  <2>3. sess = [session EXCEPT ![s] = e]  BY <1>0
  <2>4. /\ sess \in [Sessions -> SessionType] /\ sess[s].open = session[s].open
        /\ \A t \in Sessions : t # s => sess[t] = session[t]
    BY <1>0, <2>2, <2>3
  <2>5. /\ handle_error(s, sess) \/ (session' = sess /\ connections_' = connections_)
        /\ UNCHANGED acceptVars
    BY <1>11 DEF SessionWriteDone
  <2>6. e.open => s \in connections_  BY <2>2 DEF LetGoMeansClosed
  <2>6a. AcceptType'  BY <1>4a, <2>5 DEF AcceptType, acceptVars
  <2> HIDE DEF e, sess
  <2>7. CASE handle_error(s, sess)  BY <1>0, <2>4, <2>5, <2>7, ErrorHandled
  <2>8. CASE session' = sess /\ connections_' = connections_
    BY <1>0, <1>3, <2>2, <2>3, <2>5, <2>6, <2>6a, <2>8
  <2> QED  BY <2>5, <2>7, <2>8
<1>12. ASSUME NEW s \in Sessions, SessionFreed(s) PROVE ServerInv'
  <2>1. /\ session' = [session EXCEPT ![s] = NewSession]
        /\ AcceptType' /\ connections_' = connections_
    BY <1>4a, <1>12 DEF SessionFreed, AcceptType
  <2> HIDE DEF NewSession
  <2> QED  BY <1>0, <1>1, <1>3, <2>1
<1> QED  BY <1>4, <1>5, <1>6, <1>7, <1>7a, <1>8, <1>9, <1>9a, <1>10, <1>11, <1>12 DEF Next

LEMMA TypeStep == TypeOK /\ LetGoMeansClosed /\ [Next]_vars => TypeOK'
<1> SUFFICES ASSUME TypeOK, LetGoMeansClosed, [Next]_vars PROVE TypeOK'
  OBVIOUS
<1>1. ClientType' /\ ServerType'  BY ClientTypes, ServerStep DEF ServerInv
<1>2. cut' \subseteq Sessions
  <2>1. /\ cut \subseteq Sessions
        /\ connections_ \subseteq Sessions
        /\ socket_.peer \in Sessions \cup {NoSession}
    BY DEF TypeOK, Socket
  <2>2. CutPeer => cut' \subseteq Sessions  BY <2>1 DEF CutPeer
  <2>3. \A s \in Sessions : \A sess : handle_error(s, sess) => cut' \subseteq Sessions
    BY <2>1 DEF handle_error
  <2>4. CASE connect \/ connect_returns \/ handle_resolve \/ handle_connect \/ handle_read
             \/ handle_write \/ handle_retry \/ send \/ stop \/ ResolveDone \/ ConnectDone
             \/ ReadDone \/ WriteDone \/ LinkBreaks \/ Destroy \/ AcceptDone \/ AcceptFails
             \/ handle_accept \/ handle_accept_returns \/ UNCHANGED vars
    BY <2>1, <2>2, <2>4 DEF connect, connect_returns, handle_resolve, handle_connect,
         handle_read, handle_write, handle_retry, send, stop, ResolveDone, ConnectDone,
         ReadDone, WriteDone, LinkBreaks, Destroy, AcceptDone, AcceptFails, handle_accept,
         handle_accept_returns, vars
  <2>5. CASE close  BY <2>1, <2>5 DEF close
  <2>6. ASSUME NEW s \in Sessions, SessionStep(s) PROVE cut' \subseteq Sessions
    BY <2>1, <2>3, <2>6 DEF SessionStep, SessionReadError, SessionSpins, SessionSend,
         SessionWriteDone, SessionFreed
  <2> QED  BY <2>4, <2>5, <2>6 DEF Next, SessionStep
<1>3. sends' \in 0 .. MaxSends /\ faults' \in 0 .. MaxFaults
  <2> DEFINE Bounded == sends' \in 0 .. MaxSends /\ faults' \in 0 .. MaxFaults
  <2>1. /\ sends \in 0 .. MaxSends /\ MaxSends \in Nat
        /\ faults \in 0 .. MaxFaults /\ MaxFaults \in Nat
    BY NetAsioAssumption DEF TypeOK
  <2>2. ASSUME UNCHANGED bounds PROVE Bounded  BY <2>1, <2>2 DEF bounds
  <2>3. ASSUME Send PROVE Bounded  BY <2>1, <2>3 DEF Send
  <2>4. ASSUME NEW happens \in BOOLEAN, Fault(happens) PROVE Bounded
    BY <2>1, <2>4 DEF Fault
  <2>5. CASE handle_retry
    <3>1. start => Fault(Attempting \/ user # "done")  BY DEF start
    <3>2. (Attempting \/ user # "done") \in BOOLEAN  OBVIOUS
    <3>3. start => Bounded  BY <2>4, <3>1, <3>2
    <3> QED  BY <2>2, <2>5, <3>3 DEF handle_retry, bounds
  <2>6. CASE handle_read  BY <2>2, <2>4, <2>6 DEF handle_read, bounds
  <2>7. CASE stop \/ LinkBreaks \/ close  BY <2>4, <2>7 DEF stop, LinkBreaks, close
  <2>8. CASE ResolveDone  BY <2>4, <2>8 DEF ResolveDone
  <2>9. CASE ConnectDone \/ AcceptFails
    <3>1. (acceptor_ = "open") \in BOOLEAN  OBVIOUS
    <3> QED  BY <2>2, <2>4, <2>9, <3>1 DEF ConnectDone, AcceptFails
  <2>10. ASSUME NEW s \in Sessions, SessionReadError(s) \/ SessionSpins(s) PROVE Bounded
    <3>1. (~Broken(s)) \in BOOLEAN  BY DEF Broken
    <3> QED  BY <2>4, <2>10, <3>1 DEF SessionReadError, SessionSpins
  <2>11. ASSUME NEW s \in Sessions, SessionWriteDone(s) \/ SessionFreed(s) PROVE Bounded
    BY <2>2, <2>11 DEF SessionWriteDone, SessionFreed
  <2>12. ASSUME send \/ \E s \in Sessions : SessionSend(s) PROVE Bounded
    BY <2>3, <2>12 DEF send, SessionSend
  <2>13. CASE connect \/ connect_returns \/ handle_resolve \/ handle_connect \/ handle_write
              \/ ReadDone \/ WriteDone \/ Destroy \/ AcceptDone \/ handle_accept
              \/ handle_accept_returns \/ UNCHANGED vars
    BY <2>2, <2>13 DEF connect, connect_returns, handle_resolve, handle_connect, handle_write,
         ReadDone, WriteDone, Destroy, AcceptDone, handle_accept, handle_accept_returns, vars
  <2>14. Bounded
    BY <2>5, <2>6, <2>7, <2>8, <2>9, <2>10, <2>11, <2>12, <2>13 DEF Next
  <2> QED  BY <2>14 DEF Bounded
<1> QED  BY <1>1, <1>2, <1>3 DEF TypeOK, ClientType, ServerType

-----------------------------------------------------------------------------
(***************************************************************************)
(* Nothing brings a destroyed client back, and the operation or handler    *)
(* that a state other than closed rests on is only ever exchanged for the  *)
(* one that follows it.                                                    *)
(***************************************************************************)
Underway ==
    \/ resolves > 0 \/ reads > 0 \/ socket_.at = "connecting"
    \/ \E i \in DOMAIN ready : ready[i].op # "write"

LEMMA DestroyedStays ==
  ASSUME TypeOK, Destroyed, [Next]_vars PROVE Destroyed'
<1>1. ASSUME UNCHANGED clientVars PROVE Destroyed'
  <2>1. UNCHANGED <<user, spinning, managed, reads, writes, ready>>
    BY <1>1 DEF clientVars, startVars
  <2> QED  BY <2>1 DEF Destroyed, Held, Queued
<1>2. ~handle_resolve /\ ~handle_connect /\ ~handle_read /\ ~handle_write
  BY DEF handle_resolve, handle_connect, handle_read, handle_write, Handle
<1>3. ~handle_retry /\ ~send /\ ~ResolveDone /\ ~ConnectDone /\ ~ReadDone /\ ~WriteDone
  BY DEF handle_retry, send, ResolveDone, ConnectDone, ReadDone, WriteDone
<1>4. ~stop /\ ~connect /\ ~connect_returns
  BY DEF stop, connect, connect_returns, Destroyed, Held
<1>5. CASE LinkBreaks \/ AcceptDone \/ AcceptFails \/ handle_accept \/ handle_accept_returns
           \/ close \/ UNCHANGED vars
  BY <1>1, <1>5 DEF LinkBreaks, AcceptDone, AcceptFails, handle_accept,
       handle_accept_returns, close, vars
<1>6. ASSUME NEW s \in Sessions, SessionStep(s) PROVE Destroyed'
  BY <1>1, <1>6 DEF SessionStep, SessionReadError, SessionSpins, SessionSend,
       SessionWriteDone, SessionFreed
<1>7. CASE Destroy
  <2>1. ready' = <<>> /\ UNCHANGED <<user, spinning, managed, reads, writes>>
    BY <1>7 DEF Destroy, startVars
  <2>2. user = "done" /\ ~spinning /\ ~managed /\ ~(reads + writes + Queued({"read", "write"}) > 0)
    BY DEF Destroyed, Held
  <2>3. Queued({"read", "write"})' = 0
    <3>1. {i \in DOMAIN ready' : ready'[i].op \in {"read", "write"}} = {}  BY <2>1
    <3> QED  BY <3>1, FS_EmptySet DEF Queued
  <2>4. /\ reads \in Nat /\ writes \in Nat /\ ready \in Seq(Completion)
        /\ Queued({"read", "write"}) \in Nat
    BY QueuedType DEF TypeOK
  <2> QED  BY <2>1, <2>2, <2>3, <2>4 DEF Destroyed, Held
<1> QED  BY <1>2, <1>3, <1>4, <1>5, <1>6, <1>7 DEF Next, SessionStep

(***************************************************************************)
(* As long as start() has not set its state, the resolution it began is    *)
(* under way or something it led to is, unless a handler closed the client *)
(* or holds its thread.                                                    *)
(***************************************************************************)
Going == Underway \/ outrun \/ spinning

Alive ==
    /\ Destroyed \/ state_ = "Closed" \/ Going
    /\ user = "start" => Going

LEMMA GoingStep ==
  ASSUME TypeOK, [Next]_vars, ~Destroyed, state_ = "Closed" \/ Going,
         user = "start" => Going
  PROVE  (state_' = "Closed" \/ Going') /\ (user' = "start" => Going')
<1> DEFINE Goal == (state_' = "Closed" \/ Going') /\ (user' = "start" => Going')
<1>0. reads \in Nat /\ resolves \in Nat /\ ready \in Seq(Completion)
  BY NetAsioAssumption DEF TypeOK
<1>1. ASSUME UNCHANGED <<startVars, state_, resolves, reads, socket_, ready>> PROVE Goal
  BY <1>1 DEF Going, Underway, startVars
<1>2. ASSUME Going' PROVE Goal  BY <1>2
<1>3. ASSUME Ends, user' = user PROVE Goal
  BY <1>3 DEF Ends, set_state, Going
<1>4. CASE connect
  <2>1. resolves' = resolves + 1  BY <1>4 DEF connect
  <2> QED  BY <1>0, <1>2, <2>1 DEF Going, Underway
<1>5. CASE connect_returns
  <2>1. Going /\ UNCHANGED <<outrun, spinning, resolves, reads, socket_, ready>>
    BY <1>5 DEF connect_returns
  <2> QED  BY <1>2, <2>1 DEF Going, Underway
<1>6. CASE handle_resolve
  <2>1. CASE Head(ready).ok
    <3>1. socket_'.at = "connecting"  BY <1>6, <2>1 DEF handle_resolve
    <3> QED  BY <1>2, <3>1 DEF Going, Underway
  <2>2. CASE ~Head(ready).ok  BY <1>3, <1>6, <2>2 DEF handle_resolve
  <2> QED  BY <2>1, <2>2
<1>7. CASE handle_connect
  <2>1. CASE Head(ready).ok
    <3>1. reads' = reads + 1  BY <1>7, <2>1 DEF handle_connect
    <3> QED  BY <1>0, <1>2, <3>1 DEF Going, Underway
  <2>2. CASE ~Head(ready).ok  BY <1>3, <1>7, <2>2 DEF handle_connect
  <2> QED  BY <2>1, <2>2
<1>8. CASE handle_read
  <2>1. CASE reads' = reads + 1  BY <1>0, <1>2, <2>1 DEF Going, Underway
  <2>2. CASE spinning' = TRUE  BY <1>2, <2>2 DEF Going
  <2>3. CASE Ends  BY <1>3, <1>8, <2>3 DEF handle_read
  <2> QED  BY <1>8, <2>1, <2>2, <2>3 DEF handle_read
<1>9. CASE handle_write
  <2>1. /\ UNCHANGED <<user, outrun, spinning, resolves, socket_, reads>>
        /\ ready' = Tail(ready) /\ Handle("write")
        /\ state_' = state_ \/ state_' = "Closed"
    BY <1>9 DEF handle_write, set_state, startVars
  <2>2. \A i \in DOMAIN ready : ready[i].op # "write" =>
          \E j \in DOMAIN ready' : ready'[j] = ready[i]
    BY <2>1, TakeReady
  <2>3. Going => Going'  BY <2>1, <2>2 DEF Going, Underway
  <2> QED  BY <2>1, <2>3
<1>10. CASE handle_retry
  <2>1. CASE start
    <3>1. resolves' = resolves + 1  BY <2>1 DEF start
    <3> QED  BY <1>0, <1>2, <3>1 DEF Going, Underway
  <2>2. CASE UNCHANGED <<outrun, resolves, state_>>
    BY <1>1, <1>10, <2>2 DEF handle_retry, startVars
  <2> QED  BY <1>10, <2>1, <2>2 DEF handle_retry
<1>11. CASE send  BY <1>1, <1>11 DEF send
<1>12. CASE stop  BY <1>12 DEF stop, set_state, startVars
<1>13. CASE ResolveDone
  <2>1. PICK ok \in BOOLEAN : ready' = Complete("resolve", ok)  BY <1>13 DEF ResolveDone
  <2>2. \E i \in DOMAIN ready' : ready'[i].op = "resolve"  BY <2>1, PutReady
  <2> QED  BY <1>2, <2>2 DEF Going, Underway
<1>14. CASE ConnectDone
  <2>1. \E ok \in BOOLEAN : ready' = Complete("connect", ok)  BY <1>14 DEF ConnectDone
  <2>2. \E i \in DOMAIN ready' : ready'[i].op = "connect"  BY <2>1, PutReady
  <2> QED  BY <1>2, <2>2 DEF Going, Underway
<1>15. CASE ReadDone
  <2>1. \E ok \in BOOLEAN : ready' = Complete("read", ok)
    <3>1. ready' = Complete("read", Up) /\ Up \in BOOLEAN  BY <1>15, Zenon DEF ReadDone, Up
    <3> QED  BY <3>1, Zenon
  <2>2. \E i \in DOMAIN ready' : ready'[i].op = "read"  BY <2>1, PutReady
  <2> QED  BY <1>2, <2>2 DEF Going, Underway
<1>16. CASE WriteDone
  <2>1. \E ok \in BOOLEAN : ready' = Complete("write", ok)
    <3>1. ready' = Complete("write", Up) /\ Up \in BOOLEAN  BY <1>16, Zenon DEF WriteDone, Up
    <3> QED  BY <3>1, Zenon
  <2>2. \A i \in DOMAIN ready : i \in DOMAIN ready' /\ ready'[i] = ready[i]  BY <2>1, PutReady
  <2>3. UNCHANGED <<startVars, state_, resolves, socket_, reads>>  BY <1>16 DEF WriteDone
  <2>4. Going => Going'  BY <2>2, <2>3 DEF Going, Underway, startVars
  <2> QED  BY <2>3, <2>4 DEF startVars
<1>17. CASE LinkBreaks \/ AcceptDone \/ AcceptFails \/ handle_accept
            \/ handle_accept_returns \/ close \/ UNCHANGED vars
  BY <1>1, <1>17 DEF LinkBreaks, AcceptDone, AcceptFails, handle_accept,
       handle_accept_returns, close, vars, clientVars
<1>18. ASSUME NEW s \in Sessions, SessionStep(s) PROVE Goal
  BY <1>1, <1>18 DEF SessionStep, SessionReadError, SessionSpins, SessionSend,
       SessionWriteDone, SessionFreed, clientVars
<1>19. ~Destroy  BY DEF Destroy
<1> QED  BY <1>4, <1>5, <1>6, <1>7, <1>8, <1>9, <1>10, <1>11, <1>12, <1>13, <1>14, <1>15,
            <1>16, <1>17, <1>18, <1>19 DEF Next, SessionStep

-----------------------------------------------------------------------------
LEMMA InitInv == Init => TypeOK /\ LetGoMeansClosed /\ Alive
<1> SUFFICES ASSUME Init PROVE TypeOK /\ LetGoMeansClosed /\ Alive
  OBVIOUS
<1> USE NetAsioAssumption DEF Init, NewClient, listen
<1>1. ClientType
  <2>1. [at |-> "none", peer |-> NoSession] \in Socket /\ <<>> \in Seq(Completion)  BY DEF Socket
  <2>2. outrun = FALSE /\ spinning = FALSE /\ managed = FALSE /\ timer = Retry
    OBVIOUS
  <2>3. /\ outrun \in BOOLEAN /\ spinning \in BOOLEAN /\ managed \in BOOLEAN
        /\ timer \in BOOLEAN
    BY <2>2, Zenon
  <2> QED  BY <2>1, <2>3 DEF ClientType, States
<1>2. ServerType
  <2>1. NewSession \in SessionType  BY DEF NewSession, SessionType, SessionStates
  <2> HIDE DEF NewSession
  <2> QED  BY <2>1 DEF ServerType, SessionType
<1>3. TypeOK  BY <1>1, <1>2 DEF TypeOK, ClientType, ServerType
<1>4. LetGoMeansClosed  BY DEF LetGoMeansClosed, NewSession
<1>5. Alive  BY DEF Alive
<1> QED  BY <1>3, <1>4, <1>5

LEMMA AliveIsNotStranded == ASSUME TypeOK, Alive PROVE NeverStranded
<1>1. reads \in Nat /\ resolves \in Nat  BY NetAsioAssumption DEF TypeOK
<1> QED  BY <1>1 DEF Alive, Going, Underway, NeverStranded, Stranded

LEMMA Invariance == Spec => [](TypeOK /\ LetGoMeansClosed /\ Alive)
<1> DEFINE Inv == TypeOK /\ LetGoMeansClosed /\ Alive
<1>1. Init => Inv  BY InitInv
<1>2. Inv /\ [Next]_vars => Inv'
  <2> SUFFICES ASSUME Inv, [Next]_vars PROVE Inv'
    OBVIOUS
  <2>1. TypeOK' /\ LetGoMeansClosed'  BY TypeStep, ServerStep DEF ServerInv
  <2>2. Alive'
    <3>1. CASE Destroyed
      <4>1. Destroyed'  BY <3>1, DestroyedStays
      <4> QED  BY <4>1 DEF Alive, Destroyed, Held
    <3>2. CASE ~Destroyed  BY <3>2, GoingStep DEF Alive
    <3> QED  BY <3>1, <3>2
  <2> QED  BY <2>1, <2>2
<1> QED  BY <1>1, <1>2, PTL DEF Spec

(***************************************************************************)
(* Every variable of Client, Acceptor and Sessions keeps its type; no more *)
(* resolutions or writes are under way than the bounds say.                *)
(***************************************************************************)
THEOREM TypeCorrect == Spec => []TypeOK
BY Invariance, PTL

(***************************************************************************)
(* A Client that is not closed always has an operation or a handler left   *)
(* that will bring it on or close it for handle_retry() to see, although   *)
(* handlers of an older socket run between those of the present one and    *)
(* start() may still be running when they do; except when start() set its  *)
(* state after a handler had closed the client, and while readMessages()   *)
(* holds the thread.                                                       *)
(***************************************************************************)
THEOREM ClientIsNeverStranded == Spec => []NeverStranded
BY Invariance, AliveIsNotStranded, PTL

(***************************************************************************)
(* A Session the ConnectionManager has let go of has its socket closed,    *)
(* whichever of read error, write error and Acceptor::close() came first.  *)
(***************************************************************************)
THEOREM NoSessionIsLeftOpen == Spec => []LetGoMeansClosed
BY Invariance, PTL

-----------------------------------------------------------------------------
(***************************************************************************)
(* The messages on a connection.  What readMessages() computes is defined  *)
(* by recursion, so it takes an induction over the rounds of its loop.     *)
(***************************************************************************)
LEMMA SentBound == MaxSent \in Nat
BY StreamAssumption DEF Stream!StreamConfig

Below == {p \in Nat \X Nat : p[1] < p[2]}

(* Induction over the naturals, as a fact about sets of them. *)
LEMMA Induction ==
    ASSUME NEW S, 0 \in S, \A n \in Nat : n \in S => n + 1 \in S
    PROVE  Nat \subseteq S
<1> SUFFICES ASSUME Nat \ S # {} PROVE FALSE  OBVIOUS
<1>1. IsWellFoundedOn(Below, Nat)  BY NatLessThanWellFounded DEF OpToRel, Below
<1>2. PICK x \in Nat \ S : \A y \in Nat \ S : ~(<<y, x>> \in Below)  BY <1>1, WFMin
<1>3. x # 0 /\ x - 1 \in Nat  OBVIOUS
<1>4. <<x - 1, x>> \in Below  BY <1>3 DEF Below
<1>5. x - 1 \in S  BY <1>2, <1>3, <1>4
<1>6. x - 1 + 1 \in S  BY <1>3, <1>5
<1> QED  BY <1>6

(***************************************************************************)
(* The rounds of readMessages(): what each leaves follows from what the    *)
(* one before it left.                                                     *)
(***************************************************************************)
Round(o) == IF Stream!HasHeader(o) THEN Stream!Step(o) ELSE o

LEMMA RoundsIs ==
    ASSUME NEW buf \in Seq(Stream!Piece), NEW posted
    PROVE  \E rounds : /\ Stream!readMessages(buf, posted) = rounds[Len(buf)]
                       /\ rounds[0] = Stream!Outcome(buf, posted, "reading")
                       /\ \A k \in 1 .. Len(buf) : rounds[k] = Round(rounds[k - 1])
<1> DEFINE N == Len(buf)
           begin == Stream!Outcome(buf, posted, "reading")
           Upto(m, f) == f = [k \in 0 .. m |-> IF k = 0 THEN begin ELSE Round(f[k - 1])]
<1>0. N \in Nat  OBVIOUS
<1>1. Stream!readMessages(buf, posted) = (CHOOSE f : Upto(N, f))[N]
  BY DEF Stream!readMessages, Round
<1> HIDE DEF begin, N
<1>2. \E f : Upto(N, f)
  <2> DEFINE S == {m \in Nat : \E f : Upto(m, f)}
  <2>1. 0 \in S
    <3>1. Upto(0, [k \in 0 .. 0 |-> begin])  OBVIOUS
    <3> QED  BY <3>1
  <2>2. ASSUME NEW m \in Nat, m \in S PROVE m + 1 \in S
    <3>1. PICK f : Upto(m, f)  BY <2>2
    <3>2. PICK g : g = [k \in 0 .. m + 1 |-> IF k <= m THEN f[k] ELSE Round(f[m])]  OBVIOUS
    <3>3. ASSUME NEW k \in 0 .. m + 1
          PROVE  g[k] = IF k = 0 THEN begin ELSE Round(g[k - 1])
      <4>1. CASE k = 0  BY <3>1, <3>2, <4>1
      <4>2. CASE k \in 1 .. m
        <5>1. k - 1 \in 0 .. m /\ k \in 0 .. m /\ k # 0  BY <4>2
        <5>2. g[k] = f[k] /\ g[k - 1] = f[k - 1]  BY <3>2, <5>1
        <5>3. f[k] = Round(f[k - 1])  BY <3>1, <5>1
        <5> QED  BY <5>1, <5>2, <5>3
      <4>3. CASE k = m + 1
        <5>1. k - 1 = m /\ k # 0 /\ m \in 0 .. m + 1 /\ ~(k <= m)  BY <4>3
        <5>2. g[k] = Round(f[m]) /\ g[m] = f[m]  BY <3>2, <5>1
        <5> QED  BY <5>1, <5>2
      <4> QED  BY <4>1, <4>2, <4>3
    <3>4. Upto(m + 1, g)
      <4>1. DOMAIN g = 0 .. m + 1  BY <3>2
      <4>2. g = [k \in 0 .. m + 1 |-> g[k]]  BY <3>2, <4>1
      <4> QED  BY <3>3, <4>2
    <3>5. m + 1 \in Nat  OBVIOUS
    <3> HIDE DEF Upto
    <3> QED  BY <3>4, <3>5
  <2>3. Nat \subseteq S
    <3> HIDE DEF S
    <3> QED  BY <2>1, <2>2, Induction
  <2> QED  BY <1>0, <2>3
<1>3. PICK R : R = CHOOSE f : Upto(N, f)  OBVIOUS
<1>4. Upto(N, R)
  <2> HIDE DEF Upto
  <2> QED  BY <1>2, <1>3
<1>5. Stream!readMessages(buf, posted) = R[N]  BY <1>1, <1>3
<1>6. R[0] = begin  BY <1>0, <1>4
<1>7. ASSUME NEW k \in 1 .. N PROVE R[k] = Round(R[k - 1])  BY <1>0, <1>4
<1> QED  BY <1>5, <1>6, <1>7 DEF begin, N


-----------------------------------------------------------------------------
(***************************************************************************)
(* The pieces of a message, by their places.                               *)
(***************************************************************************)
LEMMA PlaceType == ASSUME NEW p \in Stream!Piece
                   PROVE  /\ Stream!Place(p) \in Nat /\ p[1] \in Nat
                          /\ Stream!Place(p) <= 3 * p[1] /\ Stream!Place(p) > 3 * (p[1] - 1)
BY SentBound DEF Stream!Piece, Stream!Ids, Stream!Place

LEMMA BoundIsNat == ASSUME Stream!TypeOK PROVE Stream!Bound \subseteq Nat
<1>1. DOMAIN sent = 1 .. Len(sent) /\ Len(sent) \in Nat  BY DEF Stream!TypeOK
<1> QED  BY <1>1 DEF Stream!Bound

LEMMA PiecesFollow ==
    ASSUME NEW n \in Stream!Ids
    PROVE  /\ Stream!Pieces(n) \in Seq(Stream!Piece)
           /\ Stream!Pieces(n) # <<>>
           /\ Len(Stream!Pieces(n)) = 3
           /\ Stream!Follow(Stream!Pieces(n), 3 * (n - 1))
<1>1. n \in Nat  BY SentBound DEF Stream!Ids
<1>2. Stream!Pieces(n) \in Seq(Stream!Piece) /\ Stream!Pieces(n) # <<>> /\ Len(Stream!Pieces(n)) = 3
  BY DEF Stream!Pieces, Stream!Piece
<1>3. /\ Stream!Place(<<n, "head1">>) = 3 * (n - 1) + 1
      /\ Stream!Place(<<n, "head2">>) = 3 * (n - 1) + 2
      /\ Stream!Place(<<n, "body">>) = 3 * (n - 1) + 3
  BY <1>1 DEF Stream!Place
<1>4. ASSUME NEW i \in 1 .. 3 PROVE Stream!Place(Stream!Pieces(n)[i]) = 3 * (n - 1) + i
  BY <1>3 DEF Stream!Pieces
<1> QED  BY <1>2, <1>4 DEF Stream!Follow

(* What is cut off at the front, and what is put behind. *)
LEMMA FollowCut ==
    ASSUME NEW s \in Seq(Stream!Piece), NEW n \in Nat, Stream!Follow(s, n), NEW k \in 0 .. Len(s)
    PROVE  /\ SubSeq(s, 1, k) \in Seq(Stream!Piece) /\ Len(SubSeq(s, 1, k)) = k
           /\ SubSeq(s, k + 1, Len(s)) \in Seq(Stream!Piece)
           /\ Len(SubSeq(s, k + 1, Len(s))) = Len(s) - k
           /\ Stream!Follow(SubSeq(s, 1, k), n) /\ Stream!Follow(SubSeq(s, k + 1, Len(s)), n + k)
<1>1. /\ SubSeq(s, 1, k) \in Seq(Stream!Piece) /\ Len(SubSeq(s, 1, k)) = k
      /\ SubSeq(s, k + 1, Len(s)) \in Seq(Stream!Piece)
      /\ Len(SubSeq(s, k + 1, Len(s))) = Len(s) - k
  OBVIOUS
<1>2. ASSUME NEW i \in 1 .. k PROVE SubSeq(s, 1, k)[i] = s[i]  OBVIOUS
<1>3. ASSUME NEW i \in 1 .. Len(s) - k
      PROVE  SubSeq(s, k + 1, Len(s))[i] = s[k + i] /\ k + i \in DOMAIN s
  OBVIOUS
<1>4. Stream!Follow(SubSeq(s, 1, k), n)  BY <1>1, <1>2 DEF Stream!Follow
<1>5. Stream!Follow(SubSeq(s, k + 1, Len(s)), n + k)  BY <1>1, <1>3 DEF Stream!Follow
<1> QED  BY <1>1, <1>4, <1>5

LEMMA FollowJoin ==
    ASSUME NEW s \in Seq(Stream!Piece), NEW u \in Seq(Stream!Piece), NEW n \in Nat,
           Stream!Follow(s, n), Stream!Follow(u, n + Len(s))
    PROVE  s \o u \in Seq(Stream!Piece) /\ Len(s \o u) = Len(s) + Len(u) /\ Stream!Follow(s \o u, n)
<1>1. s \o u \in Seq(Stream!Piece) /\ Len(s \o u) = Len(s) + Len(u)  OBVIOUS
<1>2. ASSUME NEW i \in 1 .. Len(s) PROVE (s \o u)[i] = s[i]  OBVIOUS
<1>3. ASSUME NEW i \in Len(s) + 1 .. Len(s) + Len(u)
      PROVE  (s \o u)[i] = u[i - Len(s)] /\ i - Len(s) \in DOMAIN u
  OBVIOUS
<1>4. ASSUME NEW i \in DOMAIN (s \o u) PROVE Stream!Place((s \o u)[i]) = n + i
  <2>1. CASE i <= Len(s)  BY <1>1, <1>2, <2>1 DEF Stream!Follow
  <2>2. CASE i > Len(s)
    <3>1. Stream!Place(u[i - Len(s)]) = n + Len(s) + (i - Len(s))
      BY <1>1, <1>3, <2>2 DEF Stream!Follow
    <3> QED  BY <1>1, <1>3, <2>2, <3>1
  <2> QED  BY <1>1, <2>1, <2>2
<1> QED  BY <1>1, <1>4 DEF Stream!Follow

(***************************************************************************)
(* readMessages() consumes whole messages, and posts what is made of each: *)
(* if the buffer starts after n messages, what is left starts after m.     *)
(***************************************************************************)
Made == Stream!Ids \X {"message", "null"}

Reads(o, end) ==
    \E n \in 0 .. Len(sent) :
        /\ o = Stream!Outcome(o.buf, o.posted, o.end)
        /\ o.buf \in Seq(Stream!Piece) /\ Stream!Follow(o.buf, 3 * n) /\ 3 * n + Len(o.buf) = end
        /\ o.posted \in Seq(Made) /\ Stream!Posted(o.posted, n)
        /\ o.end \in {"reading", "spinning", "closed"}

LEMMA MadeIs ==
    ASSUME NEW n \in Stream!Ids
    PROVE  Stream!makeMessage(n) \in Made /\ Stream!makeMessage(n)[1] = n
BY DEF Stream!makeMessage, Made

LEMMA PostedMore ==
    ASSUME Stream!TypeOK, NEW posted \in Seq(Made), NEW n \in Nat, n + 1 \in DOMAIN sent,
           Stream!Posted(posted, n)
    PROVE  /\ Stream!handle_message(posted, n + 1) \in Seq(Made)
           /\ Stream!Posted(Stream!handle_message(posted, n + 1), n + 1)
<1> DEFINE more == Append(posted, Stream!makeMessage(n + 1))
<1>0. n + 1 \in Stream!Ids  BY SentBound DEF Stream!TypeOK, Stream!Ids
<1>1. Stream!makeMessage(n + 1) \in Made /\ Stream!makeMessage(n + 1)[1] = n + 1
  BY <1>0, MadeIs
<1>2. /\ more \in Seq(Made) /\ Len(more) = Len(posted) + 1
      /\ more[Len(posted) + 1] = Stream!makeMessage(n + 1)
      /\ \A i \in 1 .. Len(posted) : more[i] = posted[i]
  BY <1>1
<1>3. \A i \in DOMAIN handled : handled[i] \in Nat /\ handled[i] <= n
  <2>1. \A i \in DOMAIN handled : handled[i] \in Nat
    BY SentBound DEF Stream!TypeOK, Stream!Ids, Stream!Null
  <2> QED  BY <2>1 DEF Stream!Posted, Stream!Null
<1>4. Stream!Posted(more, n + 1)
  <2>1. ASSUME NEW i \in DOMAIN more
        PROVE  /\ more[i][1] \in 1 .. n + 1 /\ more[i] = Stream!makeMessage(more[i][1])
               /\ \A j \in DOMAIN more : i < j => more[i][1] < more[j][1]
               /\ \A j \in DOMAIN handled : handled[j] < more[i][1]
    <3>1. CASE i \in DOMAIN posted
      <4>1. more[i] = posted[i] /\ posted[i][1] \in 1 .. n  BY <1>2, <3>1 DEF Stream!Posted
      <4>2. ASSUME NEW j \in DOMAIN more, i < j PROVE more[i][1] < more[j][1]
        <5>1. CASE j \in DOMAIN posted  BY <1>2, <3>1, <4>2, <5>1 DEF Stream!Posted
        <5>2. CASE j = Len(posted) + 1  BY <1>1, <1>2, <4>1, <5>2
        <5> QED  BY <1>2, <5>1, <5>2
      <4> QED  BY <3>1, <4>1, <4>2 DEF Stream!Posted
    <3>2. CASE i = Len(posted) + 1
      <4>1. more[i] = Stream!makeMessage(n + 1) /\ more[i][1] = n + 1  BY <1>1, <1>2, <3>2
      <4>2. \A j \in DOMAIN more : ~(i < j)  BY <1>2, <3>2
      <4> QED  BY <1>3, <4>1, <4>2
    <3> QED  BY <1>2, <3>1, <3>2
  <2>2. ASSUME NEW m \in Stream!Bound, m <= n + 1
        PROVE  \/ \E i \in DOMAIN handled : handled[i] = m
               \/ \E i \in DOMAIN more : more[i][1] = m
    <3>1. CASE m = n + 1
      <4>1. Len(posted) + 1 \in DOMAIN more  BY <1>2
      <4> QED  BY <1>1, <1>2, <3>1, <4>1
    <3>2. CASE m # n + 1
      <4>1. m <= n  BY <2>2, <3>2, BoundIsNat
      <4>2. \A i \in DOMAIN posted : i \in DOMAIN more /\ more[i] = posted[i]  BY <1>2
      <4> QED  BY <4>1, <4>2 DEF Stream!Posted
    <3> QED  BY <3>1, <3>2
  <2> HIDE DEF more
  <2> QED  BY <1>3, <2>1, <2>2 DEF Stream!Posted
<1>5. ASSUME Stream!makeMessage(n + 1)[2] # "message" PROVE Stream!Posted(posted, n + 1)
  <2>1. n + 1 \notin Stream!Bound  BY <1>5 DEF Stream!Bound, Stream!makeMessage
  <2>2. \A m \in Stream!Bound : m <= n + 1 => m <= n
    BY <2>1, BoundIsNat
  <2> QED  BY <1>3, <2>2 DEF Stream!Posted
<1> HIDE DEF more
<1> QED
  BY <1>2, <1>4, <1>5
     DEF Stream!handle_message, Stream!AcceptorMessage, Stream!ClientMessage, more

LEMMA StepReads ==
    ASSUME Stream!TypeOK, NEW end \in Nat, end <= 3 * Len(sent), NEW o, Reads(o, end),
           Stream!HasHeader(o)
    PROVE  Reads(Stream!Step(o), end)
<1>1. PICK n \in 0 .. Len(sent) :
        /\ o = Stream!Outcome(o.buf, o.posted, o.end)
        /\ o.buf \in Seq(Stream!Piece) /\ Stream!Follow(o.buf, 3 * n) /\ 3 * n + Len(o.buf) = end
        /\ o.posted \in Seq(Made) /\ Stream!Posted(o.posted, n)
        /\ o.end \in {"reading", "spinning", "closed"}
  BY DEF Reads
<1>2. PICK buf, posted, was : buf = o.buf /\ posted = o.posted /\ was = o.end  OBVIOUS
<1>3. o = [buf |-> buf, posted |-> posted, end |-> was]  BY <1>1, <1>2 DEF Stream!Outcome
<1>4. n \in Nat /\ Len(sent) \in Nat /\ buf \in Seq(Stream!Piece) /\ Len(buf) \in Nat
  BY <1>1, <1>2 DEF Stream!TypeOK
<1>5. Len(buf) >= 2 /\ 3 * n + Len(buf) = end  BY <1>1, <1>2 DEF Stream!HasHeader
<1>6. buf[1][1] = n + 1
  <2>1. buf[1] \in Stream!Piece /\ Stream!Place(buf[1]) = 3 * n + 1
    BY <1>1, <1>2, <1>4, <1>5 DEF Stream!Follow
  <2>2. /\ buf[1][1] \in Nat /\ 3 * n + 1 <= 3 * buf[1][1]
        /\ 3 * n + 1 > 3 * (buf[1][1] - 1)
    BY <2>1, PlaceType
  <2> QED  BY <1>4, <2>2
<1>7. n + 1 \in DOMAIN sent
  <2>1. 3 * n + 2 <= 3 * Len(sent)  BY <1>4, <1>5
  <2> QED  BY <1>4, <2>1 DEF Stream!TypeOK
<1>8. ASSUME NEW e \in {"spinning", "closed"}, Stream!Step(o) = Stream!Outcome(buf, posted, e)
      PROVE  Reads(Stream!Step(o), end)
  <2>1. Stream!Step(o).buf = buf /\ Stream!Step(o).posted = posted /\ Stream!Step(o).end = e
    BY <1>8 DEF Stream!Outcome
  <2> QED  BY <1>1, <1>2, <1>8, <2>1 DEF Reads
<1>9. CASE sent[n + 1] = "oversize"
  <2>1. Stream!Step(o) = Stream!Outcome(buf, posted, "closed")
    BY <1>2, <1>3, <1>6, <1>9 DEF Stream!Step, Stream!Outcome
  <2> QED  BY <1>8, <2>1
<1>10. CASE sent[n + 1] # "oversize" /\ Len(buf) < 3
  <2>1. Stream!Step(o) = Stream!Outcome(buf, posted, "spinning")
    BY <1>2, <1>3, <1>6, <1>10 DEF Stream!Step, Stream!Outcome
  <2> QED  BY <1>8, <2>1
<1>11. CASE sent[n + 1] # "oversize" /\ ~(Len(buf) < 3)
  <2> DEFINE rest == SubSeq(buf, 4, Len(buf))
             more == Stream!handle_message(posted, n + 1)
  <2>1. Stream!Step(o) = Stream!Outcome(rest, more, was)
    BY <1>2, <1>6, <1>11 DEF Stream!Step
  <2>2. /\ rest \in Seq(Stream!Piece) /\ Len(rest) = Len(buf) - 3 /\ Stream!Follow(rest, 3 * n + 3)
    <3>1. 3 \in 0 .. Len(buf) /\ 3 * n \in Nat /\ 3 + 1 = 4  BY <1>4, <1>11
    <3> QED  BY <1>1, <1>2, <1>4, <3>1, FollowCut
  <2>3. more \in Seq(Made) /\ Stream!Posted(more, n + 1)
    BY <1>1, <1>2, <1>4, <1>7, PostedMore
  <2> HIDE DEF rest, more
  <2>4. Stream!Step(o).buf = rest /\ Stream!Step(o).posted = more /\ Stream!Step(o).end = was
    BY <2>1 DEF Stream!Outcome
  <2>5. n + 1 \in 0 .. Len(sent) /\ 3 * (n + 1) = 3 * n + 3
    BY <1>4, <1>7 DEF Stream!TypeOK
  <2>6. Stream!Follow(rest, 3 * (n + 1))  BY <2>2, <2>5
  <2>7. 3 * (n + 1) + Len(rest) = end  BY <1>4, <1>5, <2>2
  <2> QED  BY <1>1, <1>2, <2>1, <2>2, <2>3, <2>4, <2>5, <2>6, <2>7 DEF Reads
<1> QED  BY <1>9, <1>10, <1>11

(* Whatever number of rounds the loop makes. *)
LEMMA LoopReads ==
    ASSUME Stream!TypeOK, NEW end \in Nat, end <= 3 * Len(sent),
           NEW buf \in Seq(Stream!Piece), NEW posted,
           Reads(Stream!Outcome(buf, posted, "reading"), end)
    PROVE  Reads(Stream!readMessages(buf, posted), end)
<1>1. PICK rounds : /\ Stream!readMessages(buf, posted) = rounds[Len(buf)]
                    /\ rounds[0] = Stream!Outcome(buf, posted, "reading")
                    /\ \A k \in 1 .. Len(buf) : rounds[k] = Round(rounds[k - 1])
  BY RoundsIs
<1> DEFINE S == {k \in Nat : k <= Len(buf) => Reads(rounds[k], end)}
<1>2. 0 \in S  BY <1>1
<1>3. ASSUME NEW k \in Nat, k \in S PROVE k + 1 \in S
  <2> SUFFICES ASSUME k + 1 <= Len(buf) PROVE Reads(rounds[k + 1], end)  OBVIOUS
  <2>1. k + 1 \in 1 .. Len(buf) /\ k + 1 - 1 = k /\ k <= Len(buf)  OBVIOUS
  <2>2. rounds[k + 1] = Round(rounds[k])  BY <1>1, <2>1
  <2>3. Reads(rounds[k], end)  BY <1>3, <2>1
  <2> QED  BY <2>2, <2>3, StepReads DEF Round
<1>4. Nat \subseteq S
  <2> HIDE DEF S
  <2> QED  BY <1>2, <1>3, Induction
<1> QED  BY <1>1, <1>4

-----------------------------------------------------------------------------
(***************************************************************************)
(* The invariant.                                                          *)
(***************************************************************************)
LEMMA StreamInit == Stream!Init => Stream!IInv
<1> SUFFICES ASSUME Stream!Init PROVE Stream!IInv  OBVIOUS
<1>1. Stream!TypeOK
  <2>1. /\ <<>> \in Seq(Stream!Kinds)
        /\ <<>> \in Seq(Seq(Stream!Piece))
        /\ <<>> \in Seq(Stream!Piece)
        /\ <<>> \in Seq(Stream!Ids \X {"message", "null"})
        /\ <<>> \in Seq(Stream!Ids \cup {Stream!Null})
    OBVIOUS
  <2>2. \A T : <<>> \in Seq(T) => Len(<<>>) <= MaxSent  BY SentBound
  <2> QED  BY <2>1, <2>2 DEF Stream!Init, Stream!TypeOK
<1>2. Stream!HandledAsSent  BY DEF Stream!Init, Stream!HandledAsSent
<1>3. 0 \in 0 .. Len(sent) /\ Stream!Consumed(0)
  BY DEF Stream!Init, Stream!Consumed, Stream!Posted, Stream!Bound, Stream!Follow,
         Stream!Unwritten, Stream!Written
<1> QED  BY <1>1, <1>2, <1>3 DEF Stream!IInv

(* What was made of the messages before stays what it was when one more is  *)
(* sent.                                                                   *)
LEMMA SendPosted ==
    ASSUME Stream!TypeOK, NEW kind \in Stream!Kinds, NEW n \in 0 .. Len(sent),
           Stream!Posted(strand_, n),
           sent' = Append(sent, kind), UNCHANGED <<strand_, handled>>
    PROVE  Stream!Posted(strand_, n)'
<1>1. Len(sent) \in Nat /\ DOMAIN sent = 1 .. Len(sent) /\ DOMAIN sent' = 1 .. Len(sent) + 1
  BY DEF Stream!TypeOK
<1>2. \A m \in 1 .. n : sent'[m] = sent[m] /\ Stream!makeMessage(m)' = Stream!makeMessage(m)
  BY <1>1 DEF Stream!TypeOK, Stream!makeMessage
<1>3. \A m \in Stream!Bound' : m <= n => m \in Stream!Bound  BY <1>1, <1>2 DEF Stream!Bound
<1>4. \A i \in DOMAIN strand_ :
          /\ strand_[i][1] \in 1 .. n
          /\ Stream!makeMessage(strand_[i][1])' = Stream!makeMessage(strand_[i][1])
  BY <1>2 DEF Stream!Posted
<1> QED  BY <1>3, <1>4 DEF Stream!Posted

LEMMA SendHandled ==
    ASSUME Stream!TypeOK, Stream!HandledAsSent, NEW kind \in Stream!Kinds,
           sent' = Append(sent, kind),
           UNCHANGED <<handled, mixed>>
    PROVE  Stream!HandledAsSent'
<1> SUFFICES ASSUME ~mixed, NEW i \in DOMAIN handled, handled[i] # Stream!Null
             PROVE  /\ handled[i] \in Stream!Bound'
                    /\ {handled[j] : j \in 1 .. i - 1} \ {Stream!Null}
                         = {n \in Stream!Bound' : n < handled[i]}
  BY DEF Stream!HandledAsSent
<1>1. /\ handled[i] \in Stream!Bound
      /\ {handled[j] : j \in 1 .. i - 1} \ {Stream!Null} = {n \in Stream!Bound : n < handled[i]}
  BY DEF Stream!HandledAsSent
<1>2. Len(sent) \in Nat /\ DOMAIN sent = 1 .. Len(sent) /\ DOMAIN sent' = 1 .. Len(sent) + 1
  BY DEF Stream!TypeOK
<1>3. \A m \in 1 .. Len(sent) : sent'[m] = sent[m]  BY <1>2 DEF Stream!TypeOK
<1>4. /\ Stream!Bound \subseteq Stream!Bound'
      /\ \A m \in Stream!Bound' : m < handled[i] => m \in Stream!Bound
  BY <1>1, <1>2, <1>3 DEF Stream!Bound
<1> QED  BY <1>1, <1>4

LEMMA SendUnwritten ==
    ASSUME Stream!TypeOK, NEW kind \in Stream!Kinds, Stream!send(kind), NEW n \in Nat,
           Stream!Unwritten(n)
    PROVE  Stream!Unwritten(n)'
<1>1. /\ Len(sent) \in Nat /\ Len(sent') = Len(sent) + 1 /\ Len(writing) \in Nat
      /\ DOMAIN writing = 1 .. Len(writing) /\ Len(sent) + 1 \in Stream!Ids
  BY SentBound DEF Stream!TypeOK, Stream!send, Stream!Ids
<1>2. /\ Stream!Pieces(Len(sent) + 1) # <<>> /\ Len(Stream!Pieces(Len(sent) + 1)) = 3
      /\ Stream!Follow(Stream!Pieces(Len(sent) + 1), 3 * (Len(sent) + 1 - 1))
  BY <1>1, PiecesFollow
<1>3. /\ Len(writing') = Len(writing) + 1 /\ DOMAIN writing' = 1 .. Len(writing) + 1
      /\ writing'[Len(writing) + 1] = Stream!Pieces(Len(sent) + 1)
      /\ \A j \in 1 .. Len(writing) : writing'[j] = writing[j]
  BY <1>1 DEF Stream!send, Stream!TypeOK
<1>4. \A j \in 0 .. Len(writing) : Stream!Written(j)' = Stream!Written(j)
  BY <1>1, <1>3 DEF Stream!Written
<1>5. \A j \in Nat : j = Len(writing) + 1 => Stream!Written(j)' = 3 * (Len(sent) + 1)
  BY <1>1, <1>3 DEF Stream!Written
<1>6. ASSUME NEW j \in DOMAIN writing'
      PROVE  /\ writing'[j] # <<>> /\ (j > 1 => Len(writing'[j]) = 3)
             /\ Stream!Follow(writing'[j], Stream!Written(j)' - Len(writing'[j]))
  <2>1. CASE j \in 1 .. Len(writing)  BY <1>1, <1>3, <1>4, <2>1 DEF Stream!Unwritten
  <2>2. CASE j = Len(writing) + 1
    <3>1. j \in Nat /\ Stream!Written(j)' = 3 * (Len(sent) + 1)  BY <1>1, <1>5, <2>2
    <3>2. writing'[j] = Stream!Pieces(Len(sent) + 1)  BY <1>3, <2>2
    <3>3. Len(writing'[j]) = 3 /\ writing'[j] # <<>>  BY <1>2, <3>2
    <3>4. 3 * (Len(sent) + 1) - 3 = 3 * (Len(sent) + 1 - 1)  BY <1>1
    <3>5. Stream!Follow(writing'[j], Stream!Written(j)' - Len(writing'[j]))
      BY <1>2, <3>1, <3>2, <3>3, <3>4
    <3> QED  BY <3>3, <3>5
  <2> QED  BY <1>3, <2>1, <2>2
<1>7. IF writing' = <<>> THEN n = Stream!Written(0)' ELSE n + Len(writing'[1]) = Stream!Written(1)'
  <2>1. writing' # <<>>  BY <1>1, <1>3
  <2>2. CASE writing = <<>>
    <3>1. Len(writing) = 0 /\ n = 3 * Len(sent)
      BY <1>1, <2>2 DEF Stream!Unwritten, Stream!Written
    <3>2. Stream!Written(1)' = 3 * (Len(sent) + 1) /\ writing'[1] = Stream!Pieces(Len(sent) + 1)
      BY <1>3, <1>5, <3>1
    <3>3. Len(writing'[1]) = 3  BY <1>2, <3>2
    <3>4. 3 * Len(sent) + 3 = 3 * (Len(sent) + 1)  BY <1>1
    <3> QED  BY <2>1, <3>1, <3>2, <3>3, <3>4
  <2>3. CASE writing # <<>>
    <3>1. 1 \in 1 .. Len(writing) /\ n + Len(writing[1]) = Stream!Written(1)
      BY <1>1, <2>3 DEF Stream!Unwritten, Stream!TypeOK
    <3> QED  BY <1>1, <1>3, <1>4, <2>1, <3>1
  <2> QED  BY <2>2, <2>3
<1>8. Len(writing') <= Len(sent')  BY <1>1, <1>3 DEF Stream!Unwritten
<1> QED  BY <1>6, <1>7, <1>8 DEF Stream!Unwritten, Stream!Follow

LEMMA SendKeeps ==
    ASSUME Stream!IInv, NEW kind \in Stream!Kinds, Stream!send(kind) PROVE Stream!IInv'
<1>0. Stream!TypeOK  BY DEF Stream!IInv
<1>1. Stream!TypeOK'
  <2>1. Len(sent) + 1 \in Stream!Ids
    BY <1>0, SentBound DEF Stream!TypeOK, Stream!send, Stream!Ids
  <2>2. Stream!Pieces(Len(sent) + 1) \in Seq(Stream!Piece)  BY <2>1, PiecesFollow
  <2>3. writing' \in Seq(Seq(Stream!Piece))  BY <1>0, <2>2 DEF Stream!TypeOK, Stream!send
  <2>4. sent' \in Seq(Stream!Kinds) /\ Len(sent') <= MaxSent
    BY <1>0, SentBound DEF Stream!TypeOK, Stream!send
  <2> QED  BY <1>0, <2>3, <2>4 DEF Stream!TypeOK, Stream!send
<1>2. Stream!HandledAsSent'  BY <1>0, SendHandled DEF Stream!IInv, Stream!send
<1>3. ASSUME ~mixed' PROVE \E n \in 0 .. Len(sent') : Stream!Consumed(n)'
  <2>1. PICK n \in 0 .. Len(sent) : Stream!Consumed(n)  BY <1>3 DEF Stream!IInv, Stream!send
  <2>2. n \in 0 .. Len(sent')  BY <1>0 DEF Stream!TypeOK, Stream!send
  <2>3. Stream!Posted(strand_, n)'
    BY <1>0, <2>1, SendPosted DEF Stream!Consumed, Stream!send
  <2>4. ASSUME reader = "reading"
        PROVE  Stream!Unwritten(3 * n + Len(readbuf_) + Len(wire))'
    <3>1. 3 * n + Len(readbuf_) + Len(wire) \in Nat  BY <1>0 DEF Stream!TypeOK
    <3>2. PICK x : x = 3 * n + Len(readbuf_) + Len(wire)  OBVIOUS
    <3>3. Stream!Unwritten(x)  BY <2>1, <2>4, <3>2 DEF Stream!Consumed
    <3>4. Stream!Unwritten(x)'  BY <1>0, <3>1, <3>2, <3>3, SendUnwritten
    <3> QED  BY <3>2, <3>4 DEF Stream!send
  <2>5. Stream!Consumed(n)'
    BY <2>1, <2>3, <2>4 DEF Stream!Consumed, Stream!send, Stream!Follow
  <2> QED  BY <2>2, <2>5
<1> QED  BY <1>1, <1>2, <1>3 DEF Stream!IInv

(* A write that is done makes room for the next; one that is not goes on    *)
(* alone, unless the pieces of two are mixed.                              *)
LEMMA WriteUnwritten ==
    ASSUME Stream!TypeOK, Stream!asyncWrite, ~mixed', NEW n \in Nat, Stream!Unwritten(n),
           Stream!Follow(wire, n - Len(wire)),
           Len(wire) <= n
    PROVE  \E k \in Nat : /\ Len(wire') = Len(wire) + k /\ Stream!Unwritten(n + k)'
                          /\ Stream!Follow(wire', n - Len(wire))
<1>1. PICK head : head = Head(writing)  OBVIOUS
<1>2. PICK k \in 1 .. Len(head) :
         LET rest == SubSeq(head, k + 1, Len(head))
         IN /\ wire' = wire \o SubSeq(head, 1, k)
            /\ writing' = IF rest = <<>> THEN Tail(writing) ELSE Append(Tail(writing), rest)
            /\ mixed' = (mixed \/ (rest # <<>> /\ Len(writing) > 1))
  BY <1>1 DEF Stream!asyncWrite
<1>3. PICK rest : rest = SubSeq(head, k + 1, Len(head))  OBVIOUS
<1>a. /\ writing \in Seq(Seq(Stream!Piece))
      /\ writing # <<>>
      /\ wire \in Seq(Stream!Piece)
      /\ Len(sent) \in Nat
  BY DEF Stream!TypeOK, Stream!asyncWrite
<1>b. /\ Len(writing) \in Nat /\ Len(writing) >= 1 /\ 1 \in DOMAIN writing
      /\ DOMAIN writing = 1 .. Len(writing)
  BY <1>a
<1>c. head = writing[1] /\ head \in Seq(Stream!Piece)  BY <1>1, <1>a, <1>b
<1>4. /\ writing # <<>> /\ Len(writing) \in Nat /\ Len(writing) >= 1 /\ 1 \in DOMAIN writing
      /\ DOMAIN writing = 1 .. Len(writing)
      /\ head = writing[1] /\ head \in Seq(Stream!Piece) /\ Len(head) \in Nat
      /\ Len(sent) \in Nat /\ Len(wire) \in Nat /\ wire \in Seq(Stream!Piece) /\ UNCHANGED sent
  BY <1>a, <1>b, <1>c DEF Stream!asyncWrite
<1>5. n + Len(head) = Stream!Written(1) /\ Stream!Follow(head, Stream!Written(1) - Len(head))
  BY <1>4 DEF Stream!Unwritten
<1>6. Stream!Written(1) \in Nat  BY <1>4 DEF Stream!Written, Stream!Unwritten
<1>7. Stream!Written(1) - Len(head) = n  BY <1>4, <1>5, <1>6
<1>8. /\ SubSeq(head, 1, k) \in Seq(Stream!Piece) /\ Len(SubSeq(head, 1, k)) = k
      /\ Stream!Follow(SubSeq(head, 1, k), n)
      /\ rest \in Seq(Stream!Piece) /\ Len(rest) = Len(head) - k /\ Stream!Follow(rest, n + k)
  <2>1. k \in 0 .. Len(head) /\ Stream!Follow(head, n)  BY <1>4, <1>5, <1>7
  <2> QED  BY <1>3, <1>4, <2>1, FollowCut
<1>9. Len(wire') = Len(wire) + k /\ Stream!Follow(wire', n - Len(wire))
  <2>1. n - Len(wire) \in Nat /\ n - Len(wire) + Len(wire) = n  BY <1>4
  <2> QED  BY <1>2, <1>4, <1>8, <2>1, FollowJoin
<1>10. CASE rest = <<>>
  <2>1. k = Len(head)  BY <1>4, <1>8, <1>10
  <2>2. /\ Len(writing') = Len(writing) - 1 /\ DOMAIN writing' = 1 .. Len(writing) - 1
        /\ \A j \in 1 .. Len(writing) - 1 : writing'[j] = writing[j + 1]
    <3>1. writing' = Tail(writing)  BY <1>2, <1>3, <1>10
    <3> QED  BY <1>a, <1>b, <3>1
  <2>3. \A j \in Nat : Stream!Written(j)' = Stream!Written(j + 1)
    BY <1>4, <2>2 DEF Stream!Written
  <2>4. ASSUME NEW j \in DOMAIN writing'
        PROVE  /\ writing'[j] # <<>> /\ Len(writing'[j]) = 3
               /\ Stream!Follow(writing'[j], Stream!Written(j)' - Len(writing'[j]))
    <3>1. j \in Nat /\ j + 1 \in DOMAIN writing /\ j + 1 > 1 /\ writing'[j] = writing[j + 1]
      BY <1>4, <2>2, <2>4
    <3> QED  BY <2>3, <3>1 DEF Stream!Unwritten
  <2>5. IF writing' = <<>> THEN n + k = Stream!Written(0)'
                           ELSE n + k + Len(writing'[1]) = Stream!Written(1)'
    <3>1. /\ n + k = Stream!Written(1)
          /\ Stream!Written(0)' = Stream!Written(1)
          /\ Stream!Written(1)' = Stream!Written(2)
      BY <1>5, <2>1, <2>3
    <3>2. Stream!Written(2) = Stream!Written(1) + 3  BY <1>4 DEF Stream!Written
    <3>3. CASE writing' = <<>>  BY <3>1, <3>3
    <3>4. CASE writing' # <<>>
      <4>1. 1 \in DOMAIN writing'  BY <1>4, <2>2, <3>4
      <4> QED  BY <1>6, <2>4, <3>1, <3>2, <3>4, <4>1
    <3> QED  BY <3>3, <3>4
  <2>6. Len(writing') <= Len(sent)  BY <1>4, <2>2 DEF Stream!Unwritten
  <2>7. Stream!Unwritten(n + k)'
    BY <1>4, <2>4, <2>5, <2>6 DEF Stream!Unwritten, Stream!Follow
  <2> QED  BY <1>9, <2>7
<1>11. CASE rest # <<>>
  <2>1. Len(writing) = 1
    <3>1. ~(Len(writing) > 1)  BY <1>2, <1>3, <1>11, Zenon
    <3> QED  BY <1>b, <3>1
  <2>2. writing' = <<rest>>
    <3>1. Tail(writing) \in Seq(Seq(Stream!Piece)) /\ Len(Tail(writing)) = 0
      BY <1>a, <1>b, <2>1
    <3>2. Tail(writing) = <<>>
      <4>1. PICK s \in Seq(Seq(Stream!Piece)) : s = Tail(writing)  BY <3>1
      <4>2. Len(s) = 0  BY <3>1, <4>1
      <4>3. s = <<>>  BY <4>2
      <4> QED  BY <4>1, <4>3
    <3>3. writing' = Append(Tail(writing), rest)  BY <1>2, <1>3, <1>11
    <3>4. Append(<<>>, rest) = <<rest>>  BY <1>8
    <3> QED  BY <3>2, <3>3, <3>4
  <2>3. Len(writing') = 1 /\ writing'[1] = rest /\ DOMAIN writing' = {1} /\ writing' # <<>>
    BY <2>2
  <2>4. Stream!Written(1)' = Stream!Written(1)  BY <1>4, <2>1, <2>3 DEF Stream!Written
  <2>5. Stream!Written(1) - Len(rest) = n + k /\ n + k + Len(rest) = Stream!Written(1)
    BY <1>4, <1>5, <1>6, <1>8
  <2>6. Stream!Follow(rest, Stream!Written(1)' - Len(rest))  BY <1>8, <2>4, <2>5
  <2>7. Len(writing') <= Len(sent')  BY <1>4, <2>1, <2>3 DEF Stream!Unwritten
  <2>8. Stream!Unwritten(n + k)'
    BY <1>11, <2>3, <2>4, <2>5, <2>6, <2>7 DEF Stream!Unwritten, Stream!Follow
  <2> QED  BY <1>9, <2>8
<1> QED  BY <1>10, <1>11

LEMMA WriteKeeps == ASSUME Stream!IInv, Stream!asyncWrite PROVE Stream!IInv'
<1>0. Stream!TypeOK  BY DEF Stream!IInv
<1>1. Stream!TypeOK'
  <2>1. PICK head : head = Head(writing)  OBVIOUS
  <2>2. PICK k \in 1 .. Len(head) :
           LET rest == SubSeq(head, k + 1, Len(head))
           IN /\ wire' = wire \o SubSeq(head, 1, k)
              /\ writing' = IF rest = <<>> THEN Tail(writing) ELSE Append(Tail(writing), rest)
              /\ mixed' = (mixed \/ (rest # <<>> /\ Len(writing) > 1))
    BY <2>1 DEF Stream!asyncWrite
  <2>3. /\ head \in Seq(Stream!Piece)
        /\ Tail(writing) \in Seq(Seq(Stream!Piece))
        /\ wire \in Seq(Stream!Piece)
    BY <1>0, <2>1 DEF Stream!TypeOK, Stream!asyncWrite
  <2>4. /\ SubSeq(head, 1, k) \in Seq(Stream!Piece)
        /\ SubSeq(head, k + 1, Len(head)) \in Seq(Stream!Piece)
    BY <2>3
  <2>5. wire' \in Seq(Stream!Piece) /\ writing' \in Seq(Seq(Stream!Piece)) /\ mixed' \in BOOLEAN
    BY <1>0, <2>2, <2>3, <2>4 DEF Stream!TypeOK
  <2> QED  BY <1>0, <2>5 DEF Stream!TypeOK, Stream!asyncWrite
<1>2. mixed => mixed'  BY <1>0 DEF Stream!asyncWrite
<1>3. Stream!HandledAsSent'
  BY <1>2 DEF Stream!IInv, Stream!HandledAsSent, Stream!Bound, Stream!asyncWrite
<1>4. ASSUME ~mixed' PROVE \E n \in 0 .. Len(sent') : Stream!Consumed(n)'
  <2>1. PICK n \in 0 .. Len(sent) : Stream!Consumed(n)  BY <1>2, <1>4 DEF Stream!IInv
  <2>2. n \in 0 .. Len(sent')  BY DEF Stream!asyncWrite
  <2>3. Stream!Posted(strand_, n)'
    BY <2>1 DEF Stream!Consumed, Stream!Posted, Stream!Bound, Stream!makeMessage,
                Stream!asyncWrite
  <2>4. ASSUME reader = "reading"
        PROVE  /\ Stream!Follow(wire, 3 * n + Len(readbuf_))'
               /\ Stream!Unwritten(3 * n + Len(readbuf_) + Len(wire))'
    <3>1. PICK x : x = 3 * n + Len(readbuf_) + Len(wire)  OBVIOUS
    <3>2. /\ x \in Nat /\ 3 * n + Len(readbuf_) = x - Len(wire) /\ Len(wire) <= x
          /\ Len(wire) \in Nat
      BY <1>0, <3>1 DEF Stream!TypeOK
    <3>3. Stream!Unwritten(x) /\ Stream!Follow(wire, x - Len(wire))
      BY <2>1, <2>4, <3>1, <3>2 DEF Stream!Consumed
    <3>4. PICK k \in Nat : /\ Len(wire') = Len(wire) + k /\ Stream!Unwritten(x + k)'
                           /\ Stream!Follow(wire', x - Len(wire))
      BY <1>0, <1>4, <3>2, <3>3, WriteUnwritten
    <3>5. PICK y : y = x + k  OBVIOUS
    <3>6. UNCHANGED readbuf_  BY DEF Stream!asyncWrite
    <3>7. y = 3 * n + Len(readbuf_') + Len(wire') /\ x - Len(wire) = 3 * n + Len(readbuf_')
      BY <3>1, <3>2, <3>4, <3>5, <3>6
    <3>8. Stream!Unwritten(y)'  BY <3>4, <3>5
    <3> QED  BY <3>4, <3>7, <3>8 DEF Stream!Follow
  <2>5. Stream!Consumed(n)'
    BY <2>1, <2>3, <2>4 DEF Stream!Consumed, Stream!asyncWrite, Stream!Follow
  <2> QED  BY <2>2, <2>5
<1> QED  BY <1>1, <1>3, <1>4 DEF Stream!IInv

(* There are no more pieces than were sent. *)
LEMMA UnwrittenBound ==
    ASSUME Stream!TypeOK, NEW n \in Nat, Stream!Unwritten(n)
    PROVE  n <= 3 * Len(sent)
<1>1. writing \in Seq(Seq(Stream!Piece)) /\ Len(sent) \in Nat /\ Len(writing) \in Nat
  BY DEF Stream!TypeOK
<1>2. CASE writing = <<>>
  <2>1. Len(writing) = 0 /\ n = Stream!Written(0)  BY <1>2 DEF Stream!Unwritten
  <2> QED  BY <1>1, <2>1 DEF Stream!Written
<1>3. CASE writing # <<>>
  <2>1. Len(writing) >= 1 /\ writing[1] \in Seq(Stream!Piece)  BY <1>1, <1>3
  <2>2. Len(writing[1]) \in Nat  BY <2>1
  <2>3. n + Len(writing[1]) = Stream!Written(1)  BY <1>3 DEF Stream!Unwritten
  <2>4. Stream!Written(1) <= 3 * Len(sent) /\ Stream!Written(1) \in Int
    BY <1>1, <2>1 DEF Stream!Written
  <2> QED  BY <2>2, <2>3, <2>4
<1> QED  BY <1>2, <1>3

LEMMA ReadKeeps == ASSUME Stream!IInv, Stream!handle_read PROVE Stream!IInv'
<1>0. Stream!TypeOK /\ ~mixed /\ reader = "reading" /\ UNCHANGED <<sent, writing, handled, mixed>>
  BY DEF Stream!IInv, Stream!handle_read
<1>1. PICK k \in 1 .. Len(wire) :
         LET o == Stream!readMessages(readbuf_ \o SubSeq(wire, 1, k), strand_)
         IN  /\ wire' = SubSeq(wire, k + 1, Len(wire)) /\ readbuf_' = o.buf
             /\ strand_' = o.posted /\ reader' = o.end
  BY DEF Stream!handle_read
<1>2. PICK buf : buf = readbuf_ \o SubSeq(wire, 1, k)  OBVIOUS
<1>3. PICK o : o = Stream!readMessages(buf, strand_)  OBVIOUS
<1>4. /\ wire' = SubSeq(wire, k + 1, Len(wire)) /\ readbuf_' = o.buf
      /\ strand_' = o.posted /\ reader' = o.end
  BY <1>1, <1>2, <1>3
<1>5. PICK n \in 0 .. Len(sent) : Stream!Consumed(n)  BY <1>0 DEF Stream!IInv
<1>6. PICK here : here = 3 * n + Len(readbuf_)  OBVIOUS
<1>7. /\ readbuf_ \in Seq(Stream!Piece) /\ wire \in Seq(Stream!Piece) /\ Len(sent) \in Nat
      /\ Len(readbuf_) \in Nat /\ Len(wire) \in Nat /\ here \in Nat /\ n \in Nat /\ 3 * n \in Nat
  BY <1>0, <1>6 DEF Stream!TypeOK
<1>8. /\ Stream!Follow(readbuf_, 3 * n)
      /\ Stream!Follow(wire, here)
      /\ Stream!Unwritten(here + Len(wire))
      /\ Stream!Posted(strand_, n)
  BY <1>0, <1>5, <1>6 DEF Stream!Consumed
<1>9. /\ SubSeq(wire, 1, k) \in Seq(Stream!Piece) /\ Len(SubSeq(wire, 1, k)) = k
      /\ wire' \in Seq(Stream!Piece) /\ Len(wire') = Len(wire) - k
      /\ Stream!Follow(SubSeq(wire, 1, k), here) /\ Stream!Follow(wire', here + k)
  <2>1. k \in 0 .. Len(wire)  BY <1>7
  <2> QED  BY <1>4, <1>7, <1>8, <2>1, FollowCut
<1>10. buf \in Seq(Stream!Piece) /\ Len(buf) = Len(readbuf_) + k /\ Stream!Follow(buf, 3 * n)
  BY <1>2, <1>6, <1>7, <1>8, <1>9, FollowJoin
<1>11. here + k \in Nat /\ here + k <= 3 * Len(sent)
  <2>1. here + Len(wire) \in Nat  BY <1>7
  <2>2. here + Len(wire) <= 3 * Len(sent)  BY <1>0, <1>8, <2>1, UnwrittenBound
  <2> QED  BY <1>7, <2>2
<1>12. Reads(Stream!Outcome(buf, strand_, "reading"), here + k)
  <2>1. PICK p : p = Stream!Outcome(buf, strand_, "reading")  OBVIOUS
  <2>2. p.buf = buf /\ p.posted = strand_ /\ p.end = "reading"  BY <2>1 DEF Stream!Outcome
  <2>3. 3 * n + Len(buf) = here + k  BY <1>6, <1>7, <1>10
  <2>4. strand_ \in Seq(Made)  BY <1>0 DEF Stream!TypeOK, Made
  <2>5. Reads(p, here + k)  BY <1>8, <1>10, <2>1, <2>2, <2>3, <2>4 DEF Reads
  <2> QED  BY <2>1, <2>5
<1>13. Reads(o, here + k)  BY <1>0, <1>3, <1>10, <1>11, <1>12, LoopReads
<1>14. PICK m \in 0 .. Len(sent) :
         /\ o.buf \in Seq(Stream!Piece)
         /\ Stream!Follow(o.buf, 3 * m)
         /\ 3 * m + Len(o.buf) = here + k
         /\ o.posted \in Seq(Made) /\ Stream!Posted(o.posted, m)
         /\ o.end \in {"reading", "spinning", "closed"}
  BY <1>13 DEF Reads
<1>15. Stream!TypeOK'
  BY <1>0, <1>4, <1>9, <1>14 DEF Stream!TypeOK, Made, Stream!handle_read
<1>16. Stream!HandledAsSent'  BY <1>0 DEF Stream!IInv, Stream!HandledAsSent, Stream!Bound
<1>17. Stream!Consumed(m)'
  <2>1. Stream!Posted(strand_, m)'
    BY <1>0, <1>4, <1>14 DEF Stream!Posted, Stream!Bound, Stream!makeMessage
  <2>2. Stream!Follow(readbuf_', 3 * m) /\ 3 * m + Len(readbuf_') = here + k  BY <1>4, <1>14
  <2>3. Stream!Follow(wire', 3 * m + Len(readbuf_'))  BY <1>9, <2>2
  <2>4. 3 * m + Len(readbuf_') + Len(wire') = here + Len(wire)
    <3>1. Len(readbuf_') \in Nat /\ Len(wire') \in Nat /\ m \in Nat
      BY <1>4, <1>7, <1>9, <1>14
    <3>2. k \in Nat  BY <1>7
    <3>3. PICK l, r : l = Len(wire) /\ r = Len(wire')  OBVIOUS
    <3>4. l \in Nat /\ r = l - k  BY <1>7, <1>9, <3>3
    <3>5. here + k + r = here + l  BY <1>7, <3>2, <3>4
    <3> QED  BY <2>2, <3>3, <3>5
  <2>5. Stream!Unwritten(3 * m + Len(readbuf_) + Len(wire))'
    BY <1>0, <1>8, <2>4 DEF Stream!Unwritten, Stream!Written, Stream!Follow
  <2> QED  BY <2>1, <2>2, <2>3, <2>5 DEF Stream!Consumed, Stream!Follow
<1> QED  BY <1>0, <1>14, <1>15, <1>16, <1>17 DEF Stream!IInv

LEMMA MixedKeeps == ASSUME Stream!IInv, Stream!handle_read_mixed PROVE Stream!IInv'
BY DEF Stream!IInv, Stream!handle_read_mixed, Stream!TypeOK, Stream!HandledAsSent

(* The first message of the strand comes after all that were handled, and   *)
(* every one of a bound type before it was.                                *)
LEMMA DispatchKeeps == ASSUME Stream!IInv, Stream!dispatch PROVE Stream!IInv'
<1>0. Stream!TypeOK /\ UNCHANGED <<receiver, sent, writing, wire, readbuf_, reader, mixed>>
  BY DEF Stream!IInv, Stream!dispatch
<1>1. PICK first : first = Head(strand_)  OBVIOUS
<1>2. PICK n : n = first[1]  OBVIOUS
<1>3. /\ strand_ \in Seq(Made) /\ strand_ # <<>> /\ strand_' = Tail(strand_)
      /\ Len(strand_) \in Nat /\ Len(strand_) >= 1 /\ 1 \in DOMAIN strand_
  BY <1>0 DEF Stream!TypeOK, Made, Stream!dispatch
<1>4. first = strand_[1] /\ first \in Made /\ n \in Stream!Ids /\ n \in Nat /\ n > 0
  BY <1>1, <1>2, <1>3, SentBound DEF Made, Stream!Ids
<1>5. /\ strand_' \in Seq(Made) /\ DOMAIN strand_' = 1 .. Len(strand_) - 1
      /\ \A i \in 1 .. Len(strand_) - 1 : strand_'[i] = strand_[i + 1]
  BY <1>3
<1>6. /\ sent[n] = "bound" /\ first[2] # "null" => handled' = Append(handled, n)
      /\ first[2] = "null" => handled' = handled \/ handled' = Append(handled, Stream!Null)
      /\ \E called \in {n, Stream!Null} : handled' = handled \/ handled' = Append(handled, called)
  <2>1. handled' = IF sent[n] \in {"unbound", "oversize"} THEN handled
                   ELSE Append(handled, IF first[2] = "null" THEN Stream!Null ELSE n)
    BY <1>1, <1>2 DEF Stream!dispatch, Stream!process
  <2> QED  BY <2>1
<1>7. /\ handled \in Seq(Stream!Ids \cup {Stream!Null}) /\ Len(handled) \in Nat
      /\ DOMAIN handled = 1 .. Len(handled)
  BY <1>0 DEF Stream!TypeOK
<1>8. Stream!TypeOK'
  <2>1. PICK called \in Stream!Ids \cup {Stream!Null} :
            handled' = handled \/ handled' = Append(handled, called)
    BY <1>4, <1>6
  <2>2. handled' \in Seq(Stream!Ids \cup {Stream!Null})  BY <1>7, <2>1
  <2> QED  BY <1>0, <1>5, <2>2 DEF Stream!TypeOK, Made
<1>9. ASSUME ~mixed PROVE Stream!HandledAsSent' /\ \E m \in 0 .. Len(sent') : Stream!Consumed(m)'
  <2>1. PICK m \in 0 .. Len(sent) : Stream!Consumed(m)  BY <1>9 DEF Stream!IInv
  <2>2. m \in Nat /\ m <= Len(sent) /\ Len(sent) \in Nat /\ DOMAIN sent = 1 .. Len(sent)
    BY <1>0 DEF Stream!TypeOK
  <2>3. /\ n \in 1 .. m /\ first = Stream!makeMessage(n)
        /\ \A j \in DOMAIN strand_ : 1 < j => n < strand_[j][1]
        /\ \A j \in DOMAIN handled : handled[j] < n
    BY <1>2, <1>3, <1>4, <2>1 DEF Stream!Consumed, Stream!Posted
  <2>4. first[2] # "null" <=> n \in Stream!Bound
    BY <2>2, <2>3 DEF Stream!makeMessage, Stream!Bound
  <2>5. /\ n \in Stream!Bound => handled' = Append(handled, n)
        /\ n \notin Stream!Bound => handled' = handled \/ handled' = Append(handled, Stream!Null)
    BY <1>6, <2>4 DEF Stream!Bound
  <2>6. \A i \in DOMAIN handled : /\ handled[i] \in Nat
                                  /\ i \in DOMAIN handled' /\ handled'[i] = handled[i]
    BY <1>6, <1>7, SentBound DEF Stream!Ids, Stream!Null
  <2>7. ASSUME NEW i \in DOMAIN handled', i \notin DOMAIN handled
        PROVE  /\ i = Len(handled) + 1 /\ handled' = Append(handled, handled'[i])
               /\ handled'[i] = Stream!Null \/ (handled'[i] = n /\ n \in Stream!Bound)
    BY <1>7, <2>5, <2>7
  <2>8. \A x \in Stream!Bound : x < n => \E j \in DOMAIN handled : handled[j] = x
    <3> SUFFICES ASSUME NEW x \in Stream!Bound, x < n, NEW j \in DOMAIN strand_, strand_[j][1] = x
                 PROVE  FALSE
      BY <2>1, <2>2, <2>3 DEF Stream!Consumed, Stream!Posted, Stream!Bound
    <3>1. x \in Nat  BY <2>2 DEF Stream!Bound
    <3>2. j = 1 \/ 1 < j  BY <1>3
    <3>3. CASE j = 1
      <4>1. x = n  BY <1>2, <1>4, <3>3
      <4> QED  BY <1>4, <4>1
    <3>4. CASE 1 < j  BY <1>4, <2>3, <3>1, <3>4
    <3> QED  BY <3>2, <3>3, <3>4
  <2>9. Stream!HandledAsSent'
    <3> SUFFICES ASSUME NEW i \in DOMAIN handled', handled'[i] # Stream!Null
                 PROVE  /\ handled'[i] \in Stream!Bound
                        /\ {handled'[j] : j \in 1 .. i - 1} \ {Stream!Null}
                             = {x \in Stream!Bound : x < handled'[i]}
      BY <1>0 DEF Stream!HandledAsSent, Stream!Bound
    <3>1. CASE i \in DOMAIN handled
      <4>1. \A j \in 1 .. i - 1 : j \in DOMAIN handled /\ handled'[j] = handled[j]
        BY <1>7, <2>6, <3>1
      <4>2. {handled'[j] : j \in 1 .. i - 1} = {handled[j] : j \in 1 .. i - 1}  BY <4>1
      <4> QED  BY <1>9, <2>6, <3>1, <4>2 DEF Stream!IInv, Stream!HandledAsSent
    <3>2. CASE i \notin DOMAIN handled
      <4>1. i = Len(handled) + 1 /\ handled'[i] = n /\ n \in Stream!Bound  BY <2>7, <3>2
      <4>2. 1 .. i - 1 = DOMAIN handled  BY <1>7, <4>1
      <4>3. ASSUME NEW j \in DOMAIN handled, handled[j] # Stream!Null
            PROVE  handled[j] \in Stream!Bound /\ handled[j] < n
        BY <1>9, <2>3, <4>3 DEF Stream!IInv, Stream!HandledAsSent
      <4>4. {handled'[j] : j \in 1 .. i - 1} = {handled[j] : j \in DOMAIN handled}
        BY <2>6, <4>2
      <4>5. \A x \in Stream!Bound : x # Stream!Null  BY <2>2 DEF Stream!Bound, Stream!Null
      <4>6. {handled[j] : j \in DOMAIN handled} \ {Stream!Null} = {x \in Stream!Bound : x < n}
        BY <2>8, <4>3, <4>5
      <4> QED  BY <4>1, <4>4, <4>6
    <3> QED  BY <3>1, <3>2
  <2>10. Stream!Posted(strand_, m)'
    <3>1. ASSUME NEW i \in DOMAIN strand_'
          PROVE  /\ strand_'[i][1] \in 1 .. m /\ strand_'[i] = Stream!makeMessage(strand_'[i][1])
                 /\ \A j \in DOMAIN strand_' : i < j => strand_'[i][1] < strand_'[j][1]
                 /\ n < strand_'[i][1]
                 /\ \A j \in DOMAIN handled : handled[j] < strand_'[i][1]
      <4>1. /\ i + 1 \in DOMAIN strand_ /\ 1 < i + 1 /\ strand_'[i] = strand_[i + 1] /\ i \in Nat
        BY <1>3, <1>5, <3>1
      <4>2. ASSUME NEW j \in DOMAIN strand_', i < j PROVE strand_'[i][1] < strand_'[j][1]
        <5>1. j + 1 \in DOMAIN strand_ /\ i + 1 < j + 1 /\ strand_'[j] = strand_[j + 1]
          BY <1>3, <1>5, <4>1, <4>2
        <5> QED  BY <2>1, <4>1, <5>1 DEF Stream!Consumed, Stream!Posted
      <4> QED  BY <2>1, <2>3, <4>1, <4>2 DEF Stream!Consumed, Stream!Posted
    <3>2. ASSUME NEW i \in DOMAIN strand_', NEW j \in DOMAIN handled'
          PROVE  handled'[j] < strand_'[i][1]
      <4>1. n < strand_'[i][1] /\ strand_'[i][1] \in 1 .. m  BY <3>1
      <4>2. CASE j \in DOMAIN handled  BY <2>6, <3>1, <4>2
      <4>3. CASE j \notin DOMAIN handled
        <5>1. handled'[j] = Stream!Null \/ handled'[j] = n  BY <2>7, <4>3
        <5> QED  BY <2>2, <4>1, <5>1 DEF Stream!Null
      <4> QED  BY <4>2, <4>3
    <3>3. ASSUME NEW j \in DOMAIN handled', handled'[j] # Stream!Null PROVE handled'[j] <= m
      <4>1. CASE j \in DOMAIN handled
        BY <2>1, <2>6, <3>3, <4>1 DEF Stream!Consumed, Stream!Posted
      <4>2. CASE j \notin DOMAIN handled  BY <2>2, <2>3, <2>7, <3>3, <4>2
      <4> QED  BY <4>1, <4>2
    <3>4. ASSUME NEW x \in Stream!Bound, x <= m
          PROVE  \/ \E i \in DOMAIN handled' : handled'[i] = x
                 \/ \E i \in DOMAIN strand_' : strand_'[i][1] = x
      <4>1. CASE \E i \in DOMAIN handled : handled[i] = x  BY <2>6, <4>1
      <4>2. ASSUME NEW i \in DOMAIN strand_, strand_[i][1] = x, i # 1
            PROVE  \E j \in DOMAIN strand_' : strand_'[j][1] = x
        <5>1. i - 1 \in DOMAIN strand_' /\ strand_'[i - 1] = strand_[i]
          BY <1>3, <1>5, <4>2
        <5> QED  BY <4>2, <5>1
      <4>3. CASE strand_[1][1] = x
        <5>1. x = n /\ handled' = Append(handled, n)  BY <1>2, <1>4, <2>5, <4>3
        <5>2. Len(handled) + 1 \in DOMAIN handled' /\ handled'[Len(handled) + 1] = x
          BY <1>7, <5>1
        <5> QED  BY <5>2
      <4> QED  BY <2>1, <3>4, <4>1, <4>2, <4>3 DEF Stream!Consumed, Stream!Posted
    <3> QED
      BY <1>0, <3>1, <3>2, <3>3, <3>4 DEF Stream!Posted, Stream!Bound, Stream!makeMessage
  <2>11. Stream!Consumed(m)'
    BY <1>0, <2>1, <2>10
       DEF Stream!Consumed, Stream!Unwritten, Stream!Written, Stream!Follow
  <2> QED  BY <1>0, <2>9, <2>11
<1> QED  BY <1>0, <1>8, <1>9 DEF Stream!IInv, Stream!HandledAsSent

LEMMA StreamInvariance == StreamSpec => []Stream!IInv
<1>1. Init /\ Stream!Init => Stream!IInv  BY StreamInit
<1>2. Stream!IInv /\ [StreamStep]_processvars => Stream!IInv'
  <2> SUFFICES ASSUME Stream!IInv, [Stream!Next]_streamvars PROVE Stream!IInv'
    BY DEF StreamStep, processvars
  <2>1. CASE UNCHANGED streamvars
    <3>1. Stream!TypeOK'  BY <2>1 DEF streamvars, Stream!IInv, Stream!TypeOK
    <3>2. Stream!HandledAsSent'
      BY <2>1 DEF streamvars, Stream!IInv, Stream!HandledAsSent, Stream!Bound
    <3>3. ASSUME NEW n \in 0 .. Len(sent), Stream!Consumed(n) PROVE Stream!Consumed(n)'
      BY <2>1, <3>3 DEF streamvars, Stream!Consumed, Stream!Posted, Stream!Bound,
                        Stream!Unwritten, Stream!Written, Stream!Follow, Stream!makeMessage
    <3>4. ~mixed' => \E n \in 0 .. Len(sent') : Stream!Consumed(n)'
      BY <2>1, <3>3 DEF streamvars, Stream!IInv
    <3> QED  BY <3>1, <3>2, <3>4 DEF Stream!IInv
  <2> QED
    BY <2>1, SendKeeps, WriteKeeps, ReadKeeps, MixedKeeps, DispatchKeeps DEF Stream!Next
<1> QED  BY <1>1, <1>2, PTL DEF StreamSpec

(***************************************************************************)
(* The types of Connection's buffer, its strand and what is on the wire.   *)
(***************************************************************************)
THEOREM StreamTypeCorrect == StreamSpec => []Stream!TypeOK
<1>1. Stream!IInv => Stream!TypeOK  BY DEF Stream!IInv
<1> QED  BY <1>1, StreamInvariance, PTL

(***************************************************************************)
(* Wherever async_read_some() cuts the bytes, readMessages() hands each    *)
(* message of a bound type over whole, once and in the order of send(),    *)
(* and the strand keeps that order: any number of messages, of writes in   *)
(* progress and of rounds of the loop.                                     *)
(***************************************************************************)
THEOREM HandledOnceInOrder == StreamSpec => []HandledAsSent
<1>1. Stream!IInv => HandledAsSent  BY DEF Stream!IInv, HandledAsSent
<1> QED  BY <1>1, StreamInvariance, PTL

=============================================================================
