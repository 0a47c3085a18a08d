-------------------------- MODULE PomeloClientProofs --------------------------
(***************************************************************************)
(* Theorems about PomeloClient, for any number of requests, notifies and   *)
(* connections, and with or without reconnection.                          *)
(***************************************************************************)
EXTENDS PomeloClient, TLAPS

\* the client's transport follows the state, and is the one that works
LinkInv ==
  /\ wpc \in {"connected", "handshake"} => transport \in Conns
  /\ wpc = "connected" => \A c \in Conns : tp[c] # "working"
  /\ wpc = "retry" => transport = None /\ conn < ConnMax
  /\ state = "working" => transport \in Conns
  /\ state \in {"inited", "connecting"} /\ wpc # "connected" => transport = None
  /\ upc = "start" => wpc = "none" /\ state = "inited"

\* the parts of TypeOK
FlagTypeOK == reconnecting \in BOOLEAN /\ repeat \in BOOLEAN /\ open \in BOOLEAN /\ wake \in BOOLEAN

ControlTypeOK ==
  /\ state \in States /\ armed \subseteq Timers
  /\ upc \in UserPCs /\ arg \in Calls \cup {None}
  /\ wpc \in WorkerPCs /\ cb \in Conns \cup {None}
  /\ proc \in {"up", "segfault"}

LinkTypeOK ==
  /\ transport \in Conns \cup {None}
  /\ tp \in [Conns -> {"none", "connecting", "working", "closed", "freed"}]
  /\ tcp \subseteq Conns /\ shaken \subseteq Conns
  /\ writes \subseteq Conns \X {"handshake", "ack", "heartbeat"}

ConnectTypeOK ==
  /\ conn \in 0..ConnMax /\ conn_req \in Conns \cup {None}
  /\ told \in [Conns -> Seq(Statuses)]
  /\ api \in Apis \cup {"none"}

AskTypeOK ==
  /\ phase \in [Calls -> Phases]
  /\ via \in [Calls -> Conns \cup {None}]
  /\ requests \subseteq Requests
  /\ answers \in [Calls -> Seq(Statuses)]

\* TypeOK is the conjunction of its parts, now and after a step
LEMMA TypeParts ==
  /\ TypeOK <=> FlagTypeOK /\ ControlTypeOK /\ LinkTypeOK /\ ConnectTypeOK /\ AskTypeOK
  /\ TypeOK' <=> FlagTypeOK' /\ ControlTypeOK' /\ LinkTypeOK' /\ ConnectTypeOK' /\ AskTypeOK'
  BY DEF TypeOK, FlagTypeOK, ControlTypeOK, LinkTypeOK, ConnectTypeOK, AskTypeOK

\* the invariant the other ones rest on
IInv == TypeOK /\ LinkInv /\ OneConnection

\* the initial state has the types of TypeOK
LEMMA InitType == Init => TypeOK
<1> SUFFICES ASSUME Init PROVE TypeOK
  OBVIOUS
<1> USE DEF Init
<1>1. told \in [Conns -> Seq(Statuses)] /\ answers \in [Calls -> Seq(Statuses)]
  <2>1. <<>> \in Seq(Statuses)
    OBVIOUS
  <2> QED
    BY ONLY <2>1, Init DEF Init
<1>2. /\ state \in States /\ upc \in UserPCs /\ wpc \in WorkerPCs
      /\ phase \in [Calls -> Phases]
  BY DEF States, UserPCs, WorkerPCs, Phases
<1>3. conn \in 0..ConnMax
  BY ClientAssumption
<1> QED
  BY <1>1, <1>2, <1>3 DEF TypeOK

\* initially there is no transport
LEMMA InitLink == Init => LinkInv /\ OneConnection
  BY DEF Init, LinkInv, OneConnection

\* the callbacks of calls take the statuses they are given
LEMMA AnswerType ==
  ASSUME TypeOK, NEW X, NEW status \in Statuses, Answer(X, status)
  PROVE  answers' \in [Calls -> Seq(Statuses)]
<1>1. \A x \in Calls : answers[x] \in Seq(Statuses)
  BY DEF TypeOK
<1>2. \A x \in Calls : Append(answers[x], status) \in Seq(Statuses)
  BY <1>1
<1> QED
  BY <1>1, <1>2 DEF Answer

\* so do those of connect requests
LEMMA TellType ==
  ASSUME TypeOK, NEW c, NEW status \in Statuses, Tell(c, status)
  PROVE  told' \in [Conns -> Seq(Statuses)]
<1>1. \A d \in Conns : told[d] \in Seq(Statuses)
  BY DEF TypeOK
<1>2. \A d \in Conns : Append(told[d], status) \in Seq(Statuses)
  BY <1>1
<1> QED
  BY <1>1, <1>2 DEF Tell, TypeOK

\* an attempt to connect is recorded as one of the connections
LEMMA BeginConnectType ==
  ASSUME TypeOK, NEW c \in Conns, NEW ok, BeginConnect(c, ok)
  PROVE  /\ conn' \in 0..ConnMax /\ conn_req' \in Conns
         /\ tp' \in [Conns -> {"none", "connecting", "working", "closed", "freed"}]
         /\ tcp' \subseteq Conns
<1>1. conn' \in 0..ConnMax /\ conn_req' \in Conns
  BY ClientAssumption DEF BeginConnect, Conns
<1>2. tp' \in [Conns -> {"none", "connecting", "working", "closed", "freed"}]
  <2>1. tp \in [Conns -> {"none", "connecting", "working", "closed", "freed"}]
    BY DEF TypeOK
  <2>2. CASE ok
    BY ONLY <2>1, <2>2, BeginConnect(c, ok) DEF BeginConnect
  <2>3. CASE ~ok
    BY ONLY <2>1, <2>3, BeginConnect(c, ok) DEF BeginConnect
  <2> QED
    BY <2>2, <2>3
<1>3. tcp' \subseteq Conns
  BY DEF BeginConnect, TypeOK
<1> QED
  BY <1>1, <1>2, <1>3

(* A type-correct state has type-correct successors. *)
LEMMA TypeStep == IInv /\ [Next]_vars => TypeOK'
<1> SUFFICES ASSUME IInv, [Next]_vars PROVE TypeOK'
  OBVIOUS
<1> FlagTypeOK /\ ControlTypeOK /\ LinkTypeOK /\ ConnectTypeOK /\ AskTypeOK
  BY TypeParts DEF IInv
<1> USE DEF FlagTypeOK, ControlTypeOK, LinkTypeOK, ConnectTypeOK, AskTypeOK, IInv, LinkInv,
             States, Timers, UserPCs, WorkerPCs, Phases, Running, UserAt, WorkerAt, memory,
             link, connect, clocks, asks, user, worker, Calls, Conns, None,
             Stopping, Return, AfterStop, CloseTransport, CloseHandles, DropConnReq, Broadcast,
             BeginConnect, MapSet, MapDel, Reading, Talking, GotHeartbeat, AwaitHeartbeat, Segfault
<1>1. CASE \E a \in Apis, ok \in BOOLEAN : Connect(a, ok)
  <2>1. FlagTypeOK'
    BY <1>1 DEF Connect
  <2>2. ControlTypeOK'
    BY <1>1 DEF Connect
  <2>6. PICK a \in Apis, ok \in BOOLEAN : Connect(a, ok)
    BY <1>1
  <2>7. 1 \in Conns
    BY ClientAssumption
  <2>8. BeginConnect(1, ok)
    BY <2>6 DEF Connect
  <2>3. LinkTypeOK'
    <3>1. tp' \in [Conns -> {"none", "connecting", "working", "closed", "freed"}] /\ tcp' \subseteq Conns
      BY ONLY <2>7, <2>8, IInv, BeginConnectType DEF IInv
    <3> QED
      BY <3>1, <2>6 DEF Connect
  <2>4. ConnectTypeOK'
    <3>1. conn' \in 0..ConnMax /\ conn_req' \in Conns
      BY ONLY <2>7, <2>8, IInv, BeginConnectType DEF IInv
    <3> QED
      BY <3>1, <2>6 DEF Connect
  <2>5. AskTypeOK'
    BY <1>1 DEF Connect
  <2> QED
    BY <2>1, <2>2, <2>3, <2>4, <2>5, TypeParts
<1>2. CASE CondWait
  BY <1>2, TypeParts DEF CondWait
<1>3. CASE \E x \in Calls : Ask(x)
  BY <1>3, TypeParts DEF Ask
<1>4. CASE CheckTransport
  BY <1>4, TypeParts DEF CheckTransport
<1>5. CASE Send
  <2>1. FlagTypeOK'
    BY <1>5 DEF Send
  <2>2. ControlTypeOK'
    BY <1>5 DEF Send
  <2>3. LinkTypeOK'
    BY <1>5 DEF Send
  <2>4. ConnectTypeOK'
    BY <1>5 DEF Send
  <2>5. AskTypeOK'
    BY <1>5 DEF Send
  <2> QED
    BY <2>1, <2>2, <2>3, <2>4, <2>5, TypeParts
<1>6. CASE Destroy
  BY <1>6, TypeParts DEF Destroy
<1>7. CASE Disconnect
  BY <1>7, TypeParts DEF Disconnect
<1>8. CASE Wake
  <2>1. FlagTypeOK'
    BY <1>8 DEF Wake
  <2>2. ControlTypeOK'
    BY <1>8 DEF Wake
  <2>3. LinkTypeOK'
    BY <1>8 DEF Wake
  <2>4. ConnectTypeOK'
    BY <1>8 DEF Wake
  <2>5. AskTypeOK'
    BY <1>8 DEF Wake
  <2> QED
    BY <2>1, <2>2, <2>3, <2>4, <2>5, TypeParts
<1>9. CASE Join
  BY <1>9, TypeParts DEF Join
<1>10. CASE Clear
  <2>1. FlagTypeOK'
    BY <1>10 DEF Clear
  <2>2. ControlTypeOK'
    BY <1>10 DEF Clear
  <2>3. LinkTypeOK'
    BY <1>10 DEF Clear
  <2>4. ConnectTypeOK'
    BY <1>10 DEF Clear
  <2>5. AskTypeOK'
    <3>1. answers' \in [Calls -> Seq(Statuses)]
      BY ONLY <1>10, IInv, AnswerType DEF Clear, IInv, Statuses
    <3> QED
      BY <3>1, <1>10 DEF Clear
  <2> QED
    BY <2>1, <2>2, <2>3, <2>4, <2>5, TypeParts
<1>11. CASE Stop
  BY <1>11, TypeParts DEF Stop
<1>12. CASE Close
  BY <1>12, TypeParts DEF Close
<1>13. CASE Reset
  <2>1. FlagTypeOK'
    BY <1>13 DEF Reset
  <2>2. ControlTypeOK'
    BY <1>13 DEF Reset
  <2>3. LinkTypeOK'
    BY <1>13 DEF Reset
  <2>4. ConnectTypeOK'
    BY <1>13 DEF Reset
  <2>5. AskTypeOK'
    <3>1. answers' \in [Calls -> Seq(Statuses)]
      BY ONLY <1>13, IInv, AnswerType DEF Reset, IInv, Statuses
    <3> QED
      BY <3>1, <1>13 DEF Reset
  <2> QED
    BY <2>1, <2>2, <2>3, <2>4, <2>5, TypeParts
<1>14. CASE FailConnect
  <2>1. FlagTypeOK'
    BY <1>14 DEF FailConnect
  <2>2. ControlTypeOK'
    BY <1>14 DEF FailConnect
  <2>3. LinkTypeOK'
    BY <1>14 DEF FailConnect
  <2>4. ConnectTypeOK'
    <3>1. told' \in [Conns -> Seq(Statuses)]
      BY ONLY <1>14, IInv, TellType DEF FailConnect, Failure, IInv, Statuses
    <3> QED
      BY <3>1, <1>14 DEF FailConnect
  <2>5. AskTypeOK'
    BY <1>14 DEF FailConnect
  <2> QED
    BY <2>1, <2>2, <2>3, <2>4, <2>5, TypeParts
<1>15. CASE CloseAsync
  <2>1. FlagTypeOK'
    BY <1>15 DEF CloseAsync
  <2>2. ControlTypeOK'
    BY <1>15 DEF CloseAsync
  <2>3. LinkTypeOK'
    BY <1>15 DEF CloseAsync
  <2>4. ConnectTypeOK'
    BY <1>15 DEF CloseAsync
  <2>5. AskTypeOK'
    BY <1>15 DEF CloseAsync
  <2> QED
    BY <2>1, <2>2, <2>3, <2>4, <2>5, TypeParts
<1>16. CASE ReconnectTimer
  <2>1. FlagTypeOK'
    BY <1>16 DEF ReconnectTimer
  <2>2. ControlTypeOK'
    BY <1>16 DEF ReconnectTimer
  <2>3. LinkTypeOK'
    BY <1>16 DEF ReconnectTimer
  <2>4. ConnectTypeOK'
    BY <1>16 DEF ReconnectTimer
  <2>5. AskTypeOK'
    BY <1>16 DEF ReconnectTimer
  <2> QED
    BY <2>1, <2>2, <2>3, <2>4, <2>5, TypeParts
<1>17. CASE \E ok \in BOOLEAN : Retry(ok)
  <2>1. FlagTypeOK'
    BY <1>17 DEF Retry
  <2>2. ControlTypeOK'
    BY <1>17 DEF Retry
  <2>6. PICK ok \in BOOLEAN : Retry(ok)
    BY <1>17
  <2>7. conn + 1 \in Conns
    BY <2>6, ClientAssumption DEF Retry
  <2>8. BeginConnect(conn + 1, ok)
    BY <2>6 DEF Retry
  <2>3. LinkTypeOK'
    <3>1. tp' \in [Conns -> {"none", "connecting", "working", "closed", "freed"}] /\ tcp' \subseteq Conns
      BY ONLY <2>7, <2>8, IInv, BeginConnectType DEF IInv
    <3> QED
      BY <3>1, <2>6 DEF Retry
  <2>4. ConnectTypeOK'
    <3>1. conn' \in 0..ConnMax /\ conn_req' \in Conns
      BY ONLY <2>7, <2>8, IInv, BeginConnectType DEF IInv
    <3> QED
      BY <3>1, <2>6 DEF Retry
  <2>5. AskTypeOK'
    BY <1>17 DEF Retry
  <2> QED
    BY <2>1, <2>2, <2>3, <2>4, <2>5, TypeParts
<1>18. CASE \E c \in Conns, ok \in BOOLEAN : TcpConnected(c, ok)
  BY <1>18, TypeParts DEF TcpConnected
<1>19. CASE StoreConnected
  BY <1>19, TypeParts DEF StoreConnected
<1>20. CASE HandshakeReq
  <2>1. FlagTypeOK'
    BY <1>20 DEF HandshakeReq
  <2>2. ControlTypeOK'
    BY <1>20 DEF HandshakeReq
  <2>3. LinkTypeOK'
    BY <1>20 DEF HandshakeReq
  <2>4. ConnectTypeOK'
    BY <1>20 DEF HandshakeReq
  <2>5. AskTypeOK'
    BY <1>20 DEF HandshakeReq
  <2> QED
    BY <2>1, <2>2, <2>3, <2>4, <2>5, TypeParts
<1>21. CASE \E c \in Conns, ok \in BOOLEAN : HandshakeWritten(c, ok)
  BY <1>21, TypeParts DEF HandshakeWritten
<1>22. CASE \E c \in Conns, h \in Handshakes : HandshakeResp(c, h)
  <2>1. FlagTypeOK'
    BY <1>22 DEF HandshakeResp
  <2>2. ControlTypeOK'
    <3>1. armed' \subseteq Timers
      BY <1>22 DEF HandshakeResp
    <3>2. UNCHANGED <<state, upc, arg, proc>>
      BY <1>22 DEF HandshakeResp
    <3>3. wpc' \in {wpc, "stop"} /\ cb' \in {cb, None}
      BY <1>22 DEF HandshakeResp
    <3> QED
      BY <3>1, <3>2, <3>3
  <2>3. LinkTypeOK'
    BY <1>22 DEF HandshakeResp
  <2>4. ConnectTypeOK'
    BY <1>22 DEF HandshakeResp
  <2>5. AskTypeOK'
    BY <1>22 DEF HandshakeResp
  <2> QED
    BY <2>1, <2>2, <2>3, <2>4, <2>5, TypeParts
<1>23. CASE \E c \in Conns, ok \in BOOLEAN : AckWritten(c, ok)
  <2>1. FlagTypeOK'
    BY <1>23 DEF AckWritten
  <2>2. ControlTypeOK'
    <3>1. armed' \subseteq armed /\ state' \in {state, "working"} /\ upc' \in {upc, "idle"}
      BY <1>23 DEF AckWritten
    <3>2. UNCHANGED <<arg, proc>>
      BY <1>23 DEF AckWritten
    <3>3. wpc' \in {wpc, "stop"} /\ cb' \in {cb, conn_req}
      BY <1>23 DEF AckWritten
    <3> QED
      BY <3>1, <3>2, <3>3
  <2>3. LinkTypeOK'
    BY <1>23 DEF AckWritten
  <2>4. ConnectTypeOK'
    <3>1. told' = told \/ \E d : Tell(d, "ok")
      BY ONLY <1>23 DEF AckWritten
    <3>2. told' \in [Conns -> Seq(Statuses)]
      BY ONLY <3>1, IInv, TellType DEF IInv, TypeOK, Statuses
    <3> QED
      BY <3>2, <1>23 DEF AckWritten
  <2>5. AskTypeOK'
    BY <1>23 DEF AckWritten
  <2> QED
    BY <2>1, <2>2, <2>3, <2>4, <2>5, TypeParts
<1>24. CASE \E c \in Conns : HeartbeatRead(c)
  BY <1>24, TypeParts DEF HeartbeatRead
<1>25. CASE \E c \in Conns : ReadEnds(c)
  <2>1. FlagTypeOK'
    BY <1>25 DEF ReadEnds
  <2>2. ControlTypeOK'
    BY <1>25 DEF ReadEnds
  <2>3. LinkTypeOK'
    BY <1>25 DEF ReadEnds
  <2>4. ConnectTypeOK'
    BY <1>25 DEF ReadEnds
  <2>5. AskTypeOK'
    BY <1>25 DEF ReadEnds
  <2> QED
    BY <2>1, <2>2, <2>3, <2>4, <2>5, TypeParts
<1>26. CASE \E c \in Conns : BadPackage(c)
  BY <1>26, TypeParts DEF BadPackage
<1>27. CASE HeartbeatTimer
  <2>1. FlagTypeOK'
    BY <1>27 DEF HeartbeatTimer
  <2>2. ControlTypeOK'
    BY <1>27 DEF HeartbeatTimer
  <2>3. LinkTypeOK'
    BY <1>27 DEF HeartbeatTimer
  <2>4. ConnectTypeOK'
    BY <1>27 DEF HeartbeatTimer
  <2>5. AskTypeOK'
    BY <1>27 DEF HeartbeatTimer
  <2> QED
    BY <2>1, <2>2, <2>3, <2>4, <2>5, TypeParts
<1>28. CASE \E c \in Conns, ok \in BOOLEAN : HeartbeatWritten(c, ok)
  BY <1>28, TypeParts DEF HeartbeatWritten
<1>29. CASE \E t \in Timers : TimerExpires(t)
  BY <1>29, TypeParts DEF TimerExpires
<1>30. CASE \E x \in Calls, ok \in BOOLEAN : AsyncWrite(x, ok)
  <2>1. FlagTypeOK'
    BY <1>30 DEF AsyncWrite
  <2>2. ControlTypeOK'
    BY <1>30 DEF AsyncWrite
  <2>3. LinkTypeOK'
    BY <1>30 DEF AsyncWrite
  <2>4. ConnectTypeOK'
    BY <1>30 DEF AsyncWrite
  <2>5. AskTypeOK'
    <3>1. answers' = answers \/ \E x \in Calls, status \in Statuses : Answer({x}, status)
      BY ONLY <1>30 DEF AsyncWrite, Statuses, Calls
    <3>2. answers' \in [Calls -> Seq(Statuses)]
      BY ONLY <3>1, IInv, AnswerType DEF IInv, TypeOK
    <3>3. phase' \in [Calls -> Phases]
      <4>1. phase' = phase \/ \E x \in Calls, p \in {"writing", "done"} : phase' = [phase EXCEPT ![x] = p]
        BY ONLY <1>30 DEF AsyncWrite
      <4>2. phase \in [Calls -> Phases] /\ {"writing", "done"} \subseteq Phases
        BY DEF Phases
      <4> QED
        BY ONLY <4>1, <4>2
    <3>4. requests' \subseteq Requests /\ UNCHANGED via
      BY <1>30 DEF AsyncWrite
    <3> QED
      BY <3>2, <3>3, <3>4
  <2> QED
    BY <2>1, <2>2, <2>3, <2>4, <2>5, TypeParts
<1>31. CASE \E x \in Calls, ok \in BOOLEAN : Written(x, ok)
  <2>1. FlagTypeOK'
    BY <1>31 DEF Written
  <2>2. ControlTypeOK'
    BY <1>31 DEF Written
  <2>3. LinkTypeOK'
    BY <1>31 DEF Written
  <2>4. ConnectTypeOK'
    BY <1>31 DEF Written
  <2>5. AskTypeOK'
    <3>1. answers' = answers \/ \E x \in Calls, status \in Statuses : Answer({x}, status)
      BY ONLY <1>31 DEF Written, Statuses, Calls
    <3>2. answers' \in [Calls -> Seq(Statuses)]
      BY ONLY <3>1, IInv, AnswerType DEF IInv, TypeOK
    <3> QED
      BY <3>2, <1>31 DEF Written
  <2> QED
    BY <2>1, <2>2, <2>3, <2>4, <2>5, TypeParts
<1>32. CASE \E x \in Requests : Response(x)
  <2>1. FlagTypeOK'
    BY <1>32 DEF Response
  <2>2. ControlTypeOK'
    BY <1>32 DEF Response
  <2>3. LinkTypeOK'
    BY <1>32 DEF Response
  <2>4. ConnectTypeOK'
    BY <1>32 DEF Response
  <2>5. AskTypeOK'
    <3>1. answers' = answers \/ \E x \in Calls, status \in Statuses : Answer({x}, status)
      BY ONLY <1>32 DEF Response, Statuses, Calls
    <3>2. answers' \in [Calls -> Seq(Statuses)]
      BY ONLY <3>1, IInv, AnswerType DEF IInv, TypeOK
    <3> QED
      BY <3>2, <1>32 DEF Response
  <2> QED
    BY <2>1, <2>2, <2>3, <2>4, <2>5, TypeParts
<1>33. CASE \E c \in Conns : FreeTransport(c)
  BY <1>33, TypeParts DEF FreeTransport
<1>34. CASE LoopEnds
  BY <1>34, TypeParts DEF LoopEnds
<1>35. CASE Exit
  BY <1>35, TypeParts DEF Exit
<1>36. CASE WorkerEnds
  BY <1>36, TypeParts DEF WorkerEnds
<1>37. CASE UseAfterFree
  BY <1>37, TypeParts DEF UseAfterFree
<1>38. CASE UNCHANGED vars
  BY <1>38, TypeParts DEF vars
<1> QED
  BY <1>1, <1>2, <1>3, <1>4, <1>5, <1>6, <1>7, <1>8, <1>9, <1>10, <1>11, <1>12, <1>13, <1>14,
     <1>15, <1>16, <1>17, <1>18, <1>19, <1>20, <1>21, <1>22, <1>23, <1>24, <1>25, <1>26, <1>27,
     <1>28, <1>29, <1>30, <1>31, <1>32, <1>33, <1>34, <1>35, <1>36, <1>37, <1>38
     DEF Next, UserCall, UserStep, WorkerStep, Timer, Due, Network

(* The transport keeps to the state, and one connection works at a time. *)
LEMMA LinkStep == IInv /\ [Next]_vars => LinkInv' /\ OneConnection'
<1> SUFFICES ASSUME IInv, [Next]_vars PROVE LinkInv' /\ OneConnection'
  OBVIOUS
<1> /\ transport \in Conns \cup {None} /\ conn \in 0..ConnMax
    /\ tp \in [Conns -> {"none", "connecting", "working", "closed", "freed"}]
  BY DEF TypeOK, IInv
<1> tcp \subseteq Conns
  BY DEF TypeOK, IInv
<1> USE DEF IInv, LinkInv, OneConnection, Running, UserAt, WorkerAt, memory,
             link, connect, clocks, asks, user, worker, Conns, None,
             Stopping, Return, AfterStop, CloseTransport, CloseHandles, DropConnReq, Broadcast,
             BeginConnect, Reading, Talking, Segfault
<1>1. CASE \E a \in Apis, ok \in BOOLEAN : Connect(a, ok)
  BY <1>1, ClientAssumption DEF Connect
<1>2. CASE CondWait
  BY <1>2 DEF CondWait
<1>3. CASE \E x \in Calls : Ask(x)
  BY <1>3 DEF Ask
<1>4. CASE CheckTransport
  BY <1>4 DEF CheckTransport
<1>5. CASE Send
  BY <1>5 DEF Send
<1>6. CASE Destroy
  BY <1>6 DEF Destroy
<1>7. CASE Disconnect
  BY <1>7 DEF Disconnect
<1>8. CASE Wake
  BY <1>8 DEF Wake
<1>9. CASE Join
  BY <1>9 DEF Join
<1>10. CASE Clear
  BY <1>10 DEF Clear
<1>11. CASE Stop
  BY <1>11 DEF Stop
<1>12. CASE Close
  BY <1>12 DEF Close
<1>13. CASE Reset
  BY <1>13 DEF Reset
<1>14. CASE FailConnect
  BY <1>14 DEF FailConnect
<1>15. CASE CloseAsync
  BY <1>15 DEF CloseAsync
<1>16. CASE ReconnectTimer
  BY <1>16 DEF ReconnectTimer
<1>17. CASE \E ok \in BOOLEAN : Retry(ok)
  BY <1>17, ClientAssumption DEF Retry
<1>18. CASE \E c \in Conns, ok \in BOOLEAN : TcpConnected(c, ok)
  <2>1. PICK c \in Conns, ok \in BOOLEAN : TcpConnected(c, ok)
    BY <1>18
  <2>2. /\ wpc = "loop" /\ wpc' \in {"callback", "stop", "connected"}
        /\ UNCHANGED <<state, conn, upc>>
    BY <2>1 DEF TcpConnected
  <2>3. CASE wpc' = "connected"
    <3>1. state = "connecting" /\ UNCHANGED tp /\ transport' = c
      BY <2>1, <2>3 DEF TcpConnected, StillConnecting
    <3>2. \A d \in Conns : tp[d] # "working"
      BY <2>2, <3>1
    <3> QED
      BY <2>2, <2>3, <3>1, <3>2
  <2>4. CASE wpc' # "connected"
    <3>1. UNCHANGED transport /\ \A d \in Conns : tp'[d] = "working" => tp[d] = "working"
      BY <2>1, <2>4 DEF TcpConnected
    <3> QED
      BY <2>2, <2>4, <3>1
  <2> QED
    BY <2>3, <2>4
<1>19. CASE StoreConnected
  BY <1>19 DEF StoreConnected
<1>20. CASE HandshakeReq
  BY <1>20 DEF HandshakeReq
<1>21. CASE \E c \in Conns, ok \in BOOLEAN : HandshakeWritten(c, ok)
  BY <1>21 DEF HandshakeWritten
<1>22. CASE \E c \in Conns, h \in Handshakes : HandshakeResp(c, h)
  BY <1>22 DEF HandshakeResp
<1>23. CASE \E c \in Conns, ok \in BOOLEAN : AckWritten(c, ok)
  BY <1>23 DEF AckWritten
<1>24. CASE \E c \in Conns : HeartbeatRead(c)
  BY <1>24 DEF HeartbeatRead
<1>25. CASE \E c \in Conns : ReadEnds(c)
  BY <1>25 DEF ReadEnds
<1>26. CASE \E c \in Conns : BadPackage(c)
  BY <1>26 DEF BadPackage
<1>27. CASE HeartbeatTimer
  BY <1>27 DEF HeartbeatTimer
<1>28. CASE \E c \in Conns, ok \in BOOLEAN : HeartbeatWritten(c, ok)
  BY <1>28 DEF HeartbeatWritten
<1>29. CASE \E t \in Timers : TimerExpires(t)
  BY <1>29 DEF TimerExpires
<1>30. CASE \E x \in Calls, ok \in BOOLEAN : AsyncWrite(x, ok)
  BY <1>30 DEF AsyncWrite
<1>31. CASE \E x \in Calls, ok \in BOOLEAN : Written(x, ok)
  BY <1>31 DEF Written
<1>32. CASE \E x \in Requests : Response(x)
  BY <1>32 DEF Response
<1>33. CASE \E c \in Conns : FreeTransport(c)
  BY <1>33 DEF FreeTransport
<1>34. CASE LoopEnds
  BY <1>34 DEF LoopEnds
<1>35. CASE Exit
  BY <1>35 DEF Exit
<1>36. CASE WorkerEnds
  BY <1>36 DEF WorkerEnds
<1>37. CASE UseAfterFree
  BY <1>37 DEF UseAfterFree
<1>38. CASE UNCHANGED vars
  BY <1>38 DEF vars
<1> QED
  BY <1>1, <1>2, <1>3, <1>4, <1>5, <1>6, <1>7, <1>8, <1>9, <1>10, <1>11, <1>12, <1>13, <1>14,
     <1>15, <1>16, <1>17, <1>18, <1>19, <1>20, <1>21, <1>22, <1>23, <1>24, <1>25, <1>26, <1>27,
     <1>28, <1>29, <1>30, <1>31, <1>32, <1>33, <1>34, <1>35, <1>36, <1>37, <1>38
     DEF Next, UserCall, UserStep, WorkerStep, Timer, Due, Network

\* the invariant holds throughout
LEMMA Inductive == Spec => []IInv
<1>1. Init => IInv
  BY InitType, InitLink DEF IInv
<1>2. IInv /\ [Next]_vars => IInv'
  BY TypeStep, LinkStep DEF IInv
<1> QED
  BY <1>1, <1>2, PTL DEF Spec

(* Every variable keeps its type, with any number of connections and calls. *)
THEOREM ClientTypeCorrect == Spec => []TypeOK
<1>1. IInv => TypeOK
  BY DEF IInv
<1> QED
  BY <1>1, Inductive, PTL

(* A client reads and writes one connection, its transport, however often it
   reconnects (pc__on_tcp_connect, pc__client_reconnect_reset, pc_client_stop). *)
THEOREM OneConnectionOnly == Spec => []OneConnection
<1>1. IInv => OneConnection
  BY DEF IInv
<1> QED
  BY <1>1, Inductive, PTL

-----------------------------------------------------------------------------
(* Without reconnection, a closed client is left as it is *)

\* once the handles are closed nothing is left that could store another state
ClosedInv ==
  /\ "reconnect" \notin armed /\ wpc \notin {"reset", "retry"}
  /\ upc = "start" => open
  /\ ~open => /\ state \in {"closed", "disconnecting"} /\ armed = {}
              /\ transport = None /\ wpc \notin {"connected", "handshake"}

\* no callback and no call of the user's revives a closed client
LEMMA ClosedStep ==
  ASSUME ~EnableReconnect
  PROVE  IInv /\ ClosedInv /\ [Next]_vars => ClosedInv'
<1> SUFFICES ASSUME IInv, ClosedInv, [Next]_vars PROVE ClosedInv'
  OBVIOUS
<1> USE DEF IInv, LinkInv, ClosedInv, OneConnection, Running, UserAt, WorkerAt, memory,
             link, connect, clocks, asks, user, worker, Conns, None,
             Stopping, Return, AfterStop, CloseTransport, CloseHandles, DropConnReq, Broadcast,
             BeginConnect, Reading, Talking, Segfault, GotHeartbeat, AwaitHeartbeat, StillConnecting
<1>1. CASE \E a \in Apis, ok \in BOOLEAN : Connect(a, ok)
  BY <1>1 DEF Connect
<1>2. CASE CondWait
  BY <1>2 DEF CondWait
<1>3. CASE \E x \in Calls : Ask(x)
  BY <1>3 DEF Ask
<1>4. CASE CheckTransport
  BY <1>4 DEF CheckTransport
<1>5. CASE Send
  BY <1>5 DEF Send
<1>6. CASE Destroy
  BY <1>6 DEF Destroy
<1>7. CASE Disconnect
  BY <1>7 DEF Disconnect
<1>8. CASE Wake
  BY <1>8 DEF Wake
<1>9. CASE Join
  BY <1>9 DEF Join
<1>10. CASE Clear
  BY <1>10 DEF Clear
<1>11. CASE Stop
  BY <1>11 DEF Stop
<1>12. CASE Close
  BY <1>12 DEF Close
<1>13. CASE Reset
  BY <1>13 DEF Reset
<1>14. CASE FailConnect
  BY <1>14 DEF FailConnect
<1>15. CASE CloseAsync
  BY <1>15 DEF CloseAsync
<1>16. CASE ReconnectTimer
  BY <1>16 DEF ReconnectTimer
<1>17. CASE \E ok \in BOOLEAN : Retry(ok)
  BY <1>17 DEF Retry
<1>18. CASE \E c \in Conns, ok \in BOOLEAN : TcpConnected(c, ok)
  BY <1>18 DEF TcpConnected
<1>19. CASE StoreConnected
  BY <1>19 DEF StoreConnected
<1>20. CASE HandshakeReq
  BY <1>20 DEF HandshakeReq
<1>21. CASE \E c \in Conns, ok \in BOOLEAN : HandshakeWritten(c, ok)
  BY <1>21 DEF HandshakeWritten
<1>22. CASE \E c \in Conns, h \in Handshakes : HandshakeResp(c, h)
  BY <1>22 DEF HandshakeResp
<1>23. CASE \E c \in Conns, ok \in BOOLEAN : AckWritten(c, ok)
  BY <1>23 DEF AckWritten
<1>24. CASE \E c \in Conns : HeartbeatRead(c)
  BY <1>24 DEF HeartbeatRead
<1>25. CASE \E c \in Conns : ReadEnds(c)
  BY <1>25 DEF ReadEnds
<1>26. CASE \E c \in Conns : BadPackage(c)
  BY <1>26 DEF BadPackage
<1>27. CASE HeartbeatTimer
  BY <1>27 DEF HeartbeatTimer
<1>28. CASE \E c \in Conns, ok \in BOOLEAN : HeartbeatWritten(c, ok)
  BY <1>28 DEF HeartbeatWritten
<1>29. CASE \E t \in Timers : TimerExpires(t)
  BY <1>29 DEF TimerExpires
<1>30. CASE \E x \in Calls, ok \in BOOLEAN : AsyncWrite(x, ok)
  BY <1>30 DEF AsyncWrite
<1>31. CASE \E x \in Calls, ok \in BOOLEAN : Written(x, ok)
  BY <1>31 DEF Written
<1>32. CASE \E x \in Requests : Response(x)
  BY <1>32 DEF Response
<1>33. CASE \E c \in Conns : FreeTransport(c)
  BY <1>33 DEF FreeTransport
<1>34. CASE LoopEnds
  BY <1>34 DEF LoopEnds
<1>35. CASE Exit
  BY <1>35 DEF Exit
<1>36. CASE WorkerEnds
  BY <1>36 DEF WorkerEnds
<1>37. CASE UseAfterFree
  BY <1>37 DEF UseAfterFree
<1>38. CASE UNCHANGED vars
  BY <1>38 DEF vars
<1> QED
  BY <1>1, <1>2, <1>3, <1>4, <1>5, <1>6, <1>7, <1>8, <1>9, <1>10, <1>11, <1>12, <1>13, <1>14,
     <1>15, <1>16, <1>17, <1>18, <1>19, <1>20, <1>21, <1>22, <1>23, <1>24, <1>25, <1>26, <1>27,
     <1>28, <1>29, <1>30, <1>31, <1>32, <1>33, <1>34, <1>35, <1>36, <1>37, <1>38
     DEF Next, UserCall, UserStep, WorkerStep, Timer, Due, Network

(* A client that does not reconnect and was closed is not revived by a callback
   that comes late, and no timer runs any more (pc_client_stop, pc__on_tcp_connect,
   pc__handshake_ack_cb, pc__heartbeat_cb). *)
THEOREM ClosedStaysClosed ==
  ASSUME ~EnableReconnect
  PROVE  Spec => []ClosedForGood
<1>1. Init => ClosedInv
  BY DEF Init, ClosedInv
<1>2. IInv /\ ClosedInv /\ [Next]_vars => ClosedInv'
  BY ClosedStep
<1>3. ClosedInv => ClosedForGood
  BY Zenon DEF ClosedInv, ClosedForGood
<1> QED
  BY <1>1, <1>2, <1>3, Inductive, PTL DEF Spec

-----------------------------------------------------------------------------
(* No connect request is called back twice *)

\* one TCP connection is under way at a time: while it is, nothing that runs on
\* the client makes pc_client_stop begin another attempt
TcpInv ==
  /\ \A c, d \in tcp : c = d
  /\ tcp # {} => /\ transport = None /\ cb = None
                 /\ state \in {"connecting", "disconnecting", "closed"}
                 /\ wpc \in {"loop", "stop", "close"}
                 /\ "reconnect" \notin armed
  /\ tcp # {} /\ state = "closed" => armed = {} /\ ~wake /\ ~open /\ wpc = "loop"
  /\ tcp # {} /\ state = "connecting" /\ ~reconnecting =>
       armed = {} /\ ~wake /\ upc # "wake" /\ wpc = "loop"
  /\ cb # None => wpc \in {"stop", "close", "reset", "callback"}
  /\ wpc = "callback" => cb # None
  /\ "reconnect" \in armed => reconnecting /\ transport = None
  /\ wpc = "retry" => reconnecting /\ "reconnect" \notin armed
  /\ upc = "start" => armed = {} /\ ~wake

\* each step leaves at most one TCP connection under way, with nothing to begin another
LEMMA TcpStep == IInv /\ TcpInv /\ [Next]_vars => TcpInv'
<1> SUFFICES ASSUME IInv, TcpInv, [Next]_vars PROVE TcpInv'
  OBVIOUS
<1> transport \in Conns \cup {None} /\ tcp \subseteq Conns
  BY DEF TypeOK, IInv
<1> USE DEF IInv, LinkInv, TcpInv, OneConnection, Running, UserAt, WorkerAt, memory,
             link, connect, clocks, asks, user, worker, Conns, None,
             Stopping, Return, AfterStop, CloseTransport, CloseHandles, DropConnReq, Broadcast,
             BeginConnect, Reading, Talking, Segfault, GotHeartbeat, AwaitHeartbeat,
             StillConnecting, LoopAlive
<1>1. CASE \E a \in Apis, ok \in BOOLEAN : Connect(a, ok)
  BY <1>1 DEF Connect
<1>2. CASE CondWait
  BY <1>2 DEF CondWait
<1>3. CASE \E x \in Calls : Ask(x)
  BY <1>3 DEF Ask
<1>4. CASE CheckTransport
  BY <1>4 DEF CheckTransport
<1>5. CASE Send
  BY <1>5 DEF Send
<1>6. CASE Destroy
  BY <1>6 DEF Destroy
<1>7. CASE Disconnect
  BY <1>7 DEF Disconnect
<1>8. CASE Wake
  BY <1>8 DEF Wake
<1>9. CASE Join
  BY <1>9 DEF Join
<1>10. CASE Clear
  BY <1>10 DEF Clear
<1>11. CASE Stop
  BY <1>11 DEF Stop
<1>12. CASE Close
  BY <1>12 DEF Close
<1>13. CASE Reset
  BY <1>13 DEF Reset
<1>14. CASE FailConnect
  BY <1>14 DEF FailConnect
<1>15. CASE CloseAsync
  BY <1>15 DEF CloseAsync
<1>16. CASE ReconnectTimer
  <2>1. /\ tcp' = {} /\ "reconnect" \notin armed' /\ upc # "start"
        /\ wpc' \in {"retry", "stop"} /\ UNCHANGED upc
    BY <1>16 DEF ReconnectTimer
  <2>2. reconnecting /\ cb = None
    BY <1>16 DEF ReconnectTimer
  <2>3. \/ wpc' = "retry" /\ UNCHANGED <<reconnecting, cb>>
        \/ wpc' = "stop"
    BY <1>16 DEF ReconnectTimer
  <2>4. wpc' = "retry" => reconnecting'
    BY ONLY <2>2, <2>3, Zenon
  <2> QED
    BY <2>1, <2>2, <2>3, <2>4
<1>17. CASE \E ok \in BOOLEAN : Retry(ok)
  BY <1>17 DEF Retry
<1>18. CASE \E c \in Conns, ok \in BOOLEAN : TcpConnected(c, ok)
  <2>1. PICK c \in Conns, ok \in BOOLEAN : TcpConnected(c, ok)
    BY <1>18
  <2>2. /\ tcp' = {} /\ cb = None /\ "reconnect" \notin armed
        /\ UNCHANGED <<armed, reconnecting, upc>>
    BY <2>1 DEF TcpConnected
  <2>3. \/ wpc' \in {"callback", "stop"} /\ cb' = c
        \/ wpc' = "connected" /\ cb' = cb
    BY <2>1 DEF TcpConnected
  <2>4. c # None /\ upc # "start"
    BY <2>1 DEF TcpConnected
  <2> QED
    BY <2>2, <2>3, <2>4
<1>19. CASE StoreConnected
  BY <1>19 DEF StoreConnected
<1>20. CASE HandshakeReq
  BY <1>20 DEF HandshakeReq
<1>21. CASE \E c \in Conns, ok \in BOOLEAN : HandshakeWritten(c, ok)
  BY <1>21 DEF HandshakeWritten
<1>22. CASE \E c \in Conns, h \in Handshakes : HandshakeResp(c, h)
  BY <1>22 DEF HandshakeResp
<1>23. CASE \E c \in Conns, ok \in BOOLEAN : AckWritten(c, ok)
  BY <1>23 DEF AckWritten
<1>24. CASE \E c \in Conns : HeartbeatRead(c)
  BY <1>24 DEF HeartbeatRead
<1>25. CASE \E c \in Conns : ReadEnds(c)
  BY <1>25 DEF ReadEnds
<1>26. CASE \E c \in Conns : BadPackage(c)
  BY <1>26 DEF BadPackage
<1>27. CASE HeartbeatTimer
  BY <1>27 DEF HeartbeatTimer
<1>28. CASE \E c \in Conns, ok \in BOOLEAN : HeartbeatWritten(c, ok)
  BY <1>28 DEF HeartbeatWritten
<1>29. CASE \E t \in Timers : TimerExpires(t)
  BY <1>29 DEF TimerExpires
<1>30. CASE \E x \in Calls, ok \in BOOLEAN : AsyncWrite(x, ok)
  BY <1>30 DEF AsyncWrite
<1>31. CASE \E x \in Calls, ok \in BOOLEAN : Written(x, ok)
  BY <1>31 DEF Written
<1>32. CASE \E x \in Requests : Response(x)
  BY <1>32 DEF Response
<1>33. CASE \E c \in Conns : FreeTransport(c)
  BY <1>33 DEF FreeTransport
<1>34. CASE LoopEnds
  BY <1>34 DEF LoopEnds
<1>35. CASE Exit
  BY <1>35 DEF Exit
<1>36. CASE WorkerEnds
  BY <1>36 DEF WorkerEnds
<1>37. CASE UseAfterFree
  BY <1>37 DEF UseAfterFree
<1>38. CASE UNCHANGED vars
  BY <1>38 DEF vars
<1> QED
  BY <1>1, <1>2, <1>3, <1>4, <1>5, <1>6, <1>7, <1>8, <1>9, <1>10, <1>11, <1>12, <1>13, <1>14,
     <1>15, <1>16, <1>17, <1>18, <1>19, <1>20, <1>21, <1>22, <1>23, <1>24, <1>25, <1>26, <1>27,
     <1>28, <1>29, <1>30, <1>31, <1>32, <1>33, <1>34, <1>35, <1>36, <1>37, <1>38
     DEF Next, UserCall, UserStep, WorkerStep, Timer, Due, Network

\* a connection that is still to be told of was not told yet
ToldInv ==
  /\ ConnectToldOnce
  /\ \A c \in Conns : c > conn \/ c \in tcp => told[c] = <<>>
  /\ conn_req <= conn /\ cb <= conn /\ transport <= conn
  /\ \A c \in tcp : c <= conn
  /\ wpc \in {"connected", "handshake"} => told[transport] = <<>>
  /\ upc = "start" => conn = 0

\* the first status a connect request is told of is its only one
LEMMA TellOnce ==
  ASSUME TypeOK, ConnectToldOnce, NEW c \in Conns, told[c] = <<>>,
         NEW status \in Statuses, Tell(c, status)
  PROVE  \A d \in Conns : Len(told'[d]) <= 1 /\ (d # c => told'[d] = told[d])
<1> SUFFICES ASSUME NEW d \in Conns
             PROVE  Len(told'[d]) <= 1 /\ (d # c => told'[d] = told[d])
  OBVIOUS
<1>1. CASE d = c
  <2>1. told'[d] = <<status>>
    BY <1>1 DEF Tell, TypeOK
  <2>2. Len(<<status>>) = 1
    OBVIOUS
  <2> QED
    BY ONLY <1>1, <2>1, <2>2
<1>2. CASE d # c
  <2>1. told'[d] = told[d]
    BY <1>2 DEF Tell, TypeOK
  <2>2. Len(told[d]) <= 1
    BY DEF ConnectToldOnce
  <2> QED
    BY ONLY <2>1, <2>2
<1> QED
  BY <1>1, <1>2

\* each step tells a connect request that was not told yet, or none
LEMMA ToldStep == IInv /\ TcpInv /\ ToldInv /\ [Next]_vars => ToldInv'
<1> SUFFICES ASSUME IInv, TcpInv, ToldInv, [Next]_vars PROVE ToldInv'
  OBVIOUS
<1> /\ transport \in Conns \cup {None} /\ tcp \subseteq Conns /\ conn \in Nat /\ ConnMax \in Nat
    /\ conn_req \in Conns \cup {None} /\ cb \in Conns \cup {None}
  BY ClientAssumption DEF TypeOK, IInv
<1> USE DEF IInv, LinkInv, TcpInv, ToldInv, ConnectToldOnce, OneConnection,
             Running, UserAt, WorkerAt, memory,
             link, connect, clocks, asks, user, worker, Conns, None,
             Stopping, Return, AfterStop, CloseTransport, CloseHandles, DropConnReq, Broadcast,
             BeginConnect, Reading, Talking, Segfault, StillConnecting
<1>1. CASE \E a \in Apis, ok \in BOOLEAN : Connect(a, ok)
  <2>1. 1 \in Conns /\ conn = 0 /\ transport = None
    BY <1>1, ClientAssumption DEF Connect
  <2>2. /\ conn' = 1 /\ conn_req' = 1 /\ tcp' \subseteq tcp \cup {1}
        /\ wpc' \in {"loop", "none"} /\ upc' # "start"
        /\ UNCHANGED <<transport, told, cb>>
    BY <1>1 DEF Connect
  <2>3. cb = None /\ told[1] = <<>>
    BY <1>1, <2>1 DEF Connect
  <2>4. ConnectToldOnce'
    BY <2>1, <2>2, <2>3
  <2> QED
    BY <2>1, <2>2, <2>3, <2>4
<1>2. CASE CondWait
  BY <1>2 DEF CondWait
<1>3. CASE \E x \in Calls : Ask(x)
  BY <1>3 DEF Ask
<1>4. CASE CheckTransport
  BY <1>4 DEF CheckTransport
<1>5. CASE Send
  BY <1>5 DEF Send
<1>6. CASE Destroy
  BY <1>6 DEF Destroy
<1>7. CASE Disconnect
  BY <1>7 DEF Disconnect
<1>8. CASE Wake
  BY <1>8 DEF Wake
<1>9. CASE Join
  BY <1>9 DEF Join
<1>10. CASE Clear
  BY <1>10 DEF Clear
<1>11. CASE Stop
  BY <1>11 DEF Stop
<1>12. CASE Close
  BY <1>12 DEF Close
<1>13. CASE Reset
  BY <1>13 DEF Reset
<1>14. CASE FailConnect
  <2>1. /\ cb \in Conns /\ told[cb] = <<>> /\ tcp = {}
        /\ cb' = None /\ wpc' \in {"loop", "stop"}
        /\ UNCHANGED <<transport, tcp, conn, conn_req, upc>>
    BY <1>14 DEF FailConnect
  <2>2. \A d \in Conns : Len(told'[d]) <= 1 /\ (d # cb => told'[d] = told[d])
    BY ONLY <1>14, <2>1, IInv, ToldInv, TellOnce DEF ToldInv, FailConnect, Failure, IInv, Statuses
  <2>3. ConnectToldOnce'
    BY <2>1, <2>2
  <2> QED
    BY <2>1, <2>2, <2>3
<1>15. CASE CloseAsync
  BY <1>15 DEF CloseAsync
<1>16. CASE ReconnectTimer
  BY <1>16 DEF ReconnectTimer
<1>17. CASE \E ok \in BOOLEAN : Retry(ok)
  <2>1. conn + 1 \in Conns /\ transport = None /\ cb = None
    BY <1>17 DEF Retry
  <2>2. /\ conn' = conn + 1 /\ conn_req' = conn + 1 /\ tcp' \subseteq tcp \cup {conn + 1}
        /\ wpc' \in {"loop", "stop"} /\ cb' = None
        /\ UNCHANGED <<transport, told, upc>>
    BY <1>17 DEF Retry
  <2>3. told[conn + 1] = <<>>
    BY <2>1
  <2>4. ConnectToldOnce'
    BY <2>1, <2>2, <2>3
  <2>5. upc # "start"
    BY <1>17 DEF Retry
  <2> QED
    BY <2>1, <2>2, <2>3, <2>4, <2>5
<1>18. CASE \E c \in Conns, ok \in BOOLEAN : TcpConnected(c, ok)
  BY <1>18 DEF TcpConnected
<1>19. CASE StoreConnected
  BY <1>19 DEF StoreConnected
<1>20. CASE HandshakeReq
  BY <1>20 DEF HandshakeReq
<1>21. CASE \E c \in Conns, ok \in BOOLEAN : HandshakeWritten(c, ok)
  BY <1>21 DEF HandshakeWritten
<1>22. CASE \E c \in Conns, h \in Handshakes : HandshakeResp(c, h)
  BY <1>22 DEF HandshakeResp
<1>23. CASE \E c \in Conns, ok \in BOOLEAN : AckWritten(c, ok)
  <2>1. PICK c \in Conns, ok \in BOOLEAN : AckWritten(c, ok)
    BY <1>23
  <2>2. /\ wpc = "loop" /\ wpc' \in {"loop", "stop"} /\ cb = None
        /\ UNCHANGED <<transport, tcp, conn>>
        /\ upc # "start" /\ upc' # "start"
    BY <2>1 DEF AckWritten
  <2>3. CASE UNCHANGED told
    <3>1. \/ UNCHANGED <<conn_req, cb>>
          \/ cb' \in {None, conn_req} /\ conn_req' = None
      BY <2>1 DEF AckWritten
    <3> QED
      BY <2>2, <2>3, <3>1
  <2>4. CASE ~UNCHANGED told
    <3>1. /\ tp[c] = "working" /\ conn_req \in Conns /\ Tell(conn_req, "ok")
          /\ conn_req' = None /\ cb' = None
      BY <2>1, <2>2, <2>4 DEF AckWritten
    <3>2. tcp = {} /\ told[conn_req] = <<>>
      BY <3>1
    <3>3. \A d \in Conns : Len(told'[d]) <= 1 /\ (d # conn_req => told'[d] = told[d])
      BY ONLY <3>1, <3>2, IInv, ToldInv, TellOnce DEF ToldInv, IInv, Statuses
    <3>4. ConnectToldOnce'
      BY <3>1, <3>3
    <3> QED
      BY <2>2, <3>1, <3>2, <3>3, <3>4
  <2> QED
    BY <2>3, <2>4
<1>24. CASE \E c \in Conns : HeartbeatRead(c)
  BY <1>24 DEF HeartbeatRead
<1>25. CASE \E c \in Conns : ReadEnds(c)
  BY <1>25 DEF ReadEnds
<1>26. CASE \E c \in Conns : BadPackage(c)
  BY <1>26 DEF BadPackage
<1>27. CASE HeartbeatTimer
  BY <1>27 DEF HeartbeatTimer
<1>28. CASE \E c \in Conns, ok \in BOOLEAN : HeartbeatWritten(c, ok)
  BY <1>28 DEF HeartbeatWritten
<1>29. CASE \E t \in Timers : TimerExpires(t)
  BY <1>29 DEF TimerExpires
<1>30. CASE \E x \in Calls, ok \in BOOLEAN : AsyncWrite(x, ok)
  BY <1>30 DEF AsyncWrite
<1>31. CASE \E x \in Calls, ok \in BOOLEAN : Written(x, ok)
  BY <1>31 DEF Written
<1>32. CASE \E x \in Requests : Response(x)
  BY <1>32 DEF Response
<1>33. CASE \E c \in Conns : FreeTransport(c)
  BY <1>33 DEF FreeTransport
<1>34. CASE LoopEnds
  BY <1>34 DEF LoopEnds
<1>35. CASE Exit
  BY <1>35 DEF Exit
<1>36. CASE WorkerEnds
  BY <1>36 DEF WorkerEnds
<1>37. CASE UseAfterFree
  BY <1>37 DEF UseAfterFree
<1>38. CASE UNCHANGED vars
  BY <1>38 DEF vars
<1> QED
  BY <1>1, <1>2, <1>3, <1>4, <1>5, <1>6, <1>7, <1>8, <1>9, <1>10, <1>11, <1>12, <1>13, <1>14,
     <1>15, <1>16, <1>17, <1>18, <1>19, <1>20, <1>21, <1>22, <1>23, <1>24, <1>25, <1>26, <1>27,
     <1>28, <1>29, <1>30, <1>31, <1>32, <1>33, <1>34, <1>35, <1>36, <1>37, <1>38
     DEF Next, UserCall, UserStep, WorkerStep, Timer, Due, Network

(* However often a client reconnects, none of the four callbacks that may call a
   connect request back does so a second time (pc__on_tcp_connect,
   pc__handshake_req_cb, pc__handshake_ack_cb; pc_client_stop). *)
THEOREM ConnectToldOnceOnly == Spec => []ConnectToldOnce
<1>1. Init => TcpInv /\ ToldInv
  BY ClientAssumption DEF Init, TcpInv, ToldInv, ConnectToldOnce, Conns, None
<1>2. IInv /\ TcpInv /\ ToldInv /\ [Next]_vars => TcpInv' /\ ToldInv'
  BY TcpStep, ToldStep
<1>3. ToldInv => ConnectToldOnce
  BY DEF ToldInv
<1> QED
  BY <1>1, <1>2, <1>3, Inductive, PTL DEF Spec

=============================================================================
