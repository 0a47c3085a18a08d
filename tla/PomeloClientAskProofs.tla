---------------------- MODULE PomeloClientAskProofs ----------------------
(***************************************************************************)
(* Theorems about PomeloClient: what becomes of requests and notifies, and *)
(* of the heartbeat's timers.                                              *)
(***************************************************************************)
EXTENDS PomeloClientProofs, SequenceTheorems

\* the life of a transport: connecting, working, closed, freed
PathInv ==
  /\ \A c \in tcp : tp[c] = "connecting"
  /\ \A c \in Conns : c > conn => tp[c] = "none" /\ c \notin tcp
  /\ wpc = "connected" => tp[transport] = "connecting" /\ state \in {"connecting", "disconnecting"}
  /\ transport \in Conns /\ wpc # "connected" => tp[transport] = "working"
  /\ upc = "start" => conn = 0

\* a transport that has worked goes on to be closed and freed, and does not come back
TpForward ==
  \A c \in Conns : tp[c] \in {"working", "closed", "freed"} =>
    /\ tp'[c] \in {"working", "closed", "freed"}
    /\ tp'[c] = "working" => tp[c] = "working"

\* no step takes a transport back
LEMMA PathStep == IInv /\ TcpInv /\ PathInv /\ [Next]_vars => PathInv' /\ TpForward
<1> SUFFICES ASSUME IInv, TcpInv, PathInv, [Next]_vars PROVE PathInv' /\ TpForward
  OBVIOUS
<1> /\ transport \in Conns \cup {None} /\ tcp \subseteq Conns /\ conn \in Nat /\ ConnMax \in Nat
    /\ tp \in [Conns -> {"none", "connecting", "working", "closed", "freed"}]
  BY ClientAssumption DEF TypeOK, IInv
<1> USE DEF IInv, LinkInv, TcpInv, PathInv, TpForward, OneConnection, Running, UserAt, WorkerAt, memory,
             link, connect, clocks, asks, user, worker, Conns, None,
             Stopping, Return, AfterStop, CloseTransport, CloseHandles, DropConnReq, Broadcast,
             BeginConnect, Reading, Talking, Segfault, StillConnecting, Ends
<1>1. CASE \E a \in Apis, ok \in BOOLEAN : Connect(a, ok)
  <2>1. 1 \in Conns /\ conn = 0 /\ transport = None /\ tp[1] = "none" /\ tcp = {}
    BY <1>1, ClientAssumption DEF Connect
  <2>2. /\ conn' = 1 /\ tcp' \subseteq {1} /\ UNCHANGED transport
        /\ wpc' \in {"loop", "none"} /\ upc' # "start"
        /\ \/ tcp' = {1} /\ tp' = [tp EXCEPT ![1] = "connecting"]
           \/ tcp' = {} /\ tp' = [tp EXCEPT ![1] = "none"]
    BY <1>1, <2>1 DEF Connect
  <2> QED
    BY ONLY <2>1, <2>2, tp \in [Conns -> {"none", "connecting", "working", "closed", "freed"}], PathInv,
            ConnMax \in Nat DEF PathInv, TpForward, Conns, None
<1>2. CASE CondWait
  BY <1>2 DEF CondWait
<1>3. CASE \E x \in Calls : Ask(x)
  BY <1>3 DEF Ask
<1>4. CASE CheckTransport
  BY <1>4 DEF CheckTransport
<1>5. CASE Send
  BY <1>5 DEF Send
<1>6. CASE Destroy
  BY <1>6 DEF Destroy
<1>7. CASE Disconnect
  BY <1>7 DEF Disconnect
<1>8. CASE Wake
  BY <1>8 DEF Wake
<1>9. CASE Join
  BY <1>9 DEF Join
<1>10. CASE Clear
  BY <1>10 DEF Clear
<1>11. CASE Stop
  BY <1>11 DEF Stop
<1>12. CASE Close
  BY <1>12 DEF Close
<1>13. CASE Reset
  BY <1>13 DEF Reset
<1>14. CASE FailConnect
  BY <1>14 DEF FailConnect
<1>15. CASE CloseAsync
  BY <1>15 DEF CloseAsync
<1>16. CASE ReconnectTimer
  BY <1>16 DEF ReconnectTimer
<1>17. CASE \E ok \in BOOLEAN : Retry(ok)
  <2>1. conn + 1 \in Conns /\ transport = None /\ tp[conn + 1] = "none" /\ tcp = {} /\ upc # "start"
    BY <1>17 DEF Retry
  <2>2. /\ conn' = conn + 1 /\ UNCHANGED <<transport, upc>>
        /\ wpc' \in {"loop", "stop"}
        /\ \/ tcp' = {conn + 1} /\ tp' = [tp EXCEPT ![conn + 1] = "connecting"]
           \/ tcp' = {} /\ tp' = [tp EXCEPT ![conn + 1] = "none"]
    BY <1>17, <2>1 DEF Retry
  <2> QED
    BY ONLY <2>1, <2>2, tp \in [Conns -> {"none", "connecting", "working", "closed", "freed"}], PathInv,
            ConnMax \in Nat, conn \in Nat DEF PathInv, TpForward, Conns, None
<1>18. CASE \E c \in Conns, ok \in BOOLEAN : TcpConnected(c, ok)
  BY <1>18 DEF TcpConnected
<1>19. CASE StoreConnected
  BY <1>19 DEF StoreConnected
<1>20. CASE HandshakeReq
  BY <1>20 DEF HandshakeReq
<1>21. CASE \E c \in Conns, ok \in BOOLEAN : HandshakeWritten(c, ok)
  BY <1>21 DEF HandshakeWritten
<1>22. CASE \E c \in Conns, h \in Handshakes : HandshakeResp(c, h)
  BY <1>22 DEF HandshakeResp
<1>23. CASE \E c \in Conns, ok \in BOOLEAN : AckWritten(c, ok)
  BY <1>23 DEF AckWritten
<1>24. CASE \E c \in Conns : HeartbeatRead(c)
  BY <1>24 DEF HeartbeatRead
<1>25. CASE \E c \in Conns : ReadEnds(c)
  BY <1>25 DEF ReadEnds
<1>26. CASE \E c \in Conns : BadPackage(c)
  BY <1>26 DEF BadPackage
<1>27. CASE HeartbeatTimer
  BY <1>27 DEF HeartbeatTimer
<1>28. CASE \E c \in Conns, ok \in BOOLEAN : HeartbeatWritten(c, ok)
  BY <1>28 DEF HeartbeatWritten
<1>29. CASE \E t \in Timers : TimerExpires(t)
  BY <1>29 DEF TimerExpires
<1>30. CASE \E x \in Calls, ok \in BOOLEAN : AsyncWrite(x, ok)
  BY <1>30 DEF AsyncWrite
<1>31. CASE \E x \in Calls, ok \in BOOLEAN : Written(x, ok)
  BY <1>31 DEF Written
<1>32. CASE \E x \in Requests : Response(x)
  BY <1>32 DEF Response
<1>33. CASE \E c \in Conns : FreeTransport(c)
  BY <1>33 DEF FreeTransport
<1>34. CASE LoopEnds
  BY <1>34 DEF LoopEnds
<1>35. CASE Exit
  BY <1>35 DEF Exit
<1>36. CASE WorkerEnds
  BY <1>36 DEF WorkerEnds
<1>37. CASE UseAfterFree
  BY <1>37 DEF UseAfterFree
<1>38. CASE UNCHANGED vars
  BY <1>38 DEF vars
<1> QED
  BY <1>1, <1>2, <1>3, <1>4, <1>5, <1>6, <1>7, <1>8, <1>9, <1>10, <1>11, <1>12, <1>13, <1>14,
     <1>15, <1>16, <1>17, <1>18, <1>19, <1>20, <1>21, <1>22, <1>23, <1>24, <1>25, <1>26, <1>27, <1>28,
     <1>29, <1>30, <1>31, <1>32, <1>33, <1>34, <1>35, <1>36, <1>37, <1>38
     DEF Next, UserCall, UserStep, WorkerStep, Timer, Due, Network
-----------------------------------------------------------------------------
(* Requests and notifies *)

Early == {"new", "send", "queued", "refused"}

\* the connection of a call works
Works(x) == tp[via[x]] = "working"

\* a call that was begun has a transport, and the user's thread knows which call it makes
CallInv ==
  /\ \A x \in Calls : phase[x] \in {"send", "queued", "writing", "sent", "done"} => via[x] \in Conns
  /\ \A x \in Calls : via[x] \in Conns => tp[via[x]] \in {"working", "closed", "freed"}
  /\ upc \in {"ask", "send"} => arg \in Calls
  /\ upc = "ask" => phase[arg] = "new" /\ via[arg] \in Conns
  /\ upc = "send" => phase[arg] = "send"
  /\ upc = "gone" => requests = {}

\* what a request was called back with, by how far it is and whether the map has it
RequestInv(r) ==
  \/ phase[r] \in Early /\ r \notin requests /\ answers[r] = <<>>
  \/ phase[r] \in {"writing", "sent"} /\ r \in requests /\ answers[r] = <<>>
  \/ phase[r] \in {"writing", "sent"} /\ r \notin requests /\ answers[r] = <<"failed">>
       /\ (upc = "gone" \/ ~Works(r))
  \/ phase[r] = "done" /\ r \in requests /\ answers[r] = <<"failed">> /\ ~Works(r)
  \/ phase[r] = "done" /\ r \notin requests /\ answers[r] \in {<<"ok">>, <<"failed">>}
  \/ phase[r] = "done" /\ r \notin requests /\ answers[r] = <<"failed", "failed">> /\ ~Works(r)

\* and a notify
NotifyInv(n) ==
  \/ phase[n] \in Early \cup {"writing"} /\ answers[n] = <<>>
  \/ phase[n] = "done" /\ answers[n] \in {<<"ok">>, <<"failed">>}

AskInv == CallInv /\ (\A r \in Requests : RequestInv(r)) /\ (\A n \in Notifies : NotifyInv(n))

\* a step that is about something else
OtherStep ==
  /\ UNCHANGED <<asks, arg>>
  /\ upc' = upc \/ {upc, upc'} \cap {"ask", "send", "gone"} = {}

\* the steps that are about calls, and the others
LEMMA StepKinds ==
  [Next]_vars =>
    \/ OtherStep \/ CheckTransport \/ Send \/ Clear \/ Reset
    \/ \E x \in Calls : Ask(x) \/ \E ok \in BOOLEAN : AsyncWrite(x, ok) \/ Written(x, ok)
    \/ \E x \in Requests : Response(x)
<1> SUFFICES ASSUME [Next]_vars
             PROVE  \/ OtherStep \/ CheckTransport \/ Send \/ Clear \/ Reset
                    \/ \E x \in Calls : Ask(x) \/ \E ok \in BOOLEAN : AsyncWrite(x, ok) \/ Written(x, ok)
                    \/ \E x \in Requests : Response(x)
  OBVIOUS
<1> USE DEF UserAt, memory, asks, user, worker, Broadcast, Segfault
<1>1. CASE \E a \in Apis, ok \in BOOLEAN : Connect(a, ok)
  BY <1>1 DEF Connect, OtherStep
<1>2. CASE CondWait
  BY <1>2 DEF CondWait, OtherStep
<1>3. CASE \E x \in Calls : Ask(x)
  BY <1>3
<1>4. CASE CheckTransport
  BY <1>4
<1>5. CASE Send
  BY <1>5
<1>6. CASE Destroy
  BY <1>6 DEF Destroy, OtherStep
<1>7. CASE Disconnect
  BY <1>7 DEF Disconnect, OtherStep
<1>8. CASE Wake
  BY <1>8 DEF Wake, OtherStep
<1>9. CASE Join
  BY <1>9 DEF Join, OtherStep
<1>10. CASE Clear
  BY <1>10
<1>11. CASE Stop
  BY <1>11 DEF Stop, OtherStep
<1>12. CASE Close
  BY <1>12 DEF Close, OtherStep
<1>13. CASE Reset
  BY <1>13
<1>14. CASE FailConnect
  BY <1>14 DEF FailConnect, OtherStep
<1>15. CASE CloseAsync
  BY <1>15 DEF CloseAsync, OtherStep
<1>16. CASE ReconnectTimer
  BY <1>16 DEF ReconnectTimer, OtherStep
<1>17. CASE \E ok \in BOOLEAN : Retry(ok)
  BY <1>17 DEF Retry, OtherStep
<1>18. CASE \E c \in Conns, ok \in BOOLEAN : TcpConnected(c, ok)
  BY <1>18 DEF TcpConnected, OtherStep
<1>19. CASE StoreConnected
  BY <1>19 DEF StoreConnected, OtherStep
<1>20. CASE HandshakeReq
  BY <1>20 DEF HandshakeReq, OtherStep
<1>21. CASE \E c \in Conns, ok \in BOOLEAN : HandshakeWritten(c, ok)
  BY <1>21 DEF HandshakeWritten, OtherStep
<1>22. CASE \E c \in Conns, h \in Handshakes : HandshakeResp(c, h)
  BY <1>22 DEF HandshakeResp, OtherStep
<1>23. CASE \E c \in Conns, ok \in BOOLEAN : AckWritten(c, ok)
  BY <1>23 DEF AckWritten, OtherStep
<1>24. CASE \E c \in Conns : HeartbeatRead(c)
  BY <1>24 DEF HeartbeatRead, OtherStep
<1>25. CASE \E c \in Conns : ReadEnds(c)
  BY <1>25 DEF ReadEnds, OtherStep
<1>26. CASE \E c \in Conns : BadPackage(c)
  BY <1>26 DEF BadPackage, OtherStep
<1>27. CASE HeartbeatTimer
  BY <1>27 DEF HeartbeatTimer, OtherStep
<1>28. CASE \E c \in Conns, ok \in BOOLEAN : HeartbeatWritten(c, ok)
  BY <1>28 DEF HeartbeatWritten, OtherStep
<1>29. CASE \E t \in Timers : TimerExpires(t)
  BY <1>29 DEF TimerExpires, OtherStep
<1>30. CASE \E x \in Calls, ok \in BOOLEAN : AsyncWrite(x, ok)
  BY <1>30
<1>31. CASE \E x \in Calls, ok \in BOOLEAN : Written(x, ok)
  BY <1>31
<1>32. CASE \E x \in Requests : Response(x)
  BY <1>32
<1>33. CASE \E c \in Conns : FreeTransport(c)
  BY <1>33 DEF FreeTransport, OtherStep
<1>34. CASE LoopEnds
  BY <1>34 DEF LoopEnds, OtherStep
<1>35. CASE Exit
  BY <1>35 DEF Exit, OtherStep
<1>36. CASE WorkerEnds
  BY <1>36 DEF WorkerEnds, OtherStep
<1>37. CASE UseAfterFree
  BY <1>37 DEF UseAfterFree, OtherStep
<1>38. CASE UNCHANGED vars
  BY <1>38 DEF vars, OtherStep
<1> QED
  BY <1>1, <1>2, <1>3, <1>4, <1>5, <1>6, <1>7, <1>8, <1>9, <1>10, <1>11, <1>12, <1>13, <1>14,
     <1>15, <1>16, <1>17, <1>18, <1>19, <1>20, <1>21, <1>22, <1>23, <1>24, <1>25, <1>26, <1>27, <1>28,
     <1>29, <1>30, <1>31, <1>32, <1>33, <1>34, <1>35, <1>36, <1>37, <1>38
     DEF Next, UserCall, UserStep, WorkerStep, Timer, Due, Network

\* callbacks add a status at the end of what was answered before
\* a sequence of one, and one more
LEMMA AppendOne == ASSUME NEW S, NEW a \in S, NEW b \in S PROVE Append(<<a>>, b) = <<a, b>>
<1>1. <<a>> \in Seq(S) /\ Len(<<a>>) = 1 /\ <<a>>[1] = a
  OBVIOUS
<1>2. Append(<<a>>, b) \in Seq(S) /\ Len(Append(<<a>>, b)) = 2
  BY <1>1, AppendProperties
<1>3. Append(<<a>>, b)[1] = a /\ Append(<<a>>, b)[2] = b
  BY <1>1, AppendProperties
<1>4. <<a, b>> \in Seq(S) /\ Len(<<a, b>>) = 2 /\ <<a, b>>[1] = a /\ <<a, b>>[2] = b
  OBVIOUS
<1>5. \A i \in 1..2 : i = 1 \/ i = 2
  OBVIOUS
<1>6. \A i \in 1..Len(Append(<<a>>, b)) : Append(<<a>>, b)[i] = <<a, b>>[i]
  BY <1>2, <1>3, <1>4, <1>5
<1> QED
  BY <1>2, <1>4, <1>6, SeqEqual

\* callbacks add a status at the end of what was answered before
LEMMA Answers ==
  ASSUME TypeOK, NEW X, NEW status \in Statuses, Answer(X, status), NEW x \in Calls
  PROVE  /\ x \notin X => answers'[x] = answers[x]
         /\ x \in X /\ answers[x] = <<>> => answers'[x] = <<status>>
         /\ x \in X /\ answers[x] = <<"failed">> => answers'[x] = <<"failed", status>>
<1>1. answers'[x] = IF x \in X THEN Append(answers[x], status) ELSE answers[x]
  BY DEF Answer
<1>2. Append(<<>>, status) = <<status>>
  OBVIOUS
<1>3. Append(<<"failed">>, status) = <<"failed", status>>
  BY ONLY status \in Statuses, AppendOne DEF Statuses
<1>4. ASSUME x \notin X PROVE answers'[x] = answers[x]
  BY ONLY <1>1, <1>4
<1>5. ASSUME x \in X PROVE answers'[x] = Append(answers[x], status)
  BY ONLY <1>1, <1>5
<1>6. ASSUME x \in X, answers[x] = <<>> PROVE answers'[x] = <<status>>
  BY ONLY <1>2, <1>5, <1>6, Zenon
<1>7. ASSUME x \in X, answers[x] = <<"failed">> PROVE answers'[x] = <<"failed", status>>
  BY ONLY <1>3, <1>5, <1>7, Zenon
<1> QED
  BY ONLY <1>4, <1>6, <1>7, Zenon

(* A call keeps to its path. *)
LEMMA AskStep == IInv /\ TcpInv /\ PathInv /\ AskInv /\ [Next]_vars => AskInv'
<1> SUFFICES ASSUME IInv, TcpInv, PathInv, AskInv, [Next]_vars PROVE AskInv'
  OBVIOUS
<1>a. TpForward /\ PathInv'
  BY PathStep
<1>t. /\ TypeOK /\ TypeOK' /\ Requests \cap Notifies = {} /\ Calls = Requests \cup Notifies
      /\ \A c \in Conns : c # None
  BY TypeStep, ClientAssumption DEF IInv, Calls, Conns, None
<1>b. \A x \in Calls : via'[x] = via[x] /\ via[x] \in Conns =>
        /\ tp'[via[x]] \in {"working", "closed", "freed"}
        /\ Works(x)' => Works(x)
  BY <1>a, Zenon DEF TpForward, AskInv, CallInv, Works
<1>1. CASE OtherStep
  <2>1. /\ phase' = phase /\ via' = via /\ requests' = requests /\ answers' = answers /\ arg' = arg
        /\ upc' = upc \/ {upc, upc'} \cap {"ask", "send", "gone"} = {}
    BY <1>1 DEF OtherStep, asks
  <2>2. CallInv'
    BY <2>1, <1>b DEF AskInv, CallInv
  <2>3. ASSUME NEW r \in Requests PROVE RequestInv(r)'
    <3>1. RequestInv(r) /\ r \in Calls
      BY <1>t DEF AskInv
    <3>2. phase[r] = "done" \/ phase[r] \in {"writing", "sent"} => via[r] \in Conns
      BY <3>1 DEF AskInv, CallInv
    <3> QED
      BY <2>1, <3>1, <3>2, <1>b DEF RequestInv
  <2>4. ASSUME NEW n \in Notifies PROVE NotifyInv(n)'
    BY <2>1 DEF AskInv, NotifyInv
  <2> QED
    BY <2>2, <2>3, <2>4 DEF AskInv
<1>2. ASSUME NEW x \in Calls, Ask(x) PROVE AskInv'
  <2>1. /\ phase' = phase /\ requests' = requests /\ answers' = answers
        /\ via' = [via EXCEPT ![x] = transport] /\ phase[x] = "new"
        /\ upc' = "ask" /\ arg' = x /\ upc # "gone"
        /\ transport \in Conns /\ tp' = tp
    BY <1>2 DEF Ask, UserAt, IInv, LinkInv, link
  <2>2. tp'[transport] = "working"
    BY <1>2, <2>1 DEF Ask, PathInv
  <2>3. CallInv'
    BY <2>1, <2>2, <1>t DEF AskInv, CallInv, TypeOK
  <2>4. ASSUME NEW r \in Requests PROVE RequestInv(r)'
    <3>1. RequestInv(r) /\ r \in Calls
      BY <1>t DEF AskInv
    <3>2. r # x => via'[r] = via[r]
      BY <2>1, <3>1, <1>t DEF TypeOK
    <3> QED
      BY <2>1, <3>1, <3>2 DEF RequestInv, Early, Works
  <2>5. ASSUME NEW n \in Notifies PROVE NotifyInv(n)'
    BY <2>1 DEF AskInv, NotifyInv
  <2> QED
    BY <2>3, <2>4, <2>5 DEF AskInv
<1>3. CASE CheckTransport
  <2>1. /\ via' = via /\ requests' = requests /\ answers' = answers /\ tp' = tp
        /\ upc = "ask" /\ arg \in Calls /\ phase[arg] = "new" /\ via[arg] \in Conns
    BY <1>3 DEF CheckTransport, UserAt, AskInv, CallInv, asks, link
  <2>2. \/ phase' = [phase EXCEPT ![arg] = "send"] /\ upc' = "send" /\ arg' = arg
        \/ phase' = [phase EXCEPT ![arg] = "refused"] /\ upc' = "idle"
        \/ phase' = phase /\ upc' = upc /\ arg' = arg
    BY <1>3 DEF CheckTransport, asks, user
  <2>3. CallInv'
    BY <2>1, <2>2, <1>t DEF AskInv, CallInv, TypeOK
  <2>4. ASSUME NEW r \in Requests PROVE RequestInv(r)'
    <3>1. RequestInv(r) /\ r \in Calls
      BY <1>t DEF AskInv
    <3>2. phase'[r] = phase[r] \/ (r = arg /\ phase'[r] \in Early)
      BY <2>1, <2>2, <3>1, <1>t DEF TypeOK, Early
    <3> QED
      BY <2>1, <2>2, <3>1, <3>2 DEF RequestInv, Early, Works
  <2>5. ASSUME NEW n \in Notifies PROVE NotifyInv(n)'
    <3>1. NotifyInv(n) /\ n \in Calls
      BY <1>t DEF AskInv
    <3>2. phase'[n] = phase[n] \/ (n = arg /\ phase'[n] \in Early)
      BY <2>1, <2>2, <3>1, <1>t DEF TypeOK, Early
    <3> QED
      BY <2>1, <3>1, <3>2 DEF NotifyInv, Early
  <2> QED
    BY <2>3, <2>4, <2>5 DEF AskInv
<1>4. CASE Send
  <2>1. /\ via' = via /\ requests' = requests /\ answers' = answers /\ tp' = tp
        /\ upc = "send" /\ upc' = "idle" /\ arg \in Calls /\ phase[arg] = "send"
        /\ phase' = [phase EXCEPT ![arg] = "queued"]
    BY <1>4 DEF Send, UserAt, AskInv, CallInv, link
  <2>3. CallInv'
    BY <2>1, <1>t DEF AskInv, CallInv, TypeOK
  <2>4. ASSUME NEW r \in Requests PROVE RequestInv(r)'
    <3>1. RequestInv(r) /\ r \in Calls
      BY <1>t DEF AskInv
    <3>2. phase'[r] = phase[r] \/ (r = arg /\ phase'[r] \in Early)
      BY <2>1, <3>1, <1>t DEF TypeOK, Early
    <3> QED
      BY <2>1, <3>1, <3>2 DEF RequestInv, Early, Works
  <2>5. ASSUME NEW n \in Notifies PROVE NotifyInv(n)'
    <3>1. NotifyInv(n) /\ n \in Calls
      BY <1>t DEF AskInv
    <3>2. phase'[n] = phase[n] \/ (n = arg /\ phase'[n] \in Early)
      BY <2>1, <3>1, <1>t DEF TypeOK, Early
    <3> QED
      BY <2>1, <3>1, <3>2 DEF NotifyInv, Early
  <2> QED
    BY <2>3, <2>4, <2>5 DEF AskInv
<1>5. CASE Clear
  <2>1. /\ via' = via /\ phase' = phase /\ tp' = tp /\ requests' = {}
        /\ upc = "clear" /\ upc' = "gone" /\ Answer(requests, "failed")
    BY <1>5 DEF Clear, UserAt, link
  <2>3. CallInv'
    BY <2>1 DEF AskInv, CallInv
  <2>4. ASSUME NEW r \in Requests PROVE RequestInv(r)'
    <3>1. RequestInv(r) /\ r \in Calls
      BY <1>t DEF AskInv
    <3>2. /\ r \notin requests => answers'[r] = answers[r]
          /\ r \in requests /\ answers[r] = <<>> => answers'[r] = <<"failed">>
          /\ r \in requests /\ answers[r] = <<"failed">> => answers'[r] = <<"failed", "failed">>
      BY ONLY <2>1, <3>1, <1>t, Answers DEF Statuses
    <3> QED
      BY <2>1, <3>1, <3>2 DEF RequestInv, Early, Works
  <2>5. ASSUME NEW n \in Notifies PROVE NotifyInv(n)'
    <3>1. NotifyInv(n) /\ n \in Calls /\ n \notin requests
      BY <1>t DEF AskInv, TypeOK
    <3>2. answers'[n] = answers[n]
      BY ONLY <2>1, <3>1, <1>t, Answers DEF Statuses
    <3> QED
      BY <2>1, <3>1, <3>2 DEF NotifyInv
  <2> QED
    BY <2>3, <2>4, <2>5 DEF AskInv
<1>6. CASE Reset
  <2>1. /\ via' = via /\ phase' = phase /\ requests' = {}
        /\ upc' = upc /\ arg' = arg /\ upc # "gone" /\ Answer(requests, "failed")
    BY <1>6 DEF Reset, WorkerAt, user
  <2>2. \A c \in Conns : tp'[c] # "working"
    BY <1>6 DEF Reset, CloseTransport, IInv, OneConnection
  <2>3. CallInv'
    BY <2>1, <1>b DEF AskInv, CallInv
  <2>4. ASSUME NEW r \in Requests PROVE RequestInv(r)'
    <3>1. RequestInv(r) /\ r \in Calls
      BY <1>t DEF AskInv
    <3>2. /\ r \notin requests => answers'[r] = answers[r]
          /\ r \in requests /\ answers[r] = <<>> => answers'[r] = <<"failed">>
          /\ r \in requests /\ answers[r] = <<"failed">> => answers'[r] = <<"failed", "failed">>
      BY ONLY <2>1, <3>1, <1>t, Answers DEF Statuses
    <3>3. phase[r] \in {"writing", "sent", "done"} => ~Works(r)'
      BY <2>1, <2>2, <3>1 DEF AskInv, CallInv, Works
    <3> QED
      BY <2>1, <3>1, <3>2, <3>3 DEF RequestInv, Early
  <2>5. ASSUME NEW n \in Notifies PROVE NotifyInv(n)'
    <3>1. NotifyInv(n) /\ n \in Calls /\ n \notin requests
      BY <1>t DEF AskInv, TypeOK
    <3>2. answers'[n] = answers[n]
      BY ONLY <2>1, <3>1, <1>t, Answers DEF Statuses
    <3> QED
      BY <2>1, <3>1, <3>2 DEF NotifyInv
  <2> QED
    BY <2>3, <2>4, <2>5 DEF AskInv
<1>7. ASSUME NEW x \in Calls, NEW ok \in BOOLEAN, AsyncWrite(x, ok) PROVE AskInv'
  <2>1. /\ via' = via /\ tp' = tp /\ upc' = upc /\ arg' = arg /\ phase[x] = "queued"
        /\ upc # "gone" /\ via[x] \in Conns
    BY <1>7 DEF AsyncWrite, WorkerAt, link, user, AskInv, CallInv
  <2>2. \/ /\ phase' = [phase EXCEPT ![x] = "writing"]
           /\ requests' = requests \cup ({x} \cap Requests) /\ answers' = answers
        \/ /\ phase' = [phase EXCEPT ![x] = "done"] /\ requests' = requests
           /\ \E status \in Statuses : Answer({x}, status)
        \/ UNCHANGED <<phase, requests, answers>>
    BY ONLY <1>7 DEF AsyncWrite, MapSet, Statuses
  <2>3. CallInv'
    BY <2>1, <2>2, <1>t DEF AskInv, CallInv, TypeOK
  <2>6. ASSUME NEW y \in Calls, y # x
        PROVE  phase'[y] = phase[y] /\ answers'[y] = answers[y] /\ (y \in requests' <=> y \in requests)
    <3>1. phase'[y] = phase[y] /\ (y \in requests' <=> y \in requests)
      BY <2>2, <2>6, <1>t DEF TypeOK
    <3>2. answers'[y] = answers[y]
      BY ONLY <2>2, <2>6, <1>t, Answers
    <3> QED
      BY <3>1, <3>2
  <2>7. /\ answers[x] = <<>> /\ x \notin requests
    BY <2>1, <1>t DEF AskInv, RequestInv, NotifyInv, TypeOK, Early
  <2>8. \/ phase'[x] = "writing" /\ (x \in Requests => x \in requests') /\ answers'[x] = <<>>
        \/ phase'[x] = "done" /\ x \notin requests' /\ answers'[x] \in {<<"ok">>, <<"failed">>}
        \/ phase'[x] = phase[x] /\ x \notin requests' /\ answers'[x] = <<>>
    <3>1. phase \in [Calls -> Phases]
      BY <1>t DEF TypeOK
    <3>2. ASSUME NEW status \in Statuses, Answer({x}, status) PROVE answers'[x] \in {<<"ok">>, <<"failed">>}
      <4>1. answers'[x] = <<status>>
        BY ONLY <3>2, <2>7, <1>t, Answers
      <4> QED
        BY ONLY <4>1, status \in Statuses DEF Statuses
    <3> QED
      BY ONLY <2>2, <2>7, <3>1, <3>2
  <2>4. ASSUME NEW r \in Requests PROVE RequestInv(r)'
    <3>1. RequestInv(r) /\ r \in Calls
      BY <1>t DEF AskInv
    <3>2. CASE r = x
      BY <2>1, <2>8, <3>2 DEF RequestInv, Early
    <3>3. CASE r # x
      BY <2>1, <2>6, <3>1, <3>3 DEF RequestInv, Works
    <3> QED
      BY <3>2, <3>3
  <2>5. ASSUME NEW n \in Notifies PROVE NotifyInv(n)'
    <3>1. NotifyInv(n) /\ n \in Calls
      BY <1>t DEF AskInv
    <3>2. CASE n = x
      BY <2>1, <2>8, <3>2 DEF NotifyInv, Early
    <3>3. CASE n # x
      BY <2>6, <3>1, <3>3 DEF NotifyInv
    <3> QED
      BY <3>2, <3>3
  <2> QED
    BY <2>3, <2>4, <2>5 DEF AskInv
<1>8. ASSUME NEW x \in Calls, NEW ok \in BOOLEAN, Written(x, ok) PROVE AskInv'
  <2>1. /\ via' = via /\ tp' = tp /\ upc' = upc /\ arg' = arg /\ phase[x] = "writing"
        /\ upc # "gone" /\ via[x] \in Conns
        /\ phase' = [phase EXCEPT ![x] = IF ok /\ x \in Requests THEN "sent" ELSE "done"]
        /\ ok => Works(x)
    BY <1>8 DEF Written, WorkerAt, link, user, AskInv, CallInv, Ends, Works
  <2>2. /\ requests' = IF ~ok /\ Works(x) THEN requests \ {x} ELSE requests
        /\ ok /\ x \in Requests => answers' = answers
        /\ ok /\ x \in Notifies => Answer({x}, "ok")
        /\ ~ok => Answer({x}, "failed")
    BY <1>8, <1>t DEF Written, MapDel, Works
  <2>3. CallInv'
    BY <2>1, <2>2, <1>t DEF AskInv, CallInv, TypeOK
  <2>6. ASSUME NEW y \in Calls, y # x
        PROVE  phase'[y] = phase[y] /\ answers'[y] = answers[y] /\ (y \in requests' <=> y \in requests)
    <3>1. phase'[y] = phase[y] /\ (y \in requests' <=> y \in requests)
      BY <2>1, <2>2, <2>6, <1>t DEF TypeOK
    <3>2. answers'[y] = answers[y]
      <4>1. answers' = answers \/ \E status \in Statuses : Answer({x}, status)
        BY <2>2, <1>t DEF Statuses
      <4> QED
        BY ONLY <4>1, <2>6, <1>t, Answers
    <3> QED
      BY <3>1, <3>2
  <2>7. phase'[x] = IF ok /\ x \in Requests THEN "sent" ELSE "done"
    BY <2>1, <1>t DEF TypeOK
  <2>4. ASSUME NEW r \in Requests PROVE RequestInv(r)'
    <3>1. RequestInv(r) /\ r \in Calls
      BY <1>t DEF AskInv
    <3>2. CASE r = x /\ ok
      BY <2>1, <2>2, <2>7, <3>1, <3>2 DEF RequestInv, Early, Works
    <3>3. CASE r = x /\ ~ok
      <4>1. /\ answers[r] = <<>> => answers'[r] = <<"failed">>
            /\ answers[r] = <<"failed">> => answers'[r] = <<"failed", "failed">>
        BY ONLY <2>2, <3>1, <3>3, <1>t, Answers DEF Statuses
      <4> QED
        BY <2>1, <2>2, <2>7, <3>1, <3>3, <4>1 DEF RequestInv, Early, Works
    <3>4. CASE r # x
      BY <2>1, <2>6, <3>1, <3>4 DEF RequestInv, Works
    <3> QED
      BY <3>2, <3>3, <3>4
  <2>5. ASSUME NEW n \in Notifies PROVE NotifyInv(n)'
    <3>1. NotifyInv(n) /\ n \in Calls /\ n \notin Requests
      BY <1>t DEF AskInv
    <3>2. CASE n = x
      <4>1. answers[n] = <<>>
        BY <2>1, <3>1, <3>2 DEF NotifyInv, Early
      <4>2. answers'[n] \in {<<"ok">>, <<"failed">>}
        BY ONLY <2>2, <3>1, <3>2, <4>1, <1>t, Answers DEF Statuses
      <4> QED
        BY <2>7, <3>1, <3>2, <4>2 DEF NotifyInv
    <3>3. CASE n # x
      BY <2>6, <3>1, <3>3 DEF NotifyInv
    <3> QED
      BY <3>2, <3>3
  <2> QED
    BY <2>3, <2>4, <2>5 DEF AskInv
<1>9. ASSUME NEW x \in Requests, Response(x) PROVE AskInv'
  <2>1. /\ via' = via /\ tp' = tp /\ upc' = upc /\ arg' = arg /\ phase[x] = "sent"
        /\ x \in requests /\ x \in Calls /\ upc # "gone"
        /\ phase' = [phase EXCEPT ![x] = "done"] /\ requests' = requests \ {x}
        /\ Answer({x}, "ok")
    BY <1>9, <1>t DEF Response, MapDel, Talking, Reading, WorkerAt, link, user
  <2>3. CallInv'
    BY <2>1, <1>t DEF AskInv, CallInv, TypeOK
  <2>6. ASSUME NEW y \in Calls, y # x
        PROVE  phase'[y] = phase[y] /\ answers'[y] = answers[y] /\ (y \in requests' <=> y \in requests)
    <3>1. phase'[y] = phase[y] /\ (y \in requests' <=> y \in requests)
      BY <2>1, <2>6, <1>t DEF TypeOK
    <3>2. answers'[y] = answers[y]
      BY ONLY <2>1, <2>6, <1>t, Answers DEF Statuses
    <3> QED
      BY <3>1, <3>2
  <2>7. answers'[x] = <<"ok">> /\ phase'[x] = "done"
    <3>1. answers[x] = <<>>
      BY <2>1 DEF AskInv, RequestInv, Early
    <3>2. answers'[x] = <<"ok">>
      BY ONLY <2>1, <3>1, <1>t, Answers DEF Statuses
    <3> QED
      BY <2>1, <3>2, <1>t DEF TypeOK
  <2>4. ASSUME NEW r \in Requests PROVE RequestInv(r)'
    <3>1. RequestInv(r) /\ r \in Calls
      BY <1>t DEF AskInv
    <3>2. CASE r = x
      BY <2>1, <2>7, <3>2 DEF RequestInv
    <3>3. CASE r # x
      BY <2>1, <2>6, <3>1, <3>3 DEF RequestInv, Works
    <3> QED
      BY <3>2, <3>3
  <2>5. ASSUME NEW n \in Notifies PROVE NotifyInv(n)'
    <3>1. NotifyInv(n) /\ n \in Calls /\ n # x
      BY <1>t DEF AskInv
    <3> QED
      BY <2>6, <3>1 DEF NotifyInv
  <2> QED
    BY <2>3, <2>4, <2>5 DEF AskInv
<1> QED
  BY <1>1, <1>2, <1>3, <1>4, <1>5, <1>6, <1>7, <1>8, <1>9, StepKinds

\* what was answered is told from what was not
LEMMA NotEmpty == <<>> \notin {<<"ok">>, <<"failed">>, <<"failed", "failed">>}
<1>1. Len(<<>>) = 0 /\ Len(<<"ok">>) = 1 /\ Len(<<"failed">>) = 1 /\ Len(<<"failed", "failed">>) = 2
  OBVIOUS
<1> QED
  BY <1>1

\* one status at most
LEMMA ShortAnswers == ASSUME NEW s \in {<<>>, <<"ok">>, <<"failed">>} PROVE Len(s) <= 1
<1>1. Len(<<>>) = 0 /\ Len(<<"ok">>) = 1 /\ Len(<<"failed">>) = 1
  OBVIOUS
<1>2. CASE s = <<>>
  BY ONLY <1>1, <1>2
<1>3. CASE s = <<"ok">>
  BY ONLY <1>1, <1>3
<1>4. CASE s = <<"failed">>
  BY ONLY <1>1, <1>4
<1> QED
  BY ONLY <1>2, <1>3, <1>4, s \in {<<>>, <<"ok">>, <<"failed">>}, Zenon

\* calls begin without a transport, and nothing was answered
LEMMA AskInit == Init => PathInv /\ TcpInv /\ AskInv
<1> SUFFICES ASSUME Init PROVE PathInv /\ TcpInv /\ AskInv
  OBVIOUS
<1>1. PathInv /\ TcpInv
  BY ClientAssumption DEF Init, PathInv, TcpInv, Conns, None
<1>2. AskInv
  BY DEF Init, AskInv, CallInv, RequestInv, NotifyInv, Early, Calls, Conns, None
<1> QED
  BY <1>1, <1>2

\* the invariants hold throughout
LEMMA AskInductive == Spec => [](IInv /\ AskInv)
<1>1. IInv /\ TcpInv /\ PathInv /\ AskInv /\ [Next]_vars => TcpInv' /\ PathInv' /\ AskInv'
  BY TcpStep, PathStep, AskStep
<1> QED
  BY <1>1, AskInit, Inductive, PTL DEF Spec

(* While a connection works, the map holds the requests that were written on it and still
   wait, and no other (pc__request, pc__on_request, pc__process_response). *)
THEOREM MapHoldsWaitingAlways == Spec => []MapHoldsWaiting
<1>1. ASSUME IInv, AskInv PROVE MapHoldsWaiting
  BY <1>1 DEF IInv, AskInv, RequestInv, MapHoldsWaiting, Early, Works
<1> QED
  BY <1>1, AskInductive, PTL

(* A request that was written has been called back when the client is gone: by the response,
   the write that failed, or pc__client_clear. *)
THEOREM WrittenIsAnsweredAlways == Spec => []WrittenIsAnswered
<1>1. ASSUME IInv, AskInv PROVE WrittenIsAnswered
  <2> SUFFICES ASSUME upc = "gone", NEW r \in Requests, phase[r] \in {"writing", "sent", "done"}
               PROVE  answers[r] # <<>>
    BY DEF WrittenIsAnswered
  <2>1. RequestInv(r) /\ requests = {}
    BY <1>1 DEF AskInv, CallInv
  <2>2. answers[r] \in {<<"ok">>, <<"failed">>, <<"failed", "failed">>}
    BY <2>1 DEF RequestInv, Early
  <2> QED
    BY ONLY <2>2, NotEmpty
<1> QED
  BY <1>1, AskInductive, PTL

(* No request and no notify is called back twice, but a request whose write was cancelled
   with its connection (pc__on_request, pc__release_requests). *)
THEOREM AnsweredOnceAlways == Spec => []AnsweredOnce
<1>1. ASSUME IInv, AskInv PROVE AnsweredOnce
  <2>2. ASSUME NEW r \in Requests
        PROVE  Len(answers[r]) <= 1 \/ (answers[r] = <<"failed", "failed">> /\ ~Works(r))
    <3>1. RequestInv(r)
      BY <1>1 DEF AskInv
    <3>2. answers[r] \in {<<>>, <<"ok">>, <<"failed">>} \/ (answers[r] = <<"failed", "failed">> /\ ~Works(r))
      BY ONLY <3>1, Zenon DEF RequestInv
    <3> QED
      BY ONLY <3>2, ShortAnswers
  <2>3. ASSUME NEW n \in Notifies PROVE Len(answers[n]) <= 1
    <3>1. NotifyInv(n)
      BY <1>1 DEF AskInv
    <3>2. answers[n] \in {<<>>, <<"ok">>, <<"failed">>}
      BY ONLY <3>1, Zenon DEF NotifyInv
    <3> QED
      BY ONLY <3>2, ShortAnswers
  <2> QED
    BY <2>2, <2>3 DEF AnsweredOnce, Works, Calls
<1> QED
  BY <1>1, AskInductive, PTL
-----------------------------------------------------------------------------
(* The timers of the heartbeat *)

\* a connection whose server asked for heartbeats is watched until it is closed
BeatInv ==
  /\ ~({"heartbeat", "timeout"} \subseteq armed)
  /\ \A c \in Conns : <<c, "ack">> \in writes => c \in shaken
  /\ \A c \in tcp : c \notin shaken
  /\ \A c \in Conns : c > conn => c \notin shaken
  /\ wpc \in {"connected", "handshake"} => transport \notin shaken
  /\ transport \in Conns => state # "closed"
  /\ wpc \in {"exit", "broadcast", "ended"} => transport = None
  /\ state = "working" => transport \in shaken
  /\ transport \in shaken /\ repeat => \/ {"heartbeat", "timeout"} \cap armed # {}
                                       \/ wpc \in {"stop", "close"}

\* whatever stops one of the two timers starts the other one, or stops the client
LEMMA BeatStep ==
  ASSUME ~EnableReconnect
  PROVE  IInv /\ ClosedInv /\ TcpInv /\ PathInv /\ BeatInv /\ [Next]_vars => BeatInv'
<1> SUFFICES ASSUME IInv, ClosedInv, TcpInv, PathInv, BeatInv, [Next]_vars PROVE BeatInv'
  OBVIOUS
<1> /\ transport \in Conns \cup {None} /\ tcp \subseteq Conns /\ shaken \subseteq Conns
    /\ writes \subseteq Conns \X {"handshake", "ack", "heartbeat"}
    /\ conn \in Nat /\ ConnMax \in Nat /\ armed \subseteq Timers
  BY ClientAssumption DEF TypeOK, IInv
<1> USE DEF IInv, LinkInv, ClosedInv, TcpInv, PathInv, BeatInv, OneConnection, Running, UserAt, WorkerAt, memory,
             link, connect, clocks, asks, user, worker, Conns, None,
             Stopping, Return, AfterStop, CloseTransport, CloseHandles, DropConnReq, Broadcast,
             BeginConnect, Reading, Talking, Segfault,
             StillConnecting, Ends, GotHeartbeat, AwaitHeartbeat, LoopAlive, Timers
<1>1. CASE \E a \in Apis, ok \in BOOLEAN : Connect(a, ok)
  BY <1>1 DEF Connect
<1>2. CASE CondWait
  BY <1>2 DEF CondWait
<1>3. CASE \E x \in Calls : Ask(x)
  BY <1>3 DEF Ask
<1>4. CASE CheckTransport
  BY <1>4 DEF CheckTransport
<1>5. CASE Send
  BY <1>5 DEF Send
<1>6. CASE Destroy
  BY <1>6 DEF Destroy
<1>7. CASE Disconnect
  BY <1>7 DEF Disconnect
<1>8. CASE Wake
  BY <1>8 DEF Wake
<1>9. CASE Join
  BY <1>9 DEF Join
<1>10. CASE Clear
  BY <1>10 DEF Clear
<1>11. CASE Stop
  BY <1>11 DEF Stop
<1>12. CASE Close
  BY <1>12 DEF Close
<1>13. CASE Reset
  BY <1>13 DEF Reset
<1>14. CASE FailConnect
  BY <1>14 DEF FailConnect
<1>15. CASE CloseAsync
  BY <1>15 DEF CloseAsync
<1>16. CASE ReconnectTimer
  BY <1>16 DEF ReconnectTimer
<1>17. CASE \E ok \in BOOLEAN : Retry(ok)
  BY <1>17 DEF Retry
<1>18. CASE \E c \in Conns, ok \in BOOLEAN : TcpConnected(c, ok)
  BY <1>18 DEF TcpConnected
<1>19. CASE StoreConnected
  BY <1>19 DEF StoreConnected
<1>20. CASE HandshakeReq
  BY <1>20 DEF HandshakeReq
<1>21. CASE \E c \in Conns, ok \in BOOLEAN : HandshakeWritten(c, ok)
  BY <1>21 DEF HandshakeWritten
<1>22. CASE \E c \in Conns, h \in Handshakes : HandshakeResp(c, h)
  BY <1>22 DEF HandshakeResp
<1>23. CASE \E c \in Conns, ok \in BOOLEAN : AckWritten(c, ok)
  BY <1>23 DEF AckWritten
<1>24. CASE \E c \in Conns : HeartbeatRead(c)
  BY <1>24 DEF HeartbeatRead
<1>25. CASE \E c \in Conns : ReadEnds(c)
  BY <1>25 DEF ReadEnds
<1>26. CASE \E c \in Conns : BadPackage(c)
  BY <1>26 DEF BadPackage
<1>27. CASE HeartbeatTimer
  BY <1>27 DEF HeartbeatTimer
<1>28. CASE \E c \in Conns, ok \in BOOLEAN : HeartbeatWritten(c, ok)
  BY <1>28 DEF HeartbeatWritten
<1>29. CASE \E t \in Timers : TimerExpires(t)
  BY <1>29 DEF TimerExpires
<1>30. CASE \E x \in Calls, ok \in BOOLEAN : AsyncWrite(x, ok)
  BY <1>30 DEF AsyncWrite
<1>31. CASE \E x \in Calls, ok \in BOOLEAN : Written(x, ok)
  BY <1>31 DEF Written
<1>32. CASE \E x \in Requests : Response(x)
  BY <1>32 DEF Response
<1>33. CASE \E c \in Conns : FreeTransport(c)
  BY <1>33 DEF FreeTransport
<1>34. CASE LoopEnds
  BY <1>34 DEF LoopEnds
<1>35. CASE Exit
  BY <1>35 DEF Exit
<1>36. CASE WorkerEnds
  BY <1>36 DEF WorkerEnds
<1>37. CASE UseAfterFree
  BY <1>37 DEF UseAfterFree
<1>38. CASE UNCHANGED vars
  BY <1>38 DEF vars
<1> QED
  BY <1>1, <1>2, <1>3, <1>4, <1>5, <1>6, <1>7, <1>8, <1>9, <1>10, <1>11, <1>12, <1>13, <1>14,
     <1>15, <1>16, <1>17, <1>18, <1>19, <1>20, <1>21, <1>22, <1>23, <1>24, <1>25, <1>26, <1>27, <1>28,
     <1>29, <1>30, <1>31, <1>32, <1>33, <1>34, <1>35, <1>36, <1>37, <1>38
     DEF Next, UserCall, UserStep, WorkerStep, Timer, Due, Network

(* A client that works with heartbeats on waits to send the next one or for the answer to
   the last one, and never for both (pc__heartbeat, pc__heartbeat_cb, pc__handshake_resp). *)
THEOREM HeartbeatWatchedAlways ==
  ASSUME ~EnableReconnect
  PROVE  Spec => []HeartbeatWatched
<1>1. Init => ClosedInv /\ TcpInv /\ PathInv /\ BeatInv
  BY AskInit, ClientAssumption DEF Init, ClosedInv, BeatInv, Conns, None
<1>2. IInv /\ ClosedInv /\ TcpInv /\ PathInv /\ BeatInv /\ [Next]_vars
        => ClosedInv' /\ TcpInv' /\ PathInv' /\ BeatInv'
  BY ClosedStep, TcpStep, PathStep, BeatStep
<1>3. BeatInv => HeartbeatWatched
  BY DEF BeatInv, HeartbeatWatched
<1> QED
  BY <1>1, <1>2, <1>3, Inductive, PTL DEF Spec
=============================================================================
