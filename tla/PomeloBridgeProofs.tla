------------------------- MODULE PomeloBridgeProofs -------------------------
(***************************************************************************)
(* Theorems about PomeloBridge, for any number of clients, calls and       *)
(* events and any capacity of the socket pair: the type invariant; the     *)
(* inductive invariant from which task_count never drifts and no wake-up   *)
(* is lost; that the callback of a call that is under way is kept; that    *)
(* every step is one of the mailbox; and that the mutexes make no circle.  *)
(***************************************************************************)
EXTENDS PomeloBridge, TLAPS, FiniteSetTheorems, SequenceTheorems

-----------------------------------------------------------------------------
(* The inductive invariant *)

\* what a worker carries through a callback
WorkerItem ==
  \A c \in Clients :
    /\ wpc[c] = "content" => witem[c] \in Results
    /\ wpc[c] \in {"lock", "unlock", "signal"} => witem[c] \in Items

\* the main thread is in a call of Lua's
InCall == mpc \in {"listener", "destroy", "disconnect", "join", "release"}

CallInv ==
  /\ InCall => pending # None
  /\ pending # None => pending.back \in {"callback", "connected", "run"}

\* while an attempt is under way its result is not announced, and there is one
\* attempt at a time
Announced == connect_status = 1 /\ connect_content # None

Connected == mpc = "connected" \/ (InCall /\ pending.back = "connected")

ConnectInv ==
  /\ \A c \in Clients : cstate[c] = "connecting" =>
       connect_status = 0 /\ connect_content # None /\ connect_content.client = c
  /\ connect_content = None => connect_status = 0
  /\ Connected => Announced

PauseInv == mpc = "pause" => task_count = 0

TypeInv == TypeOK /\ WorkerItem /\ CallInv

IInv ==
  /\ TypeInv
  /\ ConnectInv /\ PauseInv
  /\ TaskCountAccurate /\ NoLostWakeup

-----------------------------------------------------------------------------
(* Types *)

LEMMA KindOfType == ASSUME NEW x PROVE KindOf(x) \in Kinds
  BY DEF KindOf, Kinds

LEMMA TypeInit == Init => TypeInv
<1> SUFFICES ASSUME Init PROVE TypeInv
  OBVIOUS
<1> USE DEF Init, Kinds
<1>1. BridgeTypeOK
  <2>1. queue \in [Kinds -> Seq(Items)] /\ lock \in [Kinds -> Clients \cup {Main, None}]
    BY DEF Kinds
  <2>2. running \in BOOLEAN
    OBVIOUS
  <2>3. task_count \in Int /\ connect_status \in {0, 1} /\ connect_content \in ConnectContents \cup {None}
    OBVIOUS
  <2> QED
    BY <2>1, <2>2, <2>3 DEF BridgeTypeOK
<1>2. LoopTypeOK
  <2>1. stop_server \in BOOLEAN /\ time_out \in BOOLEAN
    OBVIOUS
  <2>2. pipe \in Seq(Bytes) /\ batch \in Seq(Bytes) /\ mpc \in MainPCs
    BY DEF MainPCs
  <2> QED
    BY <2>1, <2>2 DEF LoopTypeOK
<1>3. PomeloTypeOK
  BY DEF PomeloTypeOK, CStates, WorkerPCs
<1>4. WorkerItem /\ CallInv
  BY DEF WorkerItem, CallInv, InCall
<1> QED
  BY <1>1, <1>2, <1>3, <1>4 DEF TypeInv, TypeOK

LEMMA TypeWorker ==
  ASSUME TypeInv, NEW c \in Clients, Worker(c)
  PROVE  TypeInv'
<1> USE DEF TypeInv, TypeOK, BridgeTypeOK, LoopTypeOK, PomeloTypeOK, WorkerItem, CallInv, InCall,
           Items, ConnectContents, LuaOps, Kinds, Contexts, Results, Bytes, MainPCs, WorkerPCs, CStates, Goto, At, bridge, loop, pomelo
<1>1. ASSUME NEW result \in Results, OnConnect(c, result) PROVE TypeInv'
  BY <1>1 DEF OnConnect, EnterCallback
<1>2. ASSUME NEW x \in Requests \cup Notifies, OnAnswer(c, x) PROVE TypeInv'
  <2>1. BridgeTypeOK'
    BY <1>2 DEF OnAnswer, EnterCallback
  <2>2. LoopTypeOK'
    BY <1>2 DEF OnAnswer, EnterCallback
  <2>3. PomeloTypeOK'
    BY <1>2 DEF OnAnswer, EnterCallback
  <2>4. WorkerItem' /\ CallInv'
    BY <1>2 DEF OnAnswer, EnterCallback
  <2> QED
    BY <2>1, <2>2, <2>3, <2>4
<1>3. ASSUME NEW e \in Events, OnEvent(c, e) PROVE TypeInv'
  <2>1. BridgeTypeOK'
    BY <1>3 DEF OnEvent, Emit, EnterCallback
  <2>2. LoopTypeOK'
    BY <1>3 DEF OnEvent, Emit, EnterCallback
  <2>3. PomeloTypeOK'
    BY <1>3 DEF OnEvent, Emit, EnterCallback
  <2>4. WorkerItem' /\ CallInv'
    BY <1>3 DEF OnEvent, Emit, EnterCallback
  <2> QED
    BY <2>1, <2>2, <2>3, <2>4
<1>4. ASSUME CloseClient(c) PROVE TypeInv'
  BY <1>4 DEF CloseClient
<1>5. ASSUME EmitDisconnect(c) PROVE TypeInv'
  <2>1. BridgeTypeOK'
    BY <1>5 DEF EmitDisconnect, Emit, EnterCallback
  <2>2. LoopTypeOK'
    BY <1>5 DEF EmitDisconnect, Emit, EnterCallback
  <2>3. PomeloTypeOK'
    BY <1>5 DEF EmitDisconnect, Emit, EnterCallback
  <2>4. WorkerItem' /\ CallInv'
    BY <1>5 DEF EmitDisconnect, Emit, EnterCallback
  <2> QED
    BY <2>1, <2>2, <2>3, <2>4
<1>6. ASSUME EndWorker(c) PROVE TypeInv'
  BY <1>6 DEF EndWorker
<1>7. ASSUME StoreConnectResult(c) PROVE TypeInv'
  <2>1. BridgeTypeOK'
    BY <1>7 DEF StoreConnectResult
  <2>2. LoopTypeOK'
    BY <1>7 DEF StoreConnectResult
  <2>3. PomeloTypeOK'
    BY <1>7 DEF StoreConnectResult
  <2>4. WorkerItem' /\ CallInv'
    BY <1>7 DEF StoreConnectResult
  <2> QED
    BY <2>1, <2>2, <2>3, <2>4
<1>8. ASSUME Push(c) PROVE TypeInv'
  <2> DEFINE k == KindOf(witem[c])
  <2>1. k \in Kinds
    BY KindOfType
  <2>2. queue' \in [Kinds -> Seq(Items)] /\ lock' \in [Kinds -> Clients \cup {Main, None}]
    <3>1. witem[c] \in Items /\ queue[k] \in Seq(Items)
      BY <1>8, <2>1 DEF Push
    <3>2. Append(queue[k], witem[c]) \in Seq(Items)
      BY <3>1
    <3> QED
      BY <1>8, <2>1, <3>2 DEF Push
  <2>3. UNCHANGED <<task_count, running, connect_status, connect_content, content, client, net_state>>
    BY <1>8 DEF Push
  <2>4. LoopTypeOK' /\ PomeloTypeOK' /\ WorkerItem' /\ CallInv'
    BY <1>8 DEF Push
  <2> QED
    BY <2>2, <2>3, <2>4
<1>9. ASSUME IncTaskCount(c) PROVE TypeInv'
  BY <1>9 DEF IncTaskCount
<1>10. ASSUME Resume(c) PROVE TypeInv'
  BY <1>10 DEF Resume
<1>11. ASSUME UnlockQueue(c) PROVE TypeInv'
  BY <1>11, KindOfType DEF UnlockQueue
<1>12. ASSUME SendSignal(c) PROVE TypeInv'
  BY <1>12 DEF SendSignal
<1>13. ASSUME AssertFails(c) PROVE TypeInv'
  BY <1>13 DEF AssertFails, Crash
<1>14. ASSUME UseAfterFree(c) PROVE TypeInv'
  BY <1>14 DEF UseAfterFree, Crash
<1> QED
  BY <1>1, <1>2, <1>3, <1>4, <1>5, <1>6, <1>7, <1>8, <1>9, <1>10, <1>11, <1>12, <1>13, <1>14 DEF Worker, WorkerStep

LEMMA TypeLua ==
  ASSUME TypeInv, LuaCall \/ LuaReturns \/ \E b \in Signals : Signal(b)
  PROVE  TypeInv'
<1> USE DEF TypeInv, TypeOK, BridgeTypeOK, LoopTypeOK, PomeloTypeOK, WorkerItem, CallInv, InCall,
           Items, ConnectContents, LuaOps, Kinds, Contexts, Results, Bytes, MainPCs, WorkerPCs, CStates, Goto, At, bridge, loop, pomelo
<1>1. ASSUME NEW c \in Clients, AsyncConnect(c) PROVE TypeInv'
  <2>1. c \in Clients /\ [client |-> c, status |-> "unset"] \in ConnectContents
        /\ [client |-> c, status |-> "error"] \in ConnectContents
    OBVIOUS
  <2>2. BridgeTypeOK'
    <3>1. connect_content' \in ConnectContents /\ connect_status' \in {0, 1}
          /\ task_count' \in Int
      BY <1>1, <2>1 DEF AsyncConnect
    <3>2. running' \in BOOLEAN
      BY <1>1 DEF AsyncConnect
    <3>3. UNCHANGED <<queue, lock, content, net_state>> /\ client' = c
      BY <1>1 DEF AsyncConnect
    <3> HIDE DEF ConnectContents
    <3> QED
      BY <3>1, <3>2, <3>3
  <2>3. LoopTypeOK'
    BY <1>1 DEF AsyncConnect
  <2>4. PomeloTypeOK'
    <3>1. cstate' \in [Clients -> CStates] /\ alive' \subseteq Clients
      BY <1>1 DEF AsyncConnect
    <3>2. UNCHANGED <<inflight, listeners, llock, wpc, witem, issued>>
      BY <1>1 DEF AsyncConnect
    <3> QED
      BY <3>1, <3>2
  <2>5. WorkerItem' /\ CallInv'
    BY <1>1 DEF AsyncConnect
  <2> QED
    BY <2>2, <2>3, <2>4, <2>5
<1>2. ASSUME NEW x \in Requests \cup Notifies, Call(x) PROVE TypeInv'
  <2>1. BridgeTypeOK'
    BY <1>2 DEF Call, InLua
  <2>2. LoopTypeOK'
    BY <1>2 DEF Call, InLua
  <2>3. PomeloTypeOK'
    BY <1>2 DEF Call, InLua
  <2>4. WorkerItem' /\ CallInv'
    BY <1>2 DEF Call, InLua
  <2> QED
    BY <2>1, <2>2, <2>3, <2>4
<1>3. ASSUME NEW e \in Events, AddListener(e) PROVE TypeInv'
  <2>1. BridgeTypeOK'
    BY <1>3, BridgeAssumption DEF AddListener, InLua, StartOp, BridgeAssumption
  <2>2. LoopTypeOK'
    BY <1>3, BridgeAssumption DEF AddListener, InLua, StartOp, BridgeAssumption
  <2>3. PomeloTypeOK'
    BY <1>3, BridgeAssumption DEF AddListener, InLua, StartOp, BridgeAssumption
  <2>4. WorkerItem' /\ CallInv'
    BY <1>3, BridgeAssumption DEF AddListener, InLua, StartOp, BridgeAssumption
  <2> QED
    BY <2>1, <2>2, <2>3, <2>4
<1>4. ASSUME NEW e \in Events, RemoveListener(e) PROVE TypeInv'
  <2>1. BridgeTypeOK'
    BY <1>4, BridgeAssumption DEF RemoveListener, InLua, StartOp, BridgeAssumption
  <2>2. LoopTypeOK'
    BY <1>4, BridgeAssumption DEF RemoveListener, InLua, StartOp, BridgeAssumption
  <2>3. PomeloTypeOK'
    BY <1>4, BridgeAssumption DEF RemoveListener, InLua, StartOp, BridgeAssumption
  <2>4. WorkerItem' /\ CallInv'
    BY <1>4, BridgeAssumption DEF RemoveListener, InLua, StartOp, BridgeAssumption
  <2> QED
    BY <2>1, <2>2, <2>3, <2>4
<1>5. ASSUME Disconnect PROVE TypeInv'
  <2>1. BridgeTypeOK'
    BY <1>5, BridgeAssumption DEF Disconnect, InLua, StartOp, BridgeAssumption
  <2>2. LoopTypeOK'
    BY <1>5, BridgeAssumption DEF Disconnect, InLua, StartOp, BridgeAssumption
  <2>3. PomeloTypeOK'
    BY <1>5, BridgeAssumption DEF Disconnect, InLua, StartOp, BridgeAssumption
  <2>4. WorkerItem' /\ CallInv'
    BY <1>5, BridgeAssumption DEF Disconnect, InLua, StartOp, BridgeAssumption
  <2> QED
    BY <2>1, <2>2, <2>3, <2>4
<1>6. ASSUME CallbackReturns PROVE TypeInv'
  BY <1>6 DEF CallbackReturns
<1>7. ASSUME ConnectCallbackReturns PROVE TypeInv'
  BY <1>7 DEF ConnectCallbackReturns
<1>8. ASSUME RunReturns PROVE TypeInv'
  <2>1. BridgeTypeOK'
    BY <1>8 DEF RunReturns
  <2>2. LoopTypeOK'
    BY <1>8 DEF RunReturns
  <2>3. PomeloTypeOK'
    BY <1>8 DEF RunReturns
  <2>4. WorkerItem' /\ CallInv'
    BY <1>8 DEF RunReturns
  <2> QED
    BY <2>1, <2>2, <2>3, <2>4
<1>9. ASSUME NEW b \in Signals, Signal(b) PROVE TypeInv'
  <2>1. BridgeTypeOK'
    BY <1>9, BridgeAssumption DEF Signal, BridgeAssumption
  <2>2. LoopTypeOK'
    BY <1>9, BridgeAssumption DEF Signal, BridgeAssumption
  <2>3. PomeloTypeOK'
    BY <1>9, BridgeAssumption DEF Signal, BridgeAssumption
  <2>4. WorkerItem' /\ CallInv'
    BY <1>9, BridgeAssumption DEF Signal, BridgeAssumption
  <2> QED
    BY <2>1, <2>2, <2>3, <2>4
<1> QED
  BY <1>1, <1>2, <1>3, <1>4, <1>5, <1>6, <1>7, <1>8, <1>9 DEF LuaCall, LuaReturns

LEMMA TypeMain ==
  ASSUME TypeInv, MainStep
  PROVE  TypeInv'
<1> USE DEF TypeInv, TypeOK, BridgeTypeOK, LoopTypeOK, PomeloTypeOK, WorkerItem, CallInv, InCall,
           Items, ConnectContents, LuaOps, Kinds, Contexts, Results, Bytes, MainPCs, WorkerPCs, CStates, Goto, At, bridge, loop, pomelo
<1>1. ASSUME Recv PROVE TypeInv'
  <2> DEFINE n == IF Len(pipe) < RecvMax THEN Len(pipe) ELSE RecvMax
  <2>1. n \in 0 .. Len(pipe)
    BY BridgeAssumption DEF BridgeAssumption
  <2>2. SubSeq(pipe, 1, n) \in Seq(Bytes) /\ SubSeq(pipe, n + 1, Len(pipe)) \in Seq(Bytes)
    <3> pipe \in Seq(Bytes) /\ Len(pipe) \in Nat /\ \A i \in 1 .. Len(pipe) : pipe[i] \in Bytes
      OBVIOUS
    <3> HIDE DEF n, Bytes
    <3> QED
      BY <2>1, SubSeqProperties
  <2>3. LoopTypeOK'
    BY <1>1, <2>2 DEF Recv
  <2>4. BridgeTypeOK' /\ PomeloTypeOK' /\ WorkerItem' /\ CallInv'
    BY <1>1 DEF Recv
  <2> QED
    BY <2>3, <2>4
<1>2. ASSUME NextByte PROVE TypeInv'
  BY <1>2 DEF NextByte, Tick
<1>3. ASSUME EndOfBytes PROVE TypeInv'
  BY <1>3 DEF EndOfBytes
<1>4. ASSUME Timeout PROVE TypeInv'
  BY <1>4 DEF Timeout, Tick
<1>5. ASSUME DeleteBridge PROVE TypeInv'
  BY <1>5 DEF DeleteBridge
<1>6. ASSUME ExitProcess PROVE TypeInv'
  BY <1>6 DEF ExitProcess
<1>7. ASSUME DispatchNothing PROVE TypeInv'
  BY <1>7 DEF DispatchNothing, NextQueue
<1>8. ASSUME Dispatch PROVE TypeInv'
  BY <1>8 DEF Dispatch
<1>9. ASSUME Unlock PROVE TypeInv'
  BY <1>9 DEF Unlock, NextQueue
<1>10. ASSUME DispatchConnect PROVE TypeInv'
  BY <1>10 DEF DispatchConnect
<1>11. ASSUME CheckTaskCount PROVE TypeInv'
  BY <1>11 DEF CheckTaskCount, AfterTick
<1>12. ASSUME Pause PROVE TypeInv'
  <2>1. BridgeTypeOK'
    BY <1>12 DEF Pause, AfterTick
  <2>2. LoopTypeOK'
    BY <1>12 DEF Pause, AfterTick
  <2>3. PomeloTypeOK'
    BY <1>12 DEF Pause, AfterTick
  <2>4. WorkerItem' /\ CallInv'
    BY <1>12 DEF Pause, AfterTick
  <2> QED
    BY <2>1, <2>2, <2>3, <2>4
<1>13. ASSUME ListenerOp PROVE TypeInv'
  <2>1. BridgeTypeOK'
    BY <1>13 DEF ListenerOp, EndOp
  <2>2. LoopTypeOK'
    BY <1>13 DEF ListenerOp, EndOp
  <2>3. PomeloTypeOK'
    <3>1. \E S \in SUBSET Events : \E T : listeners' = [listeners EXCEPT ![client] = (@ \cup S) \ T]
      <4>1. CASE pending.op = "add"
        <5>1. listeners' = [listeners EXCEPT ![client] = (@ \cup {pending.event}) \ {}]
          BY <1>13, <4>1 DEF ListenerOp
        <5>2. {pending.event} \in SUBSET Events
          BY <1>13 DEF ListenerOp
        <5> QED
          BY <5>1, <5>2
      <4>2. CASE pending.op = "remove"
        <5>1. listeners' = [listeners EXCEPT ![client] = (@ \cup {}) \ {pending.event}]
          BY <1>13, <4>2 DEF ListenerOp
        <5> QED
          BY <5>1
      <4>3. CASE pending.op = "disconnect"
        <5>1. listeners' = [listeners EXCEPT ![client] = (@ \cup {}) \ content]
          BY <1>13, <4>3 DEF ListenerOp
        <5> QED
          BY <5>1
      <4> QED
        BY <1>13, <4>1, <4>2, <4>3 DEF ListenerOp
    <3>2. listeners' \in [Clients -> SUBSET Events]
      <4>1. listeners \in [Clients -> SUBSET Events]
        OBVIOUS
      <4>2. PICK S \in SUBSET Events : \E T : listeners' = [listeners EXCEPT ![client] = (@ \cup S) \ T]
        BY <3>1
      <4>3. PICK T : listeners' = [listeners EXCEPT ![client] = (@ \cup S) \ T]
        BY <4>2
      <4>4. \A c \in Clients : (listeners[c] \cup S) \ T \in SUBSET Events
        BY ONLY <4>1, S \in SUBSET Events
      <4> QED
        BY ONLY <4>1, <4>3, <4>4
    <3>3. UNCHANGED <<cstate, alive, inflight, llock, wpc, witem, issued>>
      BY <1>13 DEF ListenerOp
    <3> QED
      BY <3>2, <3>3
  <2>4. WorkerItem' /\ CallInv'
    BY <1>13 DEF ListenerOp, EndOp
  <2> QED
    BY <2>1, <2>2, <2>3, <2>4
<1>14. ASSUME DestroyClient PROVE TypeInv'
  BY <1>14 DEF DestroyClient
<1>15. ASSUME DisconnectClient PROVE TypeInv'
  <2>1. BridgeTypeOK'
    BY <1>15 DEF DisconnectClient, Crash
  <2>2. LoopTypeOK'
    BY <1>15 DEF DisconnectClient, Crash
  <2>3. PomeloTypeOK'
    BY <1>15 DEF DisconnectClient, Crash
  <2>4. WorkerItem' /\ CallInv'
    BY <1>15 DEF DisconnectClient, Crash
  <2> QED
    BY <2>1, <2>2, <2>3, <2>4
<1>16. ASSUME JoinWorker PROVE TypeInv'
  BY <1>16 DEF JoinWorker
<1>17. ASSUME NEW x \in Requests, ReleaseRequest(x) PROVE TypeInv'
  <2>1. BridgeTypeOK'
    <3>1. queue' \in [Kinds -> Seq(Items)]
      <4>1. queue["request"] \in Seq(Items) /\ x \in Items
        OBVIOUS
      <4>2. Append(queue["request"], x) \in Seq(Items)
        BY <4>1
      <4> QED
        BY <1>17, <4>2 DEF ReleaseRequest
    <3>2. task_count' \in Int
      BY <1>17 DEF ReleaseRequest
    <3>3. running' \in BOOLEAN
      BY <1>17 DEF ReleaseRequest
    <3>4. UNCHANGED <<lock, connect_status, connect_content, content, client, net_state>>
      BY <1>17 DEF ReleaseRequest
    <3> QED
      BY <3>1, <3>2, <3>3, <3>4
  <2>2. LoopTypeOK'
    BY <1>17 DEF ReleaseRequest
  <2>3. PomeloTypeOK'
    BY <1>17 DEF ReleaseRequest
  <2>4. WorkerItem' /\ CallInv'
    BY <1>17 DEF ReleaseRequest
  <2> QED
    BY <2>1, <2>2, <2>3, <2>4
<1>18. ASSUME FreeClient PROVE TypeInv'
  <2>1. BridgeTypeOK'
    BY <1>18 DEF FreeClient, EndOp
  <2>2. LoopTypeOK'
    BY <1>18 DEF FreeClient, EndOp
  <2>3. PomeloTypeOK'
    BY <1>18 DEF FreeClient, EndOp
  <2>4. WorkerItem' /\ CallInv'
    BY <1>18 DEF FreeClient, EndOp
  <2> QED
    BY <2>1, <2>2, <2>3, <2>4
<1> QED
  BY <1>1, <1>2, <1>3, <1>4, <1>5, <1>6, <1>7, <1>8, <1>9, <1>10, <1>11, <1>12, <1>13, <1>14, <1>15, <1>16, <1>17, <1>18 DEF MainStep

LEMMA TypeStep == TypeInv /\ [Next]_vars => TypeInv'
<1> SUFFICES ASSUME TypeInv, [Next]_vars PROVE TypeInv'
  OBVIOUS
<1>1. CASE Next
  BY <1>1, TypeWorker, TypeLua, TypeMain DEF Next
<1>2. CASE UNCHANGED vars
  BY <1>2 DEF vars, bridge, loop, pomelo, TypeInv, TypeOK, BridgeTypeOK, LoopTypeOK, PomeloTypeOK,
              WorkerItem, CallInv, InCall
<1> QED
  BY <1>1, <1>2

(* Every variable keeps its type; what a worker hands over is of the kind its
   place in the callback says, and a listener call of Lua's knows where it
   returns to (the callbacks and dispatchCallbacks of CCPomelo.cpp). *)
THEOREM TypeCorrect == Spec => []TypeOK
<1>1. Spec => []TypeInv
  BY TypeInit, TypeStep, PTL DEF Spec
<1>2. TypeInv => TypeOK
  BY DEF TypeInv
<1> QED
  BY <1>1, <1>2, PTL
-----------------------------------------------------------------------------
(* What the steps do to the counters *)

LEMMA UncountedFinite == IsFiniteSet(Uncounted) /\ Cardinality(Uncounted) \in Nat
<1>1. Uncounted \subseteq Clients /\ IsFiniteSet(Clients)
  BY BridgeAssumption DEF Uncounted, BridgeAssumption
<1> QED
  BY <1>1, FS_Subset, FS_CardinalityType

\* a worker publishes something it has not counted yet
LEMMA UncountedGrows ==
  ASSUME TypeInv, NEW c \in Clients, NEW from, NEW to \in {"content", "inc"}, At(c, from, to),
         from \notin {"content", "inc"}
  PROVE  Cardinality(Uncounted') = Cardinality(Uncounted) + 1
<1>1. Uncounted' = Uncounted \cup {c} /\ c \notin Uncounted
  BY DEF TypeInv, TypeOK, PomeloTypeOK, At, Uncounted
<1> QED
  BY <1>1, UncountedFinite, FS_AddElement

\* a worker counts what it has published
LEMMA UncountedShrinks ==
  ASSUME TypeInv, NEW c \in Clients, At(c, "inc", "resume")
  PROVE  Cardinality(Uncounted') = Cardinality(Uncounted) - 1
<1>1. Uncounted' = Uncounted \ {c} /\ c \in Uncounted
  BY DEF TypeInv, TypeOK, PomeloTypeOK, At, Uncounted
<1> QED
  BY <1>1, UncountedFinite, FS_RemoveElement

LEMMA QueuedType == TypeInv => Queued \in Nat
<1> SUFFICES ASSUME TypeInv PROVE Queued \in Nat
  OBVIOUS
<1>1. queue \in [Kinds -> Seq(Items)]
  BY DEF TypeInv, TypeOK, BridgeTypeOK
<1> QED
  BY <1>1 DEF Queued, Kinds

LEMMA QueuedPush ==
  ASSUME TypeInv, NEW k \in Kinds, NEW x \in Items, queue' = [queue EXCEPT ![k] = Append(@, x)]
  PROVE  Queued' = Queued + 1
<1>1. queue \in [Kinds -> Seq(Items)]
  BY DEF TypeInv, TypeOK, BridgeTypeOK
<1>2. queue' \in [Kinds -> Seq(Items)] /\ Len(queue'[k]) = Len(queue[k]) + 1
  BY <1>1
<1>3. \A j \in Kinds \ {k} : Len(queue'[j]) = Len(queue[j])
  BY <1>1
<1>4. CASE k = "notify"
  BY <1>1, <1>2, <1>3, <1>4 DEF Queued, Kinds
<1>5. CASE k = "event"
  BY <1>1, <1>2, <1>3, <1>5 DEF Queued, Kinds
<1>6. CASE k = "request"
  BY <1>1, <1>2, <1>3, <1>6 DEF Queued, Kinds
<1> QED
  BY <1>4, <1>5, <1>6 DEF Kinds

LEMMA QueuedPop ==
  ASSUME TypeInv, NEW k \in Kinds, queue[k] # <<>>, queue' = [queue EXCEPT ![k] = Tail(@)]
  PROVE  Queued' = Queued - 1 /\ Queued > 0
<1>1. queue \in [Kinds -> Seq(Items)]
  BY DEF TypeInv, TypeOK, BridgeTypeOK
<1>2. queue' \in [Kinds -> Seq(Items)] /\ Len(queue'[k]) = Len(queue[k]) - 1
  BY <1>1, HeadTailProperties
<1>3. \A j \in Kinds \ {k} : Len(queue'[j]) = Len(queue[j])
  BY <1>1
<1>4. CASE k = "notify"
  BY <1>1, <1>2, <1>3, <1>4 DEF Queued, Kinds
<1>5. CASE k = "event"
  BY <1>1, <1>2, <1>3, <1>5 DEF Queued, Kinds
<1>6. CASE k = "request"
  BY <1>1, <1>2, <1>3, <1>6 DEF Queued, Kinds
<1> QED
  BY <1>4, <1>5, <1>6 DEF Kinds

\* the workers that will resume the timer handle
Resuming == {c \in Clients : wpc[c] \in {"content", "inc", "resume"}}

\* most steps leave the counters and the connect result alone, and only Pause
\* pauses the timer handle
Calm ==
  /\ UNCHANGED <<queue, task_count, connect_status, connect_content>>
  /\ Uncounted' = Uncounted
  /\ \A c \in Clients : cstate'[c] = "connecting" => cstate[c] = "connecting"
  /\ Pause \/ running' = TRUE \/ (running' = running /\ Resuming' = Resuming)

\* the others
Busy ==
  \/ \E c \in Clients : \/ \E result \in Results : OnConnect(c, result)
                       \/ StoreConnectResult(c) \/ Push(c) \/ IncTaskCount(c)
                       \/ AsyncConnect(c)
  \/ Dispatch \/ ConnectCallbackReturns
  \/ \E x \in Requests : ReleaseRequest(x)

LEMMA BusyOrCalm ==
  ASSUME TypeInv, [Next]_vars
  PROVE  Busy \/ Calm
<1> USE DEF Calm, Uncounted, Resuming, TypeInv, TypeOK, PomeloTypeOK, bridge, loop, pomelo, At
<1>1. ASSUME NEW c \in Clients, Worker(c) PROVE Busy \/ Calm
  <2>1. CASE \E x \in Requests \cup Notifies : OnAnswer(c, x)
    BY <2>1 DEF OnAnswer, EnterCallback
  <2>2. CASE \E e \in Events : OnEvent(c, e)
    BY <2>2 DEF OnEvent, Emit, EnterCallback
  <2>3. CASE CloseClient(c) \/ EmitDisconnect(c) \/ EndWorker(c)
    BY <2>3 DEF CloseClient, EmitDisconnect, EndWorker, Emit, EnterCallback
  <2>4. CASE Resume(c) \/ UnlockQueue(c) \/ SendSignal(c)
    BY <2>4 DEF Resume, UnlockQueue, SendSignal
  <2>5. CASE AssertFails(c) \/ UseAfterFree(c)
    BY <2>5 DEF AssertFails, UseAfterFree
  <2> QED
    BY <1>1, <2>1, <2>2, <2>3, <2>4, <2>5 DEF Worker, WorkerStep, Busy
<1>2. ASSUME LuaCall PROVE Busy \/ Calm
  <2>1. CASE \E x \in Requests \cup Notifies : Call(x)
    BY <2>1 DEF Call
  <2>2. CASE \E e \in Events : AddListener(e) \/ RemoveListener(e)
    BY <2>2 DEF AddListener, RemoveListener, StartOp
  <2>3. CASE Disconnect
    BY <2>3 DEF Disconnect, StartOp
  <2> QED
    BY <1>2, <2>1, <2>2, <2>3 DEF LuaCall, Busy
<1>3. ASSUME LuaReturns \/ \E b \in Signals : Signal(b) PROVE Busy \/ Calm
  <2>1. CASE CallbackReturns \/ RunReturns
    BY <2>1 DEF CallbackReturns, RunReturns
  <2>2. CASE \E b \in Signals : Signal(b)
    BY <2>2 DEF Signal
  <2> QED
    BY <1>3, <2>1, <2>2 DEF LuaReturns, Busy
<1>4. ASSUME MainStep PROVE Busy \/ Calm
  <2>1. CASE Recv \/ NextByte \/ EndOfBytes \/ Timeout
    BY <2>1 DEF Recv, NextByte, EndOfBytes, Timeout
  <2>2. CASE DeleteBridge \/ ExitProcess \/ JoinWorker
    BY <2>2 DEF DeleteBridge, ExitProcess, JoinWorker
  <2>3. CASE DispatchNothing \/ Unlock \/ DispatchConnect
    BY <2>3 DEF DispatchNothing, Unlock, DispatchConnect
  <2>4. CASE CheckTaskCount \/ Pause \/ ListenerOp
    BY <2>4 DEF CheckTaskCount, Pause, ListenerOp
  <2>5. CASE DestroyClient \/ DisconnectClient \/ FreeClient
    BY <2>5 DEF DestroyClient, DisconnectClient, FreeClient
  <2> QED
    BY <1>4, <2>1, <2>2, <2>3, <2>4, <2>5 DEF MainStep, Busy
<1>5. CASE UNCHANGED vars
  BY <1>5 DEF vars
<1> QED
  BY <1>1, <1>2, <1>3, <1>4, <1>5 DEF Next

-----------------------------------------------------------------------------
(* task_count *)

LEMMA CountStep ==
  ASSUME IInv, [Next]_vars
  PROVE  TaskCountAccurate'
<1> USE UncountedFinite, QueuedType DEF IInv, TaskCountAccurate
<1> task_count \in Int /\ connect_status \in {0, 1}
  BY DEF TypeInv, TypeOK, BridgeTypeOK
<1>1. ASSUME NEW c \in Clients, NEW result \in Results, OnConnect(c, result)
      PROVE  TaskCountAccurate'
  <2>1. connect_status = 0 /\ connect_status' = 1
    BY <1>1 DEF OnConnect, ConnectInv
  <2>2. Cardinality(Uncounted') = Cardinality(Uncounted) + 1
    BY <1>1, UncountedGrows DEF OnConnect
  <2>3. Queued' = Queued /\ task_count' = task_count
    BY <1>1 DEF OnConnect, Queued
  <2> QED
    BY <2>1, <2>2, <2>3
<1>2. ASSUME NEW c \in Clients, StoreConnectResult(c) PROVE TaskCountAccurate'
  <2>1. Uncounted' = Uncounted
    BY <1>2 DEF StoreConnectResult, At, Uncounted, TypeInv, TypeOK, PomeloTypeOK
  <2>2. Queued' = Queued /\ task_count' = task_count /\ connect_status' = connect_status
    BY <1>2 DEF StoreConnectResult, Queued
  <2> QED
    BY <2>1, <2>2
<1>3. ASSUME NEW c \in Clients, Push(c) PROVE TaskCountAccurate'
  <2>1. wpc[c] = "lock" /\ witem[c] \in Items
    BY <1>3 DEF Push, At, TypeInv, WorkerItem
  <2>2. Queued' = Queued + 1
    BY <1>3, <2>1, KindOfType, QueuedPush DEF Push
  <2>3. Cardinality(Uncounted') = Cardinality(Uncounted) + 1
    BY <1>3, UncountedGrows DEF Push
  <2>4. task_count' = task_count /\ connect_status' = connect_status
    BY <1>3 DEF Push
  <2> QED
    BY <2>2, <2>3, <2>4
<1>4. ASSUME NEW c \in Clients, IncTaskCount(c) PROVE TaskCountAccurate'
  <2>1. Cardinality(Uncounted') = Cardinality(Uncounted) - 1
    BY <1>4, UncountedShrinks DEF IncTaskCount
  <2>2. task_count' = task_count + 1 /\ connect_status' = connect_status /\ Queued' = Queued
    BY <1>4 DEF IncTaskCount, Queued
  <2> QED
    BY <2>1, <2>2
<1>5. ASSUME NEW c \in Clients, AsyncConnect(c) PROVE TaskCountAccurate'
  <2>1. connect_status = 0 /\ task_count \in Int
    BY <1>5 DEF AsyncConnect, NoAttempt, ConnectInv
  <2>2. Queued' = Queued /\ Uncounted' = Uncounted
    BY <1>5 DEF AsyncConnect, Queued, Uncounted
  <2>3. \/ task_count' = task_count /\ connect_status' = 0
        \/ task_count' = task_count + 1 /\ connect_status' = 1
    BY <1>5 DEF AsyncConnect
  <2> QED
    BY <2>1, <2>2, <2>3
<1>6. ASSUME Dispatch PROVE TaskCountAccurate'
  <2>1. Queued' = Queued - 1
    BY <1>6, QueuedPop DEF Dispatch, TypeInv, TypeOK, LoopTypeOK
  <2>2. task_count' = task_count - 1 /\ connect_status' = connect_status /\ Uncounted' = Uncounted
    BY <1>6 DEF Dispatch, Uncounted, pomelo
  <2> QED
    BY <2>1, <2>2
<1>7. ASSUME ConnectCallbackReturns PROVE TaskCountAccurate'
  <2>1. connect_status = 1
    BY <1>7 DEF ConnectCallbackReturns, ConnectInv, Connected, Announced
  <2>2. /\ task_count' = task_count - 1 /\ connect_status' = 0
        /\ Queued' = Queued /\ Uncounted' = Uncounted
    BY <1>7 DEF ConnectCallbackReturns, Queued, Uncounted, pomelo
  <2> QED
    BY <2>1, <2>2
<1>8. ASSUME NEW x \in Requests, ReleaseRequest(x) PROVE TaskCountAccurate'
  <2>1. Queued' = Queued + 1
    BY <1>8, QueuedPush DEF ReleaseRequest, Kinds, Items
  <2>2. task_count' = task_count + 1 /\ connect_status' = connect_status /\ Uncounted' = Uncounted
    BY <1>8 DEF ReleaseRequest, Uncounted
  <2> QED
    BY <2>1, <2>2
<1>9. CASE Calm
  BY <1>9 DEF Calm, Queued
<1> QED
  BY <1>1, <1>2, <1>3, <1>4, <1>5, <1>6, <1>7, <1>8, <1>9, BusyOrCalm DEF Busy

-----------------------------------------------------------------------------
(* The connect result *)

\* a worker does not move the main thread, unless it ends the process
LEMMA WorkerKeepsMain ==
  ASSUME NEW c \in Clients, Worker(c)
  PROVE  mpc' = "exited" \/ (mpc' = mpc /\ pending' = pending)
<1> USE DEF bridge, loop, pomelo
<1>1. CASE \E result \in Results : OnConnect(c, result)
  BY <1>1 DEF OnConnect
<1>2. CASE \E x \in Requests \cup Notifies : OnAnswer(c, x)
  BY <1>2 DEF OnAnswer
<1>3. CASE \E e \in Events : OnEvent(c, e)
  BY <1>3 DEF OnEvent
<1>4. CASE CloseClient(c) \/ EmitDisconnect(c) \/ EndWorker(c)
  BY <1>4 DEF CloseClient, EmitDisconnect, EndWorker
<1>5. CASE WorkerStep(c)
  BY <1>5 DEF WorkerStep, StoreConnectResult, Push, IncTaskCount, Resume, UnlockQueue, SendSignal
<1>6. CASE AssertFails(c) \/ UseAfterFree(c)
  BY <1>6 DEF AssertFails, UseAfterFree, Crash
<1> QED
  BY <1>1, <1>2, <1>3, <1>4, <1>5, <1>6 DEF Worker

\* the connect callback begins only with a result that is announced, and it
\* is over once the result is taken away
LEMMA ConnectedStep ==
  ASSUME TypeInv, Next, Connected'
  PROVE  (Connected \/ Announced) /\ ~ConnectCallbackReturns
<1> USE DEF Connected, InCall, bridge, loop, pomelo
<1>1. ASSUME NEW c \in Clients, Worker(c) PROVE Connected /\ mpc' = mpc
  BY <1>1, WorkerKeepsMain
<1>2. ASSUME LuaCall PROVE Connected /\ mpc' # "check"
  <2>1. CASE \E c \in Clients : AsyncConnect(c)
    BY <2>1 DEF AsyncConnect, InLua
  <2>2. CASE \E x \in Requests \cup Notifies : Call(x)
    BY <2>2 DEF Call, InLua
  <2>3. CASE \E e \in Events : AddListener(e) \/ RemoveListener(e)
    <3> \A m \in {"callback", "connected", "run"}, e \in Events :
          [op |-> "add", event |-> e, back |-> m].back = m
          /\ [op |-> "remove", event |-> e, back |-> m].back = m
      OBVIOUS
    <3> QED
      BY <2>3 DEF AddListener, RemoveListener, StartOp, Goto, InLua
  <2>4. CASE Disconnect
    BY <2>4 DEF Disconnect, StartOp, Goto, InLua
  <2> QED
    BY <1>2, <2>1, <2>2, <2>3, <2>4 DEF LuaCall
<1>3. ASSUME LuaReturns PROVE FALSE
  BY <1>3 DEF LuaReturns, CallbackReturns, ConnectCallbackReturns, RunReturns, Goto
<1>4. ASSUME NEW b \in Signals, Signal(b) PROVE Connected /\ mpc' = mpc
  BY <1>4 DEF Signal
<1>5. ASSUME MainStep PROVE Connected \/ Announced
  <2>1. CASE Recv \/ NextByte \/ EndOfBytes \/ Timeout \/ DeleteBridge \/ ExitProcess
    BY <2>1 DEF Recv, NextByte, EndOfBytes, Timeout, DeleteBridge, ExitProcess, Tick, Goto
  <2>2. CASE DispatchNothing \/ Dispatch \/ Unlock
    BY <2>2 DEF DispatchNothing, Dispatch, Unlock, NextQueue, Goto
  <2>3. CASE DispatchConnect
    BY <2>3 DEF DispatchConnect, Goto, Announced
  <2>4. CASE CheckTaskCount \/ Pause
    BY <2>4 DEF CheckTaskCount, Pause, AfterTick, Goto
  <2>5. CASE ListenerOp
    BY <2>5 DEF ListenerOp, EndOp, Goto, TypeInv, CallInv
  <2>6. CASE DestroyClient \/ DisconnectClient \/ JoinWorker
    BY <2>6 DEF DestroyClient, DisconnectClient, JoinWorker, Goto, Crash
  <2>7. CASE (\E x \in Requests : ReleaseRequest(x)) \/ FreeClient
    BY <2>7 DEF ReleaseRequest, FreeClient, EndOp, Goto, TypeInv, CallInv
  <2> QED
    BY <1>5, <2>1, <2>2, <2>3, <2>4, <2>5, <2>6, <2>7 DEF MainStep
<1>6. ~ConnectCallbackReturns
  BY DEF ConnectCallbackReturns, Goto
<1> QED
  BY <1>1, <1>2, <1>3, <1>4, <1>5, <1>6 DEF Next

LEMMA ConnectStep ==
  ASSUME IInv, [Next]_vars
  PROVE  ConnectInv'
<1> USE DEF IInv, ConnectInv, Announced
<1>a. /\ connect_content \in ConnectContents \cup {None} /\ None \notin ConnectContents
      /\ cstate \in [Clients -> CStates]
  BY BridgeAssumption DEF TypeInv, TypeOK, BridgeTypeOK, PomeloTypeOK, BridgeAssumption
<1>0. ASSUME UNCHANGED vars PROVE ConnectInv'
  BY <1>0 DEF vars, bridge, loop, pomelo, Connected, InCall
<1> SUFFICES ASSUME Next PROVE ConnectInv'
  BY <1>0
<1>b. Connected' => Announced /\ ~ConnectCallbackReturns
  BY ConnectedStep
<1>1. ASSUME NEW c \in Clients, NEW result \in Results, OnConnect(c, result)
      PROVE  ConnectInv'
  <2>1. \A d \in Clients : cstate'[d] # "connecting"
    BY <1>1, <1>a DEF OnConnect
  <2>2. connect_content # None /\ connect_status' = 1 /\ connect_content' = connect_content
    BY <1>1 DEF OnConnect
  <2> QED
    BY <2>1, <2>2, <1>b
<1>2. ASSUME NEW c \in Clients, StoreConnectResult(c) PROVE ConnectInv'
  <2>1. /\ connect_content' = None <=> connect_content = None
        /\ connect_content # None => connect_content'.client = connect_content.client
    <3>1. CASE connect_content = None
      BY <1>2, <3>1 DEF StoreConnectResult
    <3>2. CASE connect_content # None
      <4>1. witem[c] \in Results
        BY <1>2 DEF StoreConnectResult, At, TypeInv, WorkerItem
      <4>2. /\ connect_content' \in ConnectContents
            /\ connect_content'.client = connect_content.client
        BY <1>2, <1>a, <3>2, <4>1 DEF StoreConnectResult, ConnectContents
      <4> QED
        BY <1>a, <3>2, <4>2
    <3> QED
      BY <3>1, <3>2
  <2>2. connect_status' = connect_status /\ cstate' = cstate
    BY <1>2 DEF StoreConnectResult
  <2> QED
    BY <2>1, <2>2, <1>b
<1>3. ASSUME NEW c \in Clients, Push(c) \/ IncTaskCount(c) PROVE ConnectInv'
  <2>1. UNCHANGED <<connect_status, connect_content, cstate>>
    BY <1>3 DEF Push, IncTaskCount
  <2> QED
    BY <2>1, <1>b
<1>4. ASSUME NEW c \in Clients, AsyncConnect(c) PROVE ConnectInv'
  <2>1. connect_content = None /\ connect_content' # None /\ connect_content'.client = c
    <3>1. [client |-> c, status |-> "unset"] \in ConnectContents
          /\ [client |-> c, status |-> "error"] \in ConnectContents
      BY DEF ConnectContents, Results
    <3> QED
      BY <1>4, <1>a, <3>1 DEF AsyncConnect, NoAttempt
  <2>2. \A d \in Clients : cstate'[d] = "connecting" => d = c /\ connect_status' = 0
    BY <1>4, <1>a DEF AsyncConnect, NoAttempt
  <2>3. ~Connected'
    BY <2>1, <1>b
  <2> QED
    BY <2>1, <2>2, <2>3
<1>5. ASSUME Dispatch \/ \E x \in Requests : ReleaseRequest(x) PROVE ConnectInv'
  <2>1. UNCHANGED <<connect_status, connect_content, cstate>>
    BY <1>5 DEF Dispatch, ReleaseRequest, pomelo
  <2> QED
    BY <2>1, <1>b
<1>6. ASSUME ConnectCallbackReturns PROVE ConnectInv'
  <2>1. connect_status = 1 /\ connect_status' = 0 /\ connect_content' = None /\ cstate' = cstate
    BY <1>6 DEF ConnectCallbackReturns, Connected, pomelo
  <2> QED
    BY <2>1, <1>6, <1>b
<1>7. CASE Calm
  BY <1>7, <1>b DEF Calm
<1> QED
  BY <1>1, <1>2, <1>3, <1>4, <1>5, <1>6, <1>7, BusyOrCalm DEF Busy

-----------------------------------------------------------------------------
(* The pause *)

\* the main thread begins to pause only when nothing is counted
LEMMA PauseEntered ==
  ASSUME TypeInv, Next, mpc' = "pause"
  PROVE  mpc = "pause" \/ task_count = 0
<1> USE DEF bridge, loop, pomelo
<1>1. ASSUME NEW c \in Clients, Worker(c) PROVE mpc = "pause"
  BY <1>1, WorkerKeepsMain
<1>2. ASSUME LuaCall PROVE mpc = "pause"
  BY <1>2 DEF LuaCall, AsyncConnect, Call, AddListener, RemoveListener, Disconnect, StartOp, Goto
<1>3. ASSUME LuaReturns PROVE FALSE
  BY <1>3 DEF LuaReturns, CallbackReturns, ConnectCallbackReturns, RunReturns, Goto
<1>4. ASSUME NEW b \in Signals, Signal(b) PROVE mpc = "pause"
  BY <1>4 DEF Signal
<1>5. ASSUME MainStep PROVE mpc = "pause" \/ task_count = 0
  <2>1. CASE Recv \/ NextByte \/ EndOfBytes \/ Timeout \/ DeleteBridge \/ ExitProcess
    BY <2>1 DEF Recv, NextByte, EndOfBytes, Timeout, DeleteBridge, ExitProcess, Tick, Goto
  <2>2. CASE DispatchNothing \/ Dispatch \/ Unlock \/ DispatchConnect
    BY <2>2 DEF DispatchNothing, Dispatch, Unlock, DispatchConnect, NextQueue, Goto
  <2>3. CASE CheckTaskCount \/ Pause
    BY <2>3 DEF CheckTaskCount, Pause, AfterTick, Goto
  <2>4. CASE ListenerOp
    BY <2>4 DEF ListenerOp, EndOp, Goto, TypeInv, CallInv, InCall
  <2>5. CASE DestroyClient \/ DisconnectClient \/ JoinWorker
    BY <2>5 DEF DestroyClient, DisconnectClient, JoinWorker, Goto, Crash
  <2>6. CASE (\E x \in Requests : ReleaseRequest(x)) \/ FreeClient
    BY <2>6 DEF ReleaseRequest, FreeClient, EndOp, Goto, TypeInv, CallInv, InCall
  <2> QED
    BY <1>5, <2>1, <2>2, <2>3, <2>4, <2>5, <2>6 DEF MainStep
<1> QED
  BY <1>1, <1>2, <1>3, <1>4, <1>5 DEF Next

LEMMA PauseStep ==
  ASSUME IInv, [Next]_vars
  PROVE  PauseInv'
<1> SUFFICES ASSUME mpc' = "pause" PROVE task_count' = 0
  BY DEF PauseInv
<1> USE DEF loop, pomelo, Goto
<1>1. ASSUME UNCHANGED vars PROVE task_count' = 0
  BY <1>1 DEF vars, bridge, IInv, PauseInv
<1>2. ASSUME Next PROVE mpc = "pause" \/ task_count = 0
  BY <1>2, PauseEntered DEF IInv
<1>3. ASSUME Next, task_count' = task_count PROVE task_count' = 0
  BY <1>2, <1>3 DEF IInv, PauseInv
<1>4. CASE Calm
  BY <1>1, <1>3, <1>4 DEF Calm
<1>5. ASSUME NEW c \in Clients,
             \/ \E result \in Results : OnConnect(c, result)
             \/ StoreConnectResult(c) \/ Push(c)
      PROVE  task_count' = task_count
  BY <1>5 DEF OnConnect, StoreConnectResult, Push
<1>6. ASSUME NEW c \in Clients, IncTaskCount(c) \/ AsyncConnect(c) PROVE FALSE
  BY <1>6 DEF IncTaskCount, TaskCountMutexFree, AsyncConnect, InLua
<1>7. ASSUME Dispatch \/ ConnectCallbackReturns \/ \E x \in Requests : ReleaseRequest(x) PROVE FALSE
  BY <1>7 DEF Dispatch, ConnectCallbackReturns, ReleaseRequest
<1>8. Busy \/ Calm
  BY BusyOrCalm DEF IInv
<1> QED
  BY <1>1, <1>3, <1>4, <1>5, <1>6, <1>7, <1>8 DEF Busy

-----------------------------------------------------------------------------
(* The wake-up *)

\* what is counted is running or will be: a pause finds task_count at zero, so
\* every item that waits belongs to a worker that has not counted it yet
LEMMA WakeupStep ==
  ASSUME IInv, [Next]_vars
  PROVE  NoLostWakeup'
<1> USE DEF NoLostWakeup, TypeInv, TypeOK, BridgeTypeOK, PomeloTypeOK
<1>a. NoLostWakeup /\ TypeInv
  BY DEF IInv
<1>1. ASSUME NEW c \in Clients,
             \/ \E result \in Results : OnConnect(c, result)
             \/ StoreConnectResult(c) \/ Push(c) \/ IncTaskCount(c)
      PROVE  NoLostWakeup'
  <2>1. wpc' = [wpc EXCEPT ![c] = wpc'[c]] /\ wpc'[c] \in {"content", "inc", "resume"}
    BY <1>1, <1>a DEF OnConnect, StoreConnectResult, Push, IncTaskCount, At
  <2> QED
    BY <2>1
<1>2. ASSUME NEW c \in Clients, AsyncConnect(c) PROVE NoLostWakeup'
  <2>1. running' = TRUE \/ (running' = running /\ connect_status' = 0)
    BY <1>2 DEF AsyncConnect
  <2>2. wpc' = wpc /\ Queued' = Queued
    BY <1>2 DEF AsyncConnect, Queued
  <2> QED
    BY <2>1, <2>2, <1>a
<1>3. ASSUME Dispatch \/ ConnectCallbackReturns PROVE NoLostWakeup'
  <2>1. running' = running /\ wpc' = wpc
    BY <1>3 DEF Dispatch, ConnectCallbackReturns, pomelo
  <2>2. Queued > 0 \/ connect_status = 1
    <3>1. CASE Dispatch
      <4>1. kind \in Kinds /\ queue[kind] # <<>> /\ queue' = [queue EXCEPT ![kind] = Tail(@)]
        BY <3>1, <1>a DEF Dispatch, LoopTypeOK
      <4> QED
        BY <4>1, <1>a, QueuedPop
    <3>2. CASE ConnectCallbackReturns
      BY <3>2 DEF ConnectCallbackReturns, IInv, ConnectInv, Connected, Announced
    <3> QED
      BY <1>3, <3>1, <3>2
  <2> QED
    BY <2>1, <2>2, <1>a
<1>4. ASSUME NEW x \in Requests, ReleaseRequest(x) PROVE NoLostWakeup'
  BY <1>4 DEF ReleaseRequest
<1>5. CASE Calm
  <2>1. Queued' = Queued /\ connect_status' = connect_status
    BY <1>5 DEF Calm, Queued
  <2>2. CASE running' = TRUE
    BY <2>2
  <2>3. CASE running' = running /\ Resuming' = Resuming
    <3>1. (\E c \in Clients : wpc[c] \in {"content", "inc", "resume"}) => Resuming # {}
      BY DEF Resuming
    <3>2. Resuming' # {} => \E c \in Clients : wpc'[c] \in {"content", "inc", "resume"}
      BY DEF Resuming
    <3> QED
      BY <1>a, <2>1, <2>3, <3>1, <3>2
  <2>4. CASE Pause
    <3>1. task_count = 0 /\ wpc' = wpc
      BY <2>4 DEF Pause, IInv, PauseInv, pomelo
    <3>2. Queued > 0 \/ connect_status = 1 => Cardinality(Uncounted) > 0
      <4>1. 0 = Queued + connect_status - Cardinality(Uncounted)
        BY <3>1 DEF IInv, TaskCountAccurate
      <4>2. Queued \in Nat /\ connect_status \in {0, 1} /\ Cardinality(Uncounted) \in Nat
        BY <1>a, QueuedType, UncountedFinite
      <4> QED
        BY <4>1, <4>2
    <3>3. Cardinality(Uncounted) > 0 => \E c \in Clients : wpc[c] \in {"content", "inc"}
      BY FS_EmptySet DEF Uncounted
    <3> QED
      BY <2>1, <3>1, <3>2, <3>3
  <2> QED
    BY <1>5, <2>2, <2>3, <2>4 DEF Calm
<1> QED
  BY <1>a, <1>1, <1>2, <1>3, <1>4, <1>5, BusyOrCalm DEF Busy

-----------------------------------------------------------------------------
(* The theorem *)

LEMMA IInvInit == Init => IInv
<1> SUFFICES ASSUME Init PROVE IInv
  OBVIOUS
<1> USE DEF Init
<1>1. TypeInv
  BY TypeInit
<1>2. ConnectInv /\ PauseInv
  BY DEF ConnectInv, PauseInv, Connected, InCall
<1>3. Queued = 0
  BY DEF Queued, Kinds
<1>4. Uncounted = {} /\ Cardinality(Uncounted) = 0
  BY FS_EmptySet DEF Uncounted
<1>5. TaskCountAccurate /\ NoLostWakeup
  BY <1>3, <1>4 DEF TaskCountAccurate, NoLostWakeup
<1> QED
  BY <1>1, <1>2, <1>5 DEF IInv

LEMMA InductiveAlways == Spec => []IInv
<1>1. IInv /\ [Next]_vars => IInv'
  <2> SUFFICES ASSUME IInv, [Next]_vars PROVE IInv'
    OBVIOUS
  <2>1. TypeInv'
    BY TypeStep DEF IInv
  <2> QED
    BY <2>1, ConnectStep, PauseStep, CountStep, WakeupStep DEF IInv
<1> QED
  BY IInvInit, <1>1, PTL DEF Spec

(* task_count is the number of items that wait for the main thread, less those
   that are published and not counted yet (incTaskCount, desTaskCount and
   dispatchCallbacks of CCPomelo.cpp). *)
THEOREM CounterCorrect == Spec => []TaskCountAccurate
<1>1. IInv => TaskCountAccurate
  BY DEF IInv
<1> QED
  BY InductiveAlways, <1>1, PTL

(* While anything waits for the main thread the timer handle runs or a worker is
   about to resume it: no response, event or connect result stays in its queue
   for want of a wake-up (incTaskCount and dispatchCallbacks of CCPomelo.cpp). *)
THEOREM WakeupNeverLost == Spec => []NoLostWakeup
<1>1. IInv => NoLostWakeup
  BY DEF IInv
<1> QED
  BY InductiveAlways, <1>1, PTL

-----------------------------------------------------------------------------
(* The callbacks that are kept *)

Calls == Requests \cup Notifies

\* the answer of x waits in a queue, or a worker carries it there
Answered(x) ==
  \/ \E c \in Clients : wpc[c] = "lock" /\ witem[c] = x
  \/ \E k \in Kinds : \E i \in 1 .. Len(queue[k]) : queue[k][i] = x

\* a call is owed an answer by one client, until it is answered
OwedInv ==
  /\ \A c \in Clients : inflight[c] \subseteq issued
  /\ \A c \in Clients : cstate[c] = "new" => inflight[c] = {}
  /\ \A c, d \in Clients : c # d => inflight[c] \cap inflight[d] = {}
  /\ \A x \in Calls : Answered(x) => x \in issued /\ \A c \in Clients : x \notin inflight[c]

\* a call of Lua's is under way in the places of a call, and only a disconnect
\* destroys a client
StopInv ==
  /\ pending # None => InCall \/ mpc = "exited"
  /\ mpc \in {"destroy", "disconnect", "join", "release"} => pending.op = "disconnect"

\* there is a client once one was connected
ClientInv == connect_content # None \/ net_state = "CONNECT" \/ pending # None => client # None

KeptInv == TypeInv /\ OwedInv /\ StopInv /\ ClientInv /\ CallbackKept

\* a step that asks nothing and answers nothing
Aside ==
  /\ UNCHANGED <<queue, inflight, issued>>
  /\ \A c \in Clients : cstate'[c] = "new" => cstate[c] = "new"
  /\ \A c \in Clients : wpc'[c] = "lock" => \/ wpc[c] = "lock" /\ witem'[c] = witem[c]
                                            \/ witem'[c] \in Events

AsksOrAnswers ==
  \/ \E x \in Calls : Call(x) \/ ReleaseRequest(x) \/ \E c \in Clients : OnAnswer(c, x)
  \/ \E c \in Clients : Push(c)
  \/ Dispatch

LEMMA AsideOrNot ==
  ASSUME TypeInv, [Next]_vars
  PROVE  AsksOrAnswers \/ Aside
<1> USE DEF Aside, Calls, TypeInv, TypeOK, PomeloTypeOK
<1>1. CASE UNCHANGED vars
  BY <1>1 DEF vars, bridge, loop, pomelo
<1> SUFFICES ASSUME Next PROVE AsksOrAnswers \/ Aside
  BY <1>1
<1>2. ASSUME NEW c \in Clients, Worker(c) PROVE AsksOrAnswers \/ Aside
  <2>1. ASSUME NEW result \in Results, OnConnect(c, result) PROVE Aside
    BY <2>1 DEF OnConnect, EnterCallback, At, loop
  <2>2. ASSUME NEW x \in Requests \cup Notifies, OnAnswer(c, x) PROVE AsksOrAnswers
    BY <2>2 DEF AsksOrAnswers
  <2>3. ASSUME NEW e \in Events, OnEvent(c, e) PROVE Aside
    BY <2>3 DEF OnEvent, Emit, EnterCallback, At, bridge
  <2>4. CASE EmitDisconnect(c)
    BY <2>4, BridgeAssumption DEF EmitDisconnect, Emit, EnterCallback, At, bridge, BridgeAssumption
  <2>5. CASE CloseClient(c) \/ EndWorker(c)
    BY <2>5 DEF CloseClient, EndWorker, bridge
  <2>6. CASE Push(c)
    BY <2>6 DEF AsksOrAnswers
  <2>7. CASE StoreConnectResult(c) \/ IncTaskCount(c) \/ Resume(c) \/ UnlockQueue(c) \/ SendSignal(c)
    BY <2>7 DEF StoreConnectResult, IncTaskCount, Resume, UnlockQueue, SendSignal, At, bridge
  <2>8. CASE AssertFails(c) \/ UseAfterFree(c)
    BY <2>8 DEF AssertFails, UseAfterFree, bridge
  <2> QED
    BY <1>2, <2>1, <2>2, <2>3, <2>4, <2>5, <2>6, <2>7, <2>8 DEF Worker, WorkerStep
<1>3. ASSUME LuaCall PROVE AsksOrAnswers \/ Aside
  <2>1. ASSUME NEW c \in Clients, AsyncConnect(c) PROVE Aside
    BY <2>1 DEF AsyncConnect
  <2>2. ASSUME NEW x \in Requests \cup Notifies, Call(x) PROVE AsksOrAnswers
    BY <2>2 DEF AsksOrAnswers
  <2>3. ASSUME NEW e \in Events, AddListener(e) \/ RemoveListener(e) PROVE Aside
    BY <2>3 DEF AddListener, RemoveListener, StartOp, bridge, pomelo
  <2>4. CASE Disconnect
    BY <2>4 DEF Disconnect, StartOp, bridge, pomelo
  <2> QED
    BY <1>3, <2>1, <2>2, <2>3, <2>4 DEF LuaCall
<1>4. ASSUME LuaReturns \/ \E b \in Signals : Signal(b) PROVE Aside
  BY <1>4 DEF LuaReturns, CallbackReturns, ConnectCallbackReturns, RunReturns, Signal, bridge, pomelo
<1>5. ASSUME MainStep PROVE AsksOrAnswers \/ Aside
  <2>1. CASE Recv \/ NextByte \/ EndOfBytes \/ Timeout \/ DeleteBridge \/ ExitProcess
    BY <2>1 DEF Recv, NextByte, EndOfBytes, Timeout, DeleteBridge, ExitProcess, bridge, pomelo
  <2>2. CASE DispatchNothing \/ Unlock \/ DispatchConnect \/ CheckTaskCount \/ Pause
    BY <2>2 DEF DispatchNothing, Unlock, DispatchConnect, CheckTaskCount, Pause, bridge, pomelo
  <2>3. CASE Dispatch
    BY <2>3 DEF AsksOrAnswers
  <2>4. CASE ListenerOp
    BY <2>4 DEF ListenerOp
  <2>5. CASE DestroyClient \/ DisconnectClient \/ JoinWorker
    BY <2>5 DEF DestroyClient, DisconnectClient, JoinWorker, bridge, pomelo
  <2>6. CASE \E x \in Requests : ReleaseRequest(x)
    BY <2>6 DEF AsksOrAnswers
  <2>7. CASE FreeClient
    BY <2>7 DEF FreeClient, bridge
  <2> QED
    BY <1>5, <2>1, <2>2, <2>3, <2>4, <2>5, <2>6, <2>7 DEF MainStep
<1> QED
  BY <1>2, <1>3, <1>4, <1>5 DEF Next

LEMMA OwedStep ==
  ASSUME TypeInv, OwedInv, ClientInv, [Next]_vars
  PROVE  OwedInv'
<1> USE DEF OwedInv, Calls
<1>a. /\ queue \in [Kinds -> Seq(Items)] /\ inflight \in [Clients -> SUBSET Calls]
      /\ wpc \in [Clients -> WorkerPCs] /\ issued \subseteq Calls
      /\ witem \in [Clients -> Items \cup Results \cup {None}]
  BY DEF TypeInv, TypeOK, BridgeTypeOK, PomeloTypeOK
<1>b. /\ Calls \subseteq Items /\ Calls \cap Events = {}
      /\ \A x : KindOf(x) \in Kinds
  BY BridgeAssumption, KindOfType DEF BridgeAssumption, Items
<1>1. ASSUME NEW x \in Calls, Call(x) PROVE OwedInv'
  <2>1. /\ x \notin issued /\ issued' = issued \cup {x} /\ UNCHANGED <<queue, wpc, witem, cstate>>
        /\ \A c \in Clients : inflight'[c] = inflight[c]
                              \/ (c = client /\ cstate[c] = "working" /\ inflight'[c] = inflight[c] \cup {x})
    BY <1>1, <1>a DEF Call
  <2>2. \A y : Answered(y)' <=> Answered(y)
    BY <2>1 DEF Answered
  <2>3. ~Answered(x) /\ \A c \in Clients : x \notin inflight[c]
    BY <2>1
  <2> QED
    BY <2>1, <2>2, <2>3
<1>2. ASSUME NEW c \in Clients, NEW x \in Calls, OnAnswer(c, x) PROVE OwedInv'
  <2>1. /\ x \in inflight[c] /\ UNCHANGED <<queue, issued, cstate>>
        /\ inflight' = [inflight EXCEPT ![c] = @ \ {x}]
        /\ wpc' = [wpc EXCEPT ![c] = "lock"] /\ witem' = [witem EXCEPT ![c] = x]
    BY <1>2 DEF OnAnswer, EnterCallback, At, bridge
  <2>2. \A y : Answered(y)' => Answered(y) \/ y = x
    BY <2>1, <1>a DEF Answered
  <2>3. \A d \in Clients : inflight'[d] \subseteq inflight[d] /\ x \notin inflight'[d]
    BY <2>1, <1>a
  <2> QED
    BY <2>1, <2>2, <2>3
<1>3. ASSUME NEW c \in Clients, Push(c) PROVE OwedInv'
  <2> DEFINE k == KindOf(witem[c])
  <2>1. /\ wpc[c] = "lock" /\ wpc' = [wpc EXCEPT ![c] = "inc"] /\ witem[c] \in Items
        /\ queue' = [queue EXCEPT ![k] = Append(@, witem[c])]
        /\ UNCHANGED <<witem, issued, inflight, cstate>>
    BY <1>3 DEF Push, At, TypeInv, WorkerItem
  <2>2. ASSUME NEW y, Answered(y)' PROVE Answered(y)
    <3>1. CASE \E d \in Clients : wpc'[d] = "lock" /\ witem'[d] = y
      BY <2>1, <3>1, <1>a DEF Answered
    <3>2. CASE \E m \in Kinds : \E i \in 1 .. Len(queue'[m]) : queue'[m][i] = y
      <4>1. PICK m \in Kinds : \E i \in 1 .. Len(queue'[m]) : queue'[m][i] = y
        BY <3>2
      <4>2. CASE m = k
        <5>1. queue[k] \in Seq(Items) /\ queue'[k] = Append(queue[k], witem[c])
          BY <2>1, <1>a, <1>b
        <5>2. y = witem[c] \/ \E i \in 1 .. Len(queue[k]) : queue[k][i] = y
          BY <4>1, <4>2, <5>1, <2>1
        <5> QED
          BY <5>2, <2>1, <1>b DEF Answered
      <4>3. CASE m # k
        <5>1. queue'[m] = queue[m]
          BY <2>1, <1>a, <4>3
        <5> QED
          BY <4>1, <5>1 DEF Answered
      <4> QED
        BY <4>2, <4>3
    <3> QED
      BY <2>2, <3>1, <3>2 DEF Answered
  <2> QED
    BY <2>1, <2>2
<1>4. ASSUME Dispatch PROVE OwedInv'
  <2>1. /\ kind \in Kinds /\ queue[kind] # <<>> /\ queue' = [queue EXCEPT ![kind] = Tail(@)]
        /\ UNCHANGED <<wpc, witem, issued, inflight, cstate>>
    BY <1>4 DEF Dispatch, pomelo, TypeInv, TypeOK, LoopTypeOK
  <2>2. ASSUME NEW y, Answered(y)' PROVE Answered(y)
    <3>1. CASE \E d \in Clients : wpc'[d] = "lock" /\ witem'[d] = y
      BY <2>1, <3>1 DEF Answered
    <3>2. CASE \E m \in Kinds : \E i \in 1 .. Len(queue'[m]) : queue'[m][i] = y
      <4>a. PICK m \in Kinds : \E i \in 1 .. Len(queue'[m]) : queue'[m][i] = y
        BY <3>2
      <4>1. PICK i \in 1 .. Len(queue'[m]) : queue'[m][i] = y
        BY <4>a
      <4>2. CASE m = kind
        <5>1. queue[m] \in Seq(Items) /\ queue[m] # <<>> /\ queue'[m] = Tail(queue[m])
          BY <2>1, <1>a, <4>2
        <5>2. i + 1 \in 1 .. Len(queue[m]) /\ queue[m][i + 1] = y
          BY <4>1, <5>1
        <5> QED
          BY <5>2 DEF Answered
      <4>3. CASE m # kind
        <5>1. queue'[m] = queue[m]
          BY <2>1, <1>a, <4>3
        <5> QED
          BY <4>1, <5>1 DEF Answered
      <4> QED
        BY <4>2, <4>3
    <3> QED
      BY <2>2, <3>1, <3>2 DEF Answered
  <2> QED
    BY <2>1, <2>2
<1>5. ASSUME NEW x \in Calls, ReleaseRequest(x) PROVE OwedInv'
  <2>1. /\ x \in inflight[client] /\ inflight' = [inflight EXCEPT ![client] = @ \ {x}]
        /\ queue' = [queue EXCEPT !["request"] = Append(@, x)]
        /\ UNCHANGED <<wpc, witem, issued, cstate>>
    BY <1>5 DEF ReleaseRequest
  <2>2. client \in Clients
    BY <1>5 DEF ReleaseRequest, ClientInv, InCall, TypeInv, CallInv, TypeOK, BridgeTypeOK
  <2>3. ASSUME NEW y, Answered(y)' PROVE Answered(y) \/ y = x
    <3>1. CASE \E d \in Clients : wpc'[d] = "lock" /\ witem'[d] = y
      BY <2>1, <3>1 DEF Answered
    <3>2. CASE \E m \in Kinds : \E i \in 1 .. Len(queue'[m]) : queue'[m][i] = y
      <4>a. PICK m \in Kinds : \E i \in 1 .. Len(queue'[m]) : queue'[m][i] = y
        BY <3>2
      <4>1. PICK i \in 1 .. Len(queue'[m]) : queue'[m][i] = y
        BY <4>a
      <4>2. CASE m = "request"
        <5>1. queue[m] \in Seq(Items) /\ x \in Items /\ queue'[m] = Append(queue[m], x)
          BY <2>1, <1>a, <1>b, <4>2
        <5>2. y = x \/ (i \in 1 .. Len(queue[m]) /\ queue[m][i] = y)
          BY <4>1, <5>1
        <5> QED
          BY <5>2 DEF Answered
      <4>3. CASE m # "request"
        <5>1. queue'[m] = queue[m]
          BY <2>1, <1>a, <4>3
        <5> QED
          BY <4>1, <5>1 DEF Answered
      <4> QED
        BY <4>2, <4>3
    <3> QED
      BY <2>3, <3>1, <3>2 DEF Answered
  <2>4. \A d \in Clients : inflight'[d] \subseteq inflight[d] /\ x \notin inflight'[d]
    BY <2>1, <2>2, <1>a
  <2>5. x \in issued
    BY <2>1, <2>2
  <2> QED
    BY <2>1, <2>3, <2>4, <2>5
<1>6. CASE Aside
  <2>1. \A y \in Calls : Answered(y)' => Answered(y)
    BY <1>6, <1>b DEF Aside, Answered
  <2> QED
    BY <1>6, <2>1 DEF Aside
<1> QED
  BY <1>1, <1>2, <1>3, <1>4, <1>5, <1>6, AsideOrNot DEF AsksOrAnswers

LEMMA StopStep ==
  ASSUME TypeInv, StopInv, [Next]_vars
  PROVE  StopInv'
<1> USE DEF StopInv, InCall, bridge, loop, pomelo, Goto
<1>1. CASE UNCHANGED vars
  BY <1>1 DEF vars
<1> SUFFICES ASSUME Next PROVE StopInv'
  BY <1>1
<1>2. ASSUME NEW c \in Clients, Worker(c) PROVE StopInv'
  BY <1>2, WorkerKeepsMain
<1>3. ASSUME LuaCall PROVE StopInv'
  <2>1. \/ mpc' = "listener"
        \/ mpc' \in {"callback", "connected", "run"} /\ UNCHANGED <<mpc, pending>>
    BY <1>3 DEF LuaCall, AsyncConnect, Call, AddListener, RemoveListener, Disconnect, StartOp, InLua
  <2> QED
    BY <2>1
<1>4. ASSUME LuaReturns \/ \E b \in Signals : Signal(b) PROVE StopInv'
  BY <1>4 DEF LuaReturns, CallbackReturns, ConnectCallbackReturns, RunReturns, Signal
<1>5. ASSUME MainStep PROVE StopInv'
  <2>1. CASE Recv \/ NextByte \/ EndOfBytes \/ Timeout \/ DeleteBridge \/ ExitProcess
    BY <2>1 DEF Recv, NextByte, EndOfBytes, Timeout, DeleteBridge, ExitProcess, Tick
  <2>2. CASE DispatchNothing \/ Dispatch \/ Unlock \/ DispatchConnect
    BY <2>2 DEF DispatchNothing, Dispatch, Unlock, DispatchConnect, NextQueue
  <2>3. CASE CheckTaskCount \/ Pause
    BY <2>3 DEF CheckTaskCount, Pause, AfterTick
  <2>4. CASE ListenerOp
    <3>1. pending \in LuaOps /\ pending.back \in {"callback", "connected", "run"}
      BY <2>4 DEF ListenerOp, TypeInv, TypeOK, LoopTypeOK, CallInv, InCall
    <3>2. pending.op \in {"add", "remove", "disconnect"}
      BY <3>1 DEF LuaOps
    <3>3. CASE pending.op = "disconnect"
      BY <2>4, <3>3 DEF ListenerOp
    <3>4. CASE pending.op \in {"add", "remove"}
      BY <2>4, <3>1, <3>4 DEF ListenerOp, EndOp
    <3> QED
      BY <3>2, <3>3, <3>4
  <2>5. CASE DestroyClient \/ DisconnectClient \/ JoinWorker
    BY <2>5 DEF DestroyClient, DisconnectClient, JoinWorker, Crash
  <2>6. CASE (\E x \in Requests : ReleaseRequest(x)) \/ FreeClient
    BY <2>6 DEF ReleaseRequest, FreeClient, EndOp, TypeInv, CallInv, InCall
  <2> QED
    BY <1>5, <2>1, <2>2, <2>3, <2>4, <2>5, <2>6 DEF MainStep
<1> QED
  BY <1>2, <1>3, <1>4, <1>5 DEF Next

LEMMA ClientStep ==
  ASSUME TypeInv, ClientInv, [Next]_vars
  PROVE  ClientInv'
<1> USE DEF ClientInv, bridge, loop, pomelo
<1>a. None \notin Clients /\ connect_content \in ConnectContents \cup {None}
  BY BridgeAssumption DEF TypeInv, TypeOK, BridgeTypeOK, BridgeAssumption
<1> DEFINE Steady == /\ client' = client
                     /\ connect_content' = None \/ connect_content # None
                     /\ net_state' = "CONNECT" => net_state = "CONNECT" \/ connect_content # None
                     /\ pending' = None \/ pending # None \/ net_state = "CONNECT"
<1>b. ASSUME Steady PROVE ClientInv'
  BY <1>b
<1>1. CASE UNCHANGED vars
  BY <1>1 DEF vars
<1> SUFFICES ASSUME Next PROVE ClientInv'
  BY <1>1
<1>2. ASSUME NEW c \in Clients, Worker(c) PROVE Steady
  <2>1. CASE \/ \E result \in Results : OnConnect(c, result)
             \/ \E x \in Requests \cup Notifies : OnAnswer(c, x)
             \/ \E e \in Events : OnEvent(c, e)
             \/ CloseClient(c) \/ EmitDisconnect(c) \/ EndWorker(c)
    BY <2>1 DEF OnConnect, OnAnswer, OnEvent, CloseClient, EmitDisconnect, EndWorker
  <2>2. CASE WorkerStep(c)
    BY <2>2 DEF WorkerStep, StoreConnectResult, Push, IncTaskCount, Resume, UnlockQueue, SendSignal
  <2>3. CASE AssertFails(c) \/ UseAfterFree(c)
    BY <2>3 DEF AssertFails, UseAfterFree
  <2> QED
    BY <1>2, <2>1, <2>2, <2>3 DEF Worker
<1>3. ASSUME NEW c \in Clients, AsyncConnect(c) PROVE ClientInv'
  BY <1>3, <1>a DEF AsyncConnect
<1>4. ASSUME \/ \E x \in Requests \cup Notifies : Call(x)
             \/ \E e \in Events : AddListener(e) \/ RemoveListener(e)
             \/ Disconnect
      PROVE  Steady
  BY <1>4 DEF Call, AddListener, RemoveListener, Disconnect, StartOp
<1>5. ASSUME LuaReturns \/ \E b \in Signals : Signal(b) PROVE Steady
  BY <1>5 DEF LuaReturns, CallbackReturns, ConnectCallbackReturns, RunReturns, Signal
<1>6. ASSUME MainStep PROVE Steady
  <2>1. CASE Recv \/ NextByte \/ EndOfBytes \/ Timeout \/ DeleteBridge \/ ExitProcess
    BY <2>1 DEF Recv, NextByte, EndOfBytes, Timeout, DeleteBridge, ExitProcess
  <2>2. CASE DispatchNothing \/ Dispatch \/ Unlock \/ DispatchConnect \/ CheckTaskCount \/ Pause
    BY <2>2 DEF DispatchNothing, Dispatch, Unlock, DispatchConnect, CheckTaskCount, Pause
  <2>3. CASE ListenerOp
    BY <2>3 DEF ListenerOp, EndOp, TypeInv, CallInv, InCall
  <2>4. CASE DestroyClient \/ DisconnectClient \/ JoinWorker
    BY <2>4 DEF DestroyClient, DisconnectClient, JoinWorker
  <2>5. CASE (\E x \in Requests : ReleaseRequest(x)) \/ FreeClient
    BY <2>5 DEF ReleaseRequest, FreeClient, EndOp
  <2> QED
    BY <1>6, <2>1, <2>2, <2>3, <2>4, <2>5 DEF MainStep
<1> QED
  BY <1>b, <1>2, <1>3, <1>4, <1>5, <1>6 DEF Next, LuaCall

LEMMA KeptStep ==
  ASSUME KeptInv, [Next]_vars
  PROVE  CallbackKept'
<1> USE DEF KeptInv, CallbackKept
<1>a. /\ inflight \in [Clients -> SUBSET Calls] /\ cstate \in [Clients -> CStates]
      /\ client \in Clients \cup {None} /\ pending \in LuaOps \cup {None}
      /\ Calls \cap Events = {} /\ None \notin Clients
  BY BridgeAssumption DEF TypeInv, TypeOK, BridgeTypeOK, LoopTypeOK, PomeloTypeOK, BridgeAssumption, Calls
<1> DEFINE Steady == UNCHANGED <<content, client, pending>>
                     /\ (client \in Clients => inflight'[client] \subseteq inflight[client]
                                               /\ (cstate[client] = "freed" => cstate'[client] = "freed"))
<1>b. ASSUME Steady PROVE CallbackKept'
  BY <1>b, <1>a
<1>1. CASE UNCHANGED vars
  BY <1>1 DEF vars, bridge, loop, pomelo
<1> SUFFICES ASSUME Next PROVE CallbackKept'
  BY <1>1
<1>2. ASSUME NEW c \in Clients, Worker(c) PROVE CallbackKept'
  <2> USE DEF bridge, loop, pomelo
  <2>1. ASSUME NEW result \in Results, OnConnect(c, result) PROVE Steady
    BY <2>1, <1>a DEF OnConnect
  <2>2. ASSUME NEW x \in Requests \cup Notifies, OnAnswer(c, x) PROVE Steady
    BY <2>2, <1>a DEF OnAnswer
  <2>3. ASSUME NEW e \in Events, OnEvent(c, e) PROVE Steady
    BY <2>3 DEF OnEvent
  <2>4. CASE CloseClient(c)
    <3> Steady
      BY <2>4, <1>a DEF CloseClient
    <3> QED
      BY <1>b
  <2>5. CASE EmitDisconnect(c) \/ EndWorker(c)
    <3> Steady
      BY <2>5 DEF EmitDisconnect, EndWorker
    <3> QED
      BY <1>b
  <2>6. CASE WorkerStep(c)
    <3> Steady
      BY <2>6 DEF WorkerStep, StoreConnectResult, Push, IncTaskCount, Resume, UnlockQueue, SendSignal
    <3> QED
      BY <1>b
  <2>7. CASE AssertFails(c) \/ UseAfterFree(c)
    <3> Steady
      BY <2>7 DEF AssertFails, UseAfterFree
    <3> QED
      BY <1>b
  <2> QED
    BY <1>2, <1>b, <2>1, <2>2, <2>3, <2>4, <2>5, <2>6, <2>7 DEF Worker
<1>3. ASSUME NEW c \in Clients, AsyncConnect(c) PROVE CallbackKept'
  <2>1. client' = c /\ cstate[c] = "new" /\ inflight' = inflight
    BY <1>3 DEF AsyncConnect
  <2>2. inflight[c] = {}
    BY <2>1 DEF OwedInv
  <2> QED
    BY <2>1, <2>2
<1>4. ASSUME NEW x \in Requests \cup Notifies, Call(x) PROVE CallbackKept'
  <2>1. /\ content' = content \cup {x} /\ UNCHANGED <<client, cstate, pending>>
        /\ \A c \in Clients : inflight'[c] \subseteq inflight[c] \cup {x}
    BY <1>4, <1>a DEF Call, loop
  <2> QED
    BY <2>1, <1>a
<1>5. ASSUME NEW e \in Events, AddListener(e) \/ RemoveListener(e) PROVE CallbackKept'
  <2>1. content \subseteq content' /\ UNCHANGED <<client, cstate, inflight>>
    BY <1>5 DEF AddListener, RemoveListener, StartOp, bridge, pomelo
  <2>2. pending = None
    BY <1>5, <1>a DEF AddListener, RemoveListener, InLua, InCall, StopInv
  <2> QED
    BY <2>1, <2>2
<1>6. CASE Disconnect
  <2>1. pending' # None /\ pending'.op = "disconnect"
    <3>1. pending' \in LuaOps /\ pending'.op = "disconnect"
      BY <1>6, BridgeAssumption DEF Disconnect, StartOp, InLua, LuaOps, BridgeAssumption
    <3> QED
      BY <3>1, BridgeAssumption DEF BridgeAssumption
  <2> QED
    BY <2>1
<1>7. ASSUME LuaReturns \/ \E b \in Signals : Signal(b) PROVE CallbackKept'
  <2> Steady
    BY <1>7 DEF LuaReturns, CallbackReturns, ConnectCallbackReturns, RunReturns, Signal, bridge, loop, pomelo
  <2> QED
    BY <1>b
<1>8. ASSUME MainStep PROVE CallbackKept'
  <2> USE DEF bridge, loop, pomelo
  <2>1. CASE Recv \/ NextByte \/ EndOfBytes \/ Timeout \/ DeleteBridge \/ ExitProcess
    <3> Steady
      BY <2>1 DEF Recv, NextByte, EndOfBytes, Timeout, DeleteBridge, ExitProcess
    <3> QED
      BY <1>b
  <2>2. CASE DispatchNothing \/ Unlock \/ DispatchConnect \/ CheckTaskCount \/ Pause
    <3> Steady
      BY <2>2 DEF DispatchNothing, Unlock, DispatchConnect, CheckTaskCount, Pause
    <3> QED
      BY <1>b
  <2>3. CASE Dispatch
    <3> DEFINE x == Head(queue[kind])
    <3>1. /\ kind \in Kinds /\ queue[kind] \in Seq(Items) /\ queue[kind] # <<>>
          /\ content' = content \ (IF x \in Events THEN {} ELSE {x})
          /\ UNCHANGED <<client, cstate, inflight, pending>>
      BY <2>3 DEF Dispatch, TypeInv, TypeOK, BridgeTypeOK, LoopTypeOK
    <3>2. \A c \in Clients : x \in Calls => x \notin inflight[c]
      <4>1. 1 \in 1 .. Len(queue[kind]) /\ queue[kind][1] = x
        BY <3>1
      <4>2. Answered(x)
        BY <3>1, <4>1 DEF Answered
      <4> QED
        BY <4>2 DEF OwedInv
    <3> QED
      BY <3>1, <3>2, <1>a
  <2>4. CASE ListenerOp
    <3>1. pending \in LuaOps /\ pending # None /\ UNCHANGED <<client, cstate, inflight>>
      BY <2>4, <1>a DEF ListenerOp, TypeInv, CallInv, InCall
    <3>2. pending.op \in {"add", "remove", "disconnect"} /\ pending.event \in Events
      BY <3>1 DEF LuaOps
    <3>3. CASE pending.op = "disconnect"
      BY <2>4, <3>1, <3>3, <1>a DEF ListenerOp
    <3>4. CASE pending.op \in {"add", "remove"}
      <4>1. content \ Events \subseteq content'
        BY <2>4, <3>2, <3>4 DEF ListenerOp
      <4> QED
        BY <3>1, <3>4, <4>1, <1>a
    <3> QED
      BY <3>2, <3>3, <3>4
  <2>5. CASE DestroyClient \/ JoinWorker
    <3> Steady
      BY <2>5 DEF DestroyClient, JoinWorker
    <3> QED
      BY <1>b
  <2>6. CASE DisconnectClient
    BY <2>6, <1>a DEF DisconnectClient, StopInv, InCall, TypeInv, CallInv
  <2>7. ASSUME NEW x \in Requests, ReleaseRequest(x) PROVE Steady
    BY <2>7, <1>a DEF ReleaseRequest
  <2>8. CASE FreeClient
    BY <2>8, <1>a DEF FreeClient
  <2> QED
    BY <1>8, <1>b, <2>1, <2>2, <2>3, <2>4, <2>5, <2>6, <2>7, <2>8 DEF MainStep
<1> QED
  BY <1>2, <1>3, <1>4, <1>5, <1>6, <1>7, <1>8 DEF Next, LuaCall

LEMMA KeptInit == Init => KeptInv
<1> SUFFICES ASSUME Init PROVE KeptInv
  OBVIOUS
<1>1. OwedInv
  BY DEF Init, OwedInv, Answered
<1>2. StopInv /\ ClientInv /\ CallbackKept
  BY DEF Init, StopInv, ClientInv, InCall, CallbackKept
<1> QED
  BY TypeInit, <1>1, <1>2 DEF KeptInv

(* While a client is there and Lua is not disconnecting it, the callback of every
   call the server still owes an answer is in request_content or notify_content: an answer is
   dispatched once, only the dispatch of that answer erases the callback, and a new client owes nothing
   (request, notify, dispatchRequest, dispatchNotify and cleanup of CCPomelo.cpp). *)
THEOREM CallbackKeptAlways == Spec => []CallbackKept
<1>1. KeptInv /\ [Next]_vars => KeptInv'
  BY TypeStep, OwedStep, StopStep, ClientStep, KeptStep DEF KeptInv
<1>2. Spec => []KeptInv
  BY KeptInit, <1>1, PTL DEF Spec
<1>3. KeptInv => CallbackKept
  BY DEF KeptInv
<1> QED
  BY <1>2, <1>3, PTL
-----------------------------------------------------------------------------
(* The mailbox, step by step *)

Carries(c, x) == wpc[c] = "lock" /\ witem[c] = x
InQueue(x) == \E k \in Kinds : \E i \in 1 .. Len(queue[k]) : queue[k][i] = x

\* one worker carries the answer of a call, which is in no queue yet
PlaceInv ==
  \A c \in Clients : \A x \in Calls : Carries(c, x) =>
    ~InQueue(x) /\ \A d \in Clients : Carries(d, x) => d = c

LEMMA AppendInQueue ==
  ASSUME TypeInv, NEW k \in Kinds, NEW x \in Items, queue' = [queue EXCEPT ![k] = Append(@, x)],
         NEW y, InQueue(y)'
  PROVE  InQueue(y) \/ y = x
<1>1. PICK m \in Kinds : \E j \in 1 .. Len(queue'[m]) : queue'[m][j] = y
  BY DEF InQueue
<1>2. PICK i \in 1 .. Len(queue'[m]) : queue'[m][i] = y
  BY <1>1
<1>3. queue \in [Kinds -> Seq(Items)]
  BY DEF TypeInv, TypeOK, BridgeTypeOK
<1>4. CASE m = k
  <2>1. queue[m] \in Seq(Items) /\ queue'[m] = Append(queue[m], x)
    BY <1>3, <1>4
  <2>2. y = x \/ (i \in 1 .. Len(queue[m]) /\ queue[m][i] = y)
    BY <1>2, <2>1
  <2> QED
    BY <2>2 DEF InQueue
<1>5. CASE m # k
  <2>1. queue'[m] = queue[m]
    BY <1>3, <1>5
  <2> QED
    BY <1>2, <2>1 DEF InQueue
<1> QED
  BY <1>4, <1>5

LEMMA TailInQueue ==
  ASSUME TypeInv, NEW k \in Kinds, queue[k] # <<>>, queue' = [queue EXCEPT ![k] = Tail(@)],
         NEW y, InQueue(y)'
  PROVE  InQueue(y)
<1>1. PICK m \in Kinds : \E j \in 1 .. Len(queue'[m]) : queue'[m][j] = y
  BY DEF InQueue
<1>2. PICK i \in 1 .. Len(queue'[m]) : queue'[m][i] = y
  BY <1>1
<1>3. queue \in [Kinds -> Seq(Items)]
  BY DEF TypeInv, TypeOK, BridgeTypeOK
<1>4. CASE m = k
  <2>1. queue[m] \in Seq(Items) /\ queue[m] # <<>> /\ queue'[m] = Tail(queue[m])
    BY <1>3, <1>4
  <2>2. Len(Tail(queue[m])) = Len(queue[m]) - 1 /\ \A j \in 1 .. Len(Tail(queue[m])) : Tail(queue[m])[j] = queue[m][j + 1]
    BY <2>1
  <2>3. i \in 1 .. Len(Tail(queue[m])) /\ Tail(queue[m])[i] = y
    BY Zenon, <1>2, <2>1
  <2>4. i + 1 \in 1 .. Len(queue[m]) /\ queue[m][i + 1] = y
    <3>1. Len(queue[m]) \in Nat
      BY <2>1
    <3> QED
      BY <3>1, <2>2, <2>3
  <2> QED
    BY Zenon, <2>4 DEF InQueue
<1>5. CASE m # k
  <2>1. queue'[m] = queue[m]
    BY <1>3, <1>5
  <2> QED
    BY <1>2, <2>1 DEF InQueue
<1> QED
  BY <1>4, <1>5

LEMMA OwedOnce ==
  ASSUME OwedInv, NEW c \in Clients, NEW x \in inflight[c], x \in Calls
  PROVE  ~InQueue(x) /\ \A d \in Clients : ~Carries(d, x) /\ (x \in inflight[d] => d = c)
  BY DEF OwedInv, Answered, InQueue, Carries

LEMMA PlaceStep ==
  ASSUME TypeInv, OwedInv, ClientInv, PlaceInv, [Next]_vars
  PROVE  PlaceInv'
<1>a. /\ wpc \in [Clients -> WorkerPCs] /\ witem \in [Clients -> Items \cup Results \cup {None}]
      /\ Calls \subseteq Items /\ Calls \cap Events = {}
  BY BridgeAssumption DEF TypeInv, TypeOK, PomeloTypeOK, BridgeAssumption, Items, Calls
\* no worker takes up another call, and what is new in the queues is carried by none
<1>b. ASSUME \A y \in Calls : \A d \in Clients : Carries(d, y)' => Carries(d, y) /\ (InQueue(y)' => InQueue(y))
      PROVE  PlaceInv'
  BY <1>b DEF PlaceInv
<1>1. ASSUME NEW x \in Calls, Call(x) PROVE PlaceInv'
  <2>1. UNCHANGED <<queue, wpc, witem>>
    BY <1>1 DEF Call
  <2> QED
    BY <1>b, <2>1 DEF Carries, InQueue
<1>2. ASSUME NEW c \in Clients, NEW x \in Calls, OnAnswer(c, x) PROVE PlaceInv'
  <2>1. /\ x \in inflight[c] /\ UNCHANGED queue
        /\ wpc' = [wpc EXCEPT ![c] = "lock"] /\ witem' = [witem EXCEPT ![c] = x]
    BY <1>2 DEF OnAnswer, EnterCallback, At, bridge
  <2>2. ~InQueue(x) /\ \A d \in Clients : ~Carries(d, x)
    BY <2>1, OwedOnce
  <2>3. \A y : InQueue(y)' <=> InQueue(y)
    BY <2>1 DEF InQueue
  <2>4. \A d \in Clients : \A y : Carries(d, y)' <=> IF d = c THEN y = x ELSE Carries(d, y)
    BY <1>a, <2>1 DEF Carries
  <2> QED
    BY <2>2, <2>3, <2>4 DEF PlaceInv
<1>3. ASSUME NEW c \in Clients, Push(c) PROVE PlaceInv'
  <2> DEFINE k == KindOf(witem[c])
  <2>1. /\ wpc[c] = "lock" /\ wpc' = [wpc EXCEPT ![c] = "inc"] /\ witem[c] \in Items
        /\ queue' = [queue EXCEPT ![k] = Append(@, witem[c])] /\ witem' = witem
    BY <1>3 DEF Push, At, TypeInv, WorkerItem
  <2>2. \A d \in Clients : \A y : Carries(d, y)' => d # c /\ Carries(d, y)
    BY <1>a, <2>1 DEF Carries
  <2>3. \A y : InQueue(y)' => InQueue(y) \/ y = witem[c]
    BY <2>1, AppendInQueue, KindOfType
  <2>4. Carries(c, witem[c])
    BY <2>1 DEF Carries
  <2> QED
    BY <2>2, <2>3, <2>4 DEF PlaceInv
<1>4. ASSUME Dispatch PROVE PlaceInv'
  <2>1. /\ kind \in Kinds /\ queue[kind] # <<>> /\ queue' = [queue EXCEPT ![kind] = Tail(@)]
        /\ UNCHANGED <<wpc, witem>>
    BY <1>4 DEF Dispatch, pomelo, TypeInv, TypeOK, LoopTypeOK
  <2>2. \A y : InQueue(y)' => InQueue(y)
    BY <2>1, TailInQueue
  <2> QED
    BY <1>b, <2>1, <2>2 DEF Carries
<1>5. ASSUME NEW x \in Calls, ReleaseRequest(x) PROVE PlaceInv'
  <2>1. /\ x \in inflight[client] /\ queue' = [queue EXCEPT !["request"] = Append(@, x)]
        /\ UNCHANGED <<wpc, witem>>
    BY <1>5 DEF ReleaseRequest
  <2>2. client \in Clients
    BY <1>5 DEF ReleaseRequest, ClientInv, InCall, TypeInv, CallInv, TypeOK, BridgeTypeOK
  <2>3. \A d \in Clients : ~Carries(d, x)
    BY <2>1, <2>2, OwedOnce
  <2>4. \A y : InQueue(y)' => InQueue(y) \/ y = x
    BY <1>a, <2>1, AppendInQueue DEF Kinds
  <2> QED
    BY <1>b, <2>1, <2>3, <2>4 DEF Carries
<1>6. CASE Aside
  <2>1. \A y : InQueue(y)' <=> InQueue(y)
    BY <1>6 DEF Aside, InQueue
  <2>2. \A d \in Clients : \A y \in Calls : Carries(d, y)' => Carries(d, y)
    BY <1>6, <1>a DEF Aside, Carries
  <2> QED
    BY <1>b, <2>1, <2>2
<1> QED
  BY <1>1, <1>2, <1>3, <1>4, <1>5, <1>6, AsideOrNot DEF AsksOrAnswers

\* the calls whose answer has not entered a queue, and the end of the bridge, in CallbackMailbox
OwedCalls == (UNION {inflight[c] : c \in Clients})
               \cup {witem[c] : c \in {d \in Clients : wpc[d] = "lock" /\ witem[d] \notin Events}}
Down == mpc \in {"deleted", "exited"}

\* what a worker carries it goes on to carry, and the bridge does not come back
Still ==
  /\ \A c \in Clients : wpc[c] = "lock" => wpc'[c] = "lock" /\ witem'[c] = witem[c]
  /\ Down => Down'

LEMMA StillOrNot ==
  ASSUME TypeInv, [Next]_vars
  PROVE  AsksOrAnswers \/ Still
<1> USE DEF Still, Down, bridge, loop, pomelo, Goto, At
<1>a. /\ wpc \in [Clients -> WorkerPCs] /\ witem \in [Clients -> Items \cup Results \cup {None}]
  BY DEF TypeInv, TypeOK, PomeloTypeOK
<1>1. CASE UNCHANGED vars
  BY <1>1 DEF vars
<1> SUFFICES ASSUME Next PROVE AsksOrAnswers \/ Still
  BY <1>1
<1>2. ASSUME NEW c \in Clients, Worker(c) PROVE AsksOrAnswers \/ Still
  <2>1. ASSUME NEW result \in Results, OnConnect(c, result) PROVE Still
    BY <2>1, <1>a DEF OnConnect, EnterCallback
  <2>2. ASSUME NEW x \in Requests \cup Notifies, OnAnswer(c, x) PROVE AsksOrAnswers
    BY <2>2 DEF AsksOrAnswers, Calls
  <2>3. ASSUME NEW e \in Events, OnEvent(c, e) \/ EmitDisconnect(c) PROVE Still
    BY <2>3, <1>a DEF OnEvent, EmitDisconnect, Emit, EnterCallback
  <2>4. CASE CloseClient(c) \/ EndWorker(c)
    BY <2>4 DEF CloseClient, EndWorker
  <2>5. CASE Push(c)
    BY <2>5 DEF AsksOrAnswers
  <2>6. CASE StoreConnectResult(c) \/ IncTaskCount(c) \/ UnlockQueue(c) \/ SendSignal(c)
    BY <2>6, <1>a DEF StoreConnectResult, IncTaskCount, UnlockQueue, SendSignal
  <2>7. CASE Resume(c)
    BY <2>7, <1>a DEF Resume
  <2>8. CASE AssertFails(c) \/ UseAfterFree(c)
    BY <2>8 DEF AssertFails, UseAfterFree, Crash
  <2>9. Events # {}
    BY BridgeAssumption DEF BridgeAssumption
  <2> QED
    BY <1>2, <2>1, <2>2, <2>3, <2>4, <2>5, <2>6, <2>7, <2>8, <2>9 DEF Worker, WorkerStep
<1>3. ASSUME LuaCall PROVE AsksOrAnswers \/ Still
  <2>1. ASSUME NEW x \in Requests \cup Notifies, Call(x) PROVE AsksOrAnswers
    BY <2>1 DEF AsksOrAnswers, Calls
  <2>2. ASSUME NEW c \in Clients, AsyncConnect(c) PROVE Still
    BY <2>2 DEF AsyncConnect
  <2>3. ASSUME NEW e \in Events, AddListener(e) \/ RemoveListener(e) PROVE Still
    BY <2>3 DEF AddListener, RemoveListener, StartOp, InLua
  <2>4. CASE Disconnect
    BY <2>4 DEF Disconnect, StartOp, InLua
  <2> QED
    BY <1>3, <2>1, <2>2, <2>3, <2>4 DEF LuaCall
<1>4. ASSUME LuaReturns \/ \E b \in Signals : Signal(b) PROVE Still
  BY <1>4 DEF LuaReturns, CallbackReturns, ConnectCallbackReturns, RunReturns, Signal
<1>5. ASSUME MainStep PROVE AsksOrAnswers \/ Still
  <2>1. CASE Recv \/ NextByte \/ EndOfBytes \/ Timeout \/ DeleteBridge \/ ExitProcess
    BY <2>1 DEF Recv, NextByte, EndOfBytes, Timeout, DeleteBridge, ExitProcess
  <2>2. CASE DispatchNothing \/ Unlock \/ DispatchConnect \/ CheckTaskCount \/ Pause
    BY <2>2 DEF DispatchNothing, Unlock, DispatchConnect, CheckTaskCount, Pause
  <2>3. CASE Dispatch
    BY <2>3 DEF AsksOrAnswers
  <2>4. CASE ListenerOp
    BY <2>4 DEF ListenerOp
  <2>5. CASE DestroyClient \/ DisconnectClient \/ JoinWorker
    BY <2>5 DEF DestroyClient, DisconnectClient, JoinWorker
  <2>6. CASE \E x \in Requests : ReleaseRequest(x)
    BY <2>6 DEF AsksOrAnswers, Calls
  <2>7. CASE FreeClient
    BY <2>7 DEF FreeClient
  <2> QED
    BY <1>5, <2>1, <2>2, <2>3, <2>4, <2>5, <2>6, <2>7 DEF MainStep
<1> QED
  BY <1>2, <1>3, <1>4, <1>5 DEF Next

LEMMA OwedCallsAre ==
  ASSUME TypeInv, TypeInv'
  PROVE  /\ \A x : x \in OwedCalls <=> x \in Calls /\ \E c \in Clients : x \in inflight[c] \/ Carries(c, x)
         /\ (\A x : x \in OwedCalls <=> x \in Calls /\ \E c \in Clients : x \in inflight[c] \/ Carries(c, x))'
<1>1. Calls \cap Events = {} /\ Items = Calls \cup Events
  BY BridgeAssumption DEF BridgeAssumption, Items, Calls
<1>2. /\ inflight \in [Clients -> SUBSET Calls]
      /\ \A c \in Clients : wpc[c] = "lock" => witem[c] \in Items
  BY DEF TypeInv, TypeOK, PomeloTypeOK, WorkerItem, Calls
<1>3. /\ inflight' \in [Clients -> SUBSET Calls]
      /\ \A c \in Clients : wpc'[c] = "lock" => witem'[c] \in Items
  BY DEF TypeInv, TypeOK, PomeloTypeOK, WorkerItem, Calls
<1>4. \A x : x \in OwedCalls <=> x \in Calls /\ \E c \in Clients : x \in inflight[c] \/ Carries(c, x)
  <2> SUFFICES ASSUME NEW x PROVE x \in OwedCalls <=> x \in Calls /\ \E c \in Clients : x \in inflight[c] \/ Carries(c, x)
    BY Zenon
  <2>1. x \in OwedCalls <=> \/ \E c \in Clients : x \in inflight[c]
                            \/ \E c \in Clients : wpc[c] = "lock" /\ witem[c] \notin Events /\ x = witem[c]
    BY DEF OwedCalls
  <2>2. ASSUME NEW c \in Clients, x \in inflight[c] PROVE x \in Calls
    BY <1>2, <2>2
  <2>3. ASSUME NEW c \in Clients, wpc[c] = "lock", x = witem[c] PROVE x \notin Events <=> x \in Calls
    BY <1>1, <1>2, <2>3
  <2> QED
    BY <2>1, <2>2, <2>3 DEF Carries
<1>5. (\A x : x \in OwedCalls <=> x \in Calls /\ \E c \in Clients : x \in inflight[c] \/ Carries(c, x))'
  <2> SUFFICES ASSUME NEW x PROVE (x \in OwedCalls <=> x \in Calls /\ \E c \in Clients : x \in inflight[c] \/ Carries(c, x))'
    BY Zenon
  <2>1. (x \in OwedCalls <=> \/ \E c \in Clients : x \in inflight[c]
                            \/ \E c \in Clients : wpc[c] = "lock" /\ witem[c] \notin Events /\ x = witem[c])'
    BY DEF OwedCalls
  <2>2. ASSUME NEW c \in Clients, x \in inflight'[c] PROVE x \in Calls
    BY <1>3, <2>2
  <2>3. ASSUME NEW c \in Clients, wpc'[c] = "lock", x = witem'[c] PROVE x \notin Events <=> x \in Calls
    BY <1>1, <1>3, <2>3
  <2> QED
    BY <2>1, <2>2, <2>3 DEF Carries
<1> QED
  BY <1>4, <1>5

LEMMA MailboxStep ==
  ASSUME KeptInv, PlaceInv, TypeInv', [Next]_vars
  PROVE  [Mailbox!Next]_(Mailbox!vars)
<1> USE DEF KeptInv
<1>a. /\ \A x : x \in OwedCalls <=> x \in Calls /\ \E c \in Clients : x \in inflight[c] \/ Carries(c, x)
      /\ (\A x : x \in OwedCalls <=> x \in Calls /\ \E c \in Clients : x \in inflight[c] \/ Carries(c, x))'
  BY OwedCallsAre
<1>b. /\ wpc \in [Clients -> WorkerPCs] /\ witem \in [Clients -> Items \cup Results \cup {None}]
      /\ inflight \in [Clients -> SUBSET Calls]
      /\ Calls = Requests \cup Notifies /\ Calls \cap Events = {} /\ Items = Calls \cup Events
  BY BridgeAssumption DEF TypeInv, TypeOK, PomeloTypeOK, BridgeAssumption, Items, Calls
\* the steps of the mailbox
<1>m. /\ \A x : Mailbox!Ask(x) <=> /\ x \notin issued /\ issued' = issued \cup {x}
                                   /\ OwedCalls' \in {OwedCalls, OwedCalls \cup {x}}
                                   /\ queue' = queue /\ Down' = Down
      /\ \A x : Mailbox!Post(x) <=> /\ x \in OwedCalls \cup Events
                                    /\ queue' = [queue EXCEPT ![KindOf(x)] = Append(@, x)]
                                    /\ OwedCalls' = OwedCalls \ {x}
                                    /\ issued' = issued /\ Down' = Down
      /\ \A k : Mailbox!Take(k) <=> /\ ~Down /\ queue[k] # <<>> /\ queue' = [queue EXCEPT ![k] = Tail(@)]
                                    /\ issued' = issued /\ OwedCalls' = OwedCalls /\ Down' = Down
  BY DEF Mailbox!Ask, Mailbox!Post, Mailbox!Take, OwedCalls, Down
<1>n. Mailbox!GoDown <=> Down' = TRUE /\ queue' = queue /\ issued' = issued /\ OwedCalls' = OwedCalls
  BY DEF Mailbox!GoDown, OwedCalls, Down
<1>v. queue' = queue /\ issued' = issued /\ OwedCalls' = OwedCalls /\ Down' = Down => UNCHANGED Mailbox!vars
  BY DEF Mailbox!vars, OwedCalls, Down
<1>1. ASSUME NEW x \in Calls, Call(x) PROVE Mailbox!Next
  <2>1. /\ x \notin issued /\ issued' = issued \cup {x} /\ UNCHANGED <<queue, wpc, witem, mpc>>
        /\ inflight' = IF cstate[client] = "working" THEN [inflight EXCEPT ![client] = @ \cup {x}] ELSE inflight
    BY <1>1 DEF Call, loop
  <2>2. client \in Clients
    BY <1>1 DEF Call, ClientInv, TypeInv, TypeOK, BridgeTypeOK
  <2>3. \A d \in Clients : \A y : Carries(d, y)' <=> Carries(d, y)
    BY <2>1 DEF Carries
  <2>4. CASE cstate[client] = "working"
    <3>1. \A d \in Clients : \A y : y \in inflight'[d] <=> y \in inflight[d] \/ (d = client /\ y = x)
      BY <1>b, <2>1, <2>4
    <3>2. \A y : y \in OwedCalls' <=> y \in OwedCalls \cup {x}
      BY <1>a, <2>2, <2>3, <3>1
    <3>3. OwedCalls' = OwedCalls \cup {x}
      BY <3>2
    <3> QED
      BY <1>1, <1>b, <1>m, <2>1, <3>3 DEF Mailbox!Next, Down
  <2>5. CASE cstate[client] # "working"
    <3>1. \A y : y \in OwedCalls' <=> y \in OwedCalls
      BY <1>a, <2>1, <2>3, <2>5
    <3>2. OwedCalls' = OwedCalls
      BY <3>1 DEF OwedCalls
    <3> QED
      BY <1>1, <1>b, <1>m, <2>1, <3>2 DEF Mailbox!Next, Down
  <2> QED
    BY <2>4, <2>5
<1>2. ASSUME NEW c \in Clients, NEW x \in Calls, OnAnswer(c, x) PROVE UNCHANGED Mailbox!vars
  <2>1. /\ x \in inflight[c] /\ UNCHANGED <<queue, issued, mpc>>
        /\ inflight' = [inflight EXCEPT ![c] = @ \ {x}] /\ wpc[c] = "idle"
        /\ wpc' = [wpc EXCEPT ![c] = "lock"] /\ witem' = [witem EXCEPT ![c] = x]
    BY <1>2 DEF OnAnswer, EnterCallback, At, bridge, loop
  <2>2. \A d \in Clients : \A y : Carries(d, y)' <=> Carries(d, y) \/ (d = c /\ y = x)
    BY <1>b, <2>1 DEF Carries
  <2>3. \A d \in Clients : \A y : y \in inflight'[d] <=> y \in inflight[d] /\ ~(d = c /\ y = x)
    BY <1>b, <2>1
  <2>4. \A y : y \in OwedCalls' <=> y \in OwedCalls
    BY <1>a, <2>1, <2>2, <2>3
  <2>5. OwedCalls' = OwedCalls
    BY <2>4 DEF OwedCalls
  <2> QED
    BY <1>v, <2>1, <2>5 DEF Down
<1>3. ASSUME NEW c \in Clients, Push(c) PROVE Mailbox!Next
  <2>0. PICK x : x = witem[c]
    OBVIOUS
  <2>1. /\ wpc[c] = "lock" /\ wpc' = [wpc EXCEPT ![c] = "inc"] /\ x \in Items
        /\ queue' = [queue EXCEPT ![KindOf(x)] = Append(@, x)]
        /\ UNCHANGED <<witem, inflight, issued, mpc>>
    BY <1>3, <2>0 DEF Push, At, TypeInv, WorkerItem, loop
  <2>2. \A d \in Clients : \A y : Carries(d, y)' <=> d # c /\ Carries(d, y)
    BY <1>b, <2>1 DEF Carries
  <2>3. Carries(c, x)
    BY <2>0, <2>1 DEF Carries
  <2>4. \A y : y \in OwedCalls' <=> y \in OwedCalls /\ y # x
    <3>1. ASSUME x \in Calls, NEW d \in Clients PROVE x \notin inflight[d] /\ ~Carries(d, x)'
      <4>1. Answered(x)
        BY <2>3 DEF Answered, Carries
      <4>2. x \notin inflight[d]
        BY <3>1, <4>1 DEF OwedInv
      <4>3. ~Carries(d, x)'
        BY <2>2, <2>3, <3>1 DEF PlaceInv
      <4> QED
        BY <4>2, <4>3
    <3>2. ASSUME NEW d \in Clients, NEW y, Carries(d, y), y # x PROVE d # c
      BY <2>3, <3>2 DEF Carries
    <3>3. ASSUME NEW y, y \in OwedCalls' PROVE y \in OwedCalls /\ y # x
      <4>1. y \in Calls /\ \E d \in Clients : y \in inflight[d] \/ Carries(d, y)'
        BY Zenon, <1>a, <2>1, <3>3
      <4> QED
        BY Zenon, <1>a, <2>2, <3>1, <4>1
    <3>4. ASSUME NEW y, y \in OwedCalls, y # x PROVE y \in OwedCalls'
      <4>1. y \in Calls /\ \E d \in Clients : y \in inflight'[d] \/ Carries(d, y)'
        BY Zenon, <1>a, <2>1, <2>2, <3>2, <3>4
      <4> QED
        BY Zenon, <1>a, <4>1
    <3> QED
      BY <3>3, <3>4
  <2>5. x \in OwedCalls \cup Events
    BY <1>a, <1>b, <2>1, <2>3
  <2>6. OwedCalls' = OwedCalls \ {x}
    BY <2>4
  <2>7. Mailbox!Post(x)
    <3>1. Down' = Down
      BY <2>1 DEF Down
    <3> QED
      BY Zenon, <1>m, <2>1, <2>5, <2>6, <3>1
  <2>8. x \in Requests \cup Notifies \cup Events
    BY <1>b, <2>1
  <2> QED
    BY Zenon, <2>7, <2>8 DEF Mailbox!Next
<1>4. ASSUME Dispatch PROVE Mailbox!Next
  <2>1. /\ kind \in Kinds /\ queue[kind] # <<>> /\ queue' = [queue EXCEPT ![kind] = Tail(@)]
        /\ mpc = "lock" /\ mpc' \in {"callback", "unlock"} /\ UNCHANGED <<wpc, witem, inflight, issued>>
    BY <1>4 DEF Dispatch, pomelo, TypeInv, TypeOK, LoopTypeOK, Goto
  <2>2. OwedCalls' = OwedCalls
    BY <2>1 DEF OwedCalls
  <2>3. Mailbox!Take(kind)
    <3>1. Down' = Down /\ ~Down
      BY <2>1 DEF Down
    <3> QED
      BY Zenon, <1>m, <2>1, <2>2, <3>1
  <2> QED
    BY Zenon, <2>1, <2>3 DEF Mailbox!Next
<1>5. ASSUME NEW x \in Calls, ReleaseRequest(x) PROVE Mailbox!Next
  <2>1. /\ x \in inflight[client] /\ inflight' = [inflight EXCEPT ![client] = @ \ {x}]
        /\ queue' = [queue EXCEPT !["request"] = Append(@, x)] /\ x \in Requests
        /\ UNCHANGED <<wpc, witem, issued, mpc>>
    BY <1>5 DEF ReleaseRequest
  <2>2. client \in Clients
    BY <1>5 DEF ReleaseRequest, ClientInv, InCall, TypeInv, CallInv, TypeOK, BridgeTypeOK
  <2>3. \A d \in Clients : ~Carries(d, x) /\ (x \in inflight[d] => d = client)
    BY <2>1, <2>2, OwedOnce
  <2>4. \A d \in Clients : \A y : /\ Carries(d, y)' <=> Carries(d, y)
                                  /\ y \in inflight'[d] <=> y \in inflight[d] /\ ~(d = client /\ y = x)
    BY <1>b, <2>1 DEF Carries
  <2>5. \A y : y \in OwedCalls' <=> y \in OwedCalls /\ y # x
    BY <1>a, <2>3, <2>4
  <2>6. x \in OwedCalls /\ OwedCalls' = OwedCalls \ {x}
    BY <1>a, <2>1, <2>2, <2>5
  <2>7. KindOf(x) = "request"
    BY <2>1 DEF KindOf
  <2>8. Mailbox!Post(x)
    BY <1>m, <2>1, <2>6, <2>7 DEF Down
  <2> QED
    BY <1>b, <2>8 DEF Mailbox!Next
<1>6. CASE Aside /\ Still
  <2>1. /\ UNCHANGED <<queue, inflight, issued>>
        /\ \A d \in Clients : \A y \in Calls : Carries(d, y)' <=> Carries(d, y)
    BY <1>6, <1>b DEF Aside, Still, Carries
  <2>2. \A y : y \in OwedCalls' <=> y \in OwedCalls
    BY <1>a, <2>1
  <2>3. OwedCalls' = OwedCalls
    BY <2>2 DEF OwedCalls
  <2>4. CASE Down' = Down
    BY <1>v, <2>1, <2>3, <2>4
  <2>5. CASE ~Down /\ Down'
    BY <1>n, <2>1, <2>3, <2>5 DEF Mailbox!Next, Down
  <2>6. Down' = Down \/ (~Down /\ Down')
    BY <1>6 DEF Still, Down
  <2> QED
    BY <2>4, <2>5, <2>6
<1> QED
  BY <1>1, <1>2, <1>3, <1>4, <1>5, <1>6, AsideOrNot, StillOrNot DEF AsksOrAnswers

(* Every step of the threads is a step of the mailbox or leaves it as it is: an answer enters its queue once,
   and only if it is owed, each queue is emptied from the front, nothing else touches it, and nothing is dispatched
   after the end (asyncConnect, request, notify, pushReponse, pushEvent, pushNotify and the dispatch of CCPomelo.cpp;
   pc__release_requests of libpomelo). *)
THEOREM BridgeStepsLikeTheMailbox == Spec => Mailbox!Init /\ [][Mailbox!Next]_(Mailbox!vars)
<1>1. Init => Mailbox!Init
  BY DEF Init, Mailbox!Init
<1>2. Init => PlaceInv
  BY DEF Init, PlaceInv, Carries
<1>3. KeptInv /\ [Next]_vars => KeptInv'
  BY TypeStep, OwedStep, StopStep, ClientStep, KeptStep DEF KeptInv
<1>4. KeptInv /\ PlaceInv /\ [Next]_vars => PlaceInv'
  BY PlaceStep DEF KeptInv
<1>5. KeptInv /\ PlaceInv /\ KeptInv' /\ [Next]_vars => [Mailbox!Next]_(Mailbox!vars)
  BY MailboxStep DEF KeptInv
<1> QED
  BY <1>1, <1>2, <1>3, <1>4, <1>5, KeptInit, PTL DEF Spec
-----------------------------------------------------------------------------
(* No circle of mutexes *)

\* a client that was not connected has no worker
NewInv == \A c \in Clients : cstate[c] = "new" => wpc[c] = "idle" /\ c \notin alive

\* who holds a mutex is at work with it
HoldInv ==
  /\ \A k \in Kinds : lock[k] \in Clients => HoldsQueue(lock[k], k)
  /\ \A k \in Kinds : lock[k] = Main /\ mpc # "exited" => MainHoldsQueue(k)
  /\ \A c \in Clients : llock[c] # None =>
       llock[c] = c /\ wpc[c] \notin {"idle", "content"} /\ witem[c] \in Events

\* from which callbacks Lua makes a call that can block
BackInv ==
  pending # None /\ pending.back = "callback" =>
    kind \in IF pending.op = "disconnect" THEN DisconnectContexts ELSE ListenerContexts

\* the requests on their way from the client have their callback, so that a disconnect finds none
QuietInv ==
  /\ client # None => \A x \in Requests : x \in inflight[client] \/ Carries(client, x) => x \in content
  /\ pending # None /\ pending.op = "disconnect" => content \cap Requests = {}

LEMMA NewStep ==
  ASSUME TypeInv, NewInv, [Next]_vars
  PROVE  NewInv'
<1> USE DEF NewInv, bridge, loop, pomelo, At
<1>a. /\ wpc \in [Clients -> WorkerPCs] /\ cstate \in [Clients -> CStates]
  BY DEF TypeInv, TypeOK, PomeloTypeOK
<1>1. CASE UNCHANGED vars
  BY <1>1 DEF vars
<1> SUFFICES ASSUME Next PROVE NewInv'
  BY <1>1
<1>2. ASSUME NEW c \in Clients, Worker(c) PROVE NewInv'
  <2>1. ASSUME NEW result \in Results, OnConnect(c, result) PROVE NewInv'
    BY <2>1, <1>a DEF OnConnect
  <2>2. ASSUME NEW x \in Requests \cup Notifies, OnAnswer(c, x) PROVE NewInv'
    BY <2>2, <1>a DEF OnAnswer
  <2>3. ASSUME NEW e \in Events, OnEvent(c, e) \/ EmitDisconnect(c) PROVE NewInv'
    BY <2>3, <1>a DEF OnEvent, EmitDisconnect, Emit
  <2>4. CASE CloseClient(c) \/ EndWorker(c)
    BY <2>4, <1>a DEF CloseClient, EndWorker
  <2>5. CASE WorkerStep(c)
    BY <2>5, <1>a DEF WorkerStep, Push, StoreConnectResult, IncTaskCount, Resume, UnlockQueue, SendSignal
  <2>6. CASE AssertFails(c) \/ UseAfterFree(c)
    BY <2>6 DEF AssertFails, UseAfterFree, Crash
  <2>7. Events # {}
    BY BridgeAssumption DEF BridgeAssumption
  <2> QED
    BY <1>2, <2>1, <2>2, <2>3, <2>4, <2>5, <2>6, <2>7 DEF Worker
<1>3. ASSUME LuaCall PROVE NewInv'
  <2>1. ASSUME NEW c \in Clients, AsyncConnect(c) PROVE NewInv'
    BY <2>1, <1>a DEF AsyncConnect
  <2>2. ASSUME NEW x \in Requests \cup Notifies, Call(x) PROVE NewInv'
    BY <2>2 DEF Call
  <2>3. ASSUME NEW e \in Events, AddListener(e) \/ RemoveListener(e) \/ Disconnect PROVE NewInv'
    BY <2>3 DEF AddListener, RemoveListener, Disconnect, StartOp
  <2>4. Events # {}
    BY BridgeAssumption DEF BridgeAssumption
  <2> QED
    BY <1>3, <2>1, <2>2, <2>3, <2>4 DEF LuaCall
<1>4. ASSUME LuaReturns \/ \E b \in Signals : Signal(b) PROVE NewInv'
  BY <1>4 DEF LuaReturns, CallbackReturns, ConnectCallbackReturns, RunReturns, Signal
<1>5. ASSUME MainStep PROVE NewInv'
  <2>1. CASE Recv \/ NextByte \/ EndOfBytes \/ Timeout \/ DeleteBridge \/ ExitProcess
    BY <2>1 DEF Recv, NextByte, EndOfBytes, Timeout, DeleteBridge, ExitProcess
  <2>2. CASE DispatchNothing \/ Dispatch \/ Unlock \/ DispatchConnect \/ CheckTaskCount \/ Pause
    BY <2>2 DEF DispatchNothing, Dispatch, Unlock, DispatchConnect, CheckTaskCount, Pause
  <2>3. CASE ListenerOp
    BY <2>3 DEF ListenerOp
  <2>4. CASE DestroyClient \/ JoinWorker \/ \E x \in Requests : ReleaseRequest(x)
    BY <2>4 DEF DestroyClient, JoinWorker, ReleaseRequest
  <2>5. CASE DisconnectClient \/ FreeClient
    BY <2>5, <1>a DEF DisconnectClient, FreeClient, Crash
  <2> QED
    BY <1>5, <2>1, <2>2, <2>3, <2>4, <2>5 DEF MainStep
<1> QED
  BY <1>2, <1>3, <1>4, <1>5 DEF Next

LEMMA HoldStep ==
  ASSUME TypeInv, StopInv, HoldInv, [Next]_vars
  PROVE  HoldInv'
<1> USE DEF bridge, loop, pomelo, At
<1> DEFINE Queues == \A k \in Kinds : lock[k] \in Clients => HoldsQueue(lock[k], k)
           MainQueue == \A k \in Kinds : lock[k] = Main /\ mpc # "exited" => MainHoldsQueue(k)
           Listener(c) == llock[c] # None => llock[c] = c /\ wpc[c] \notin {"idle", "content"} /\ witem[c] \in Events
<1>a. /\ wpc \in [Clients -> WorkerPCs] /\ witem \in [Clients -> Items \cup Results \cup {None}]
      /\ lock \in [Kinds -> Clients \cup {Main, None}] /\ llock \in [Clients -> Clients \cup {None}]
      /\ kind \in Kinds
  BY DEF TypeInv, TypeOK, PomeloTypeOK, BridgeTypeOK, LoopTypeOK
<1>b. /\ Main \notin Clients /\ None \notin Clients /\ Main # None
      /\ Requests \cup Notifies \cup Events = Items /\ Results \cap Items = {}
      /\ DisconnectEvent \in Events
  BY BridgeAssumption DEF BridgeAssumption, Items
<1>c. \A x : KindOf(x) \in Kinds
  BY KindOfType
<1>h. Queues /\ MainQueue /\ \A c \in Clients : Listener(c)
  BY DEF HoldInv
<1>1. ASSUME UNCHANGED <<lock, llock, wpc, witem>> PROVE Queues' /\ \A c \in Clients : Listener(c)'
  BY <1>1, <1>h DEF HoldsQueue
<1>2. ASSUME UNCHANGED <<lock, mpc, kind, pending>> PROVE MainQueue'
  BY <1>2, <1>h DEF MainHoldsQueue
<1>3. ASSUME NEW c \in Clients, wpc[c] \in {"idle", "content", "signal"}, UNCHANGED lock,
             \A d \in Clients \ {c} : wpc'[d] = wpc[d] /\ witem'[d] = witem[d]
      PROVE  Queues'
  BY <1>3, <1>h, <1>a DEF HoldsQueue
<1>4. ASSUME NEW c \in Clients, \A d \in Clients \ {c} : wpc'[d] = wpc[d] /\ witem'[d] = witem[d] /\ llock'[d] = llock[d],
             Listener(c)'
      PROVE  \A d \in Clients : Listener(d)'
  BY <1>4, <1>h
<1>5. ASSUME NEW c \in Clients, Worker(c) PROVE Queues' /\ MainQueue' /\ \A d \in Clients : Listener(d)'
  <2>1. ASSUME NEW result \in Results, OnConnect(c, result) PROVE Queues' /\ MainQueue' /\ \A d \in Clients : Listener(d)'
    <3>1. /\ UNCHANGED <<lock, mpc, kind, pending, llock>> /\ wpc[c] = "idle"
          /\ wpc' = [wpc EXCEPT ![c] = "content"] /\ witem' = [witem EXCEPT ![c] = result]
      BY <2>1 DEF OnConnect, EnterCallback
    <3>2. llock[c] = None
      BY <3>1, <1>h
    <3> QED
      BY <3>1, <3>2, <1>a, <1>2, <1>3, <1>4
  <2>2. ASSUME NEW x \in Requests \cup Notifies, OnAnswer(c, x) PROVE Queues' /\ MainQueue' /\ \A d \in Clients : Listener(d)'
    <3>1. /\ UNCHANGED <<lock, mpc, kind, pending, llock>> /\ wpc[c] = "idle"
          /\ wpc' = [wpc EXCEPT ![c] = "lock"] /\ witem' = [witem EXCEPT ![c] = x]
      BY <2>2 DEF OnAnswer, EnterCallback
    <3>2. llock[c] = None
      BY <3>1, <1>h
    <3> QED
      BY <3>1, <3>2, <1>a, <1>2, <1>3, <1>4
  <2>3. ASSUME NEW e \in Events, Emit(c, e), UNCHANGED <<bridge, loop>>
        PROVE  Queues' /\ MainQueue' /\ \A d \in Clients : Listener(d)'
    <3>1. /\ UNCHANGED <<lock, mpc, kind, pending>> /\ wpc[c] = "idle"
          /\ wpc' = [wpc EXCEPT ![c] = "lock"] /\ witem' = [witem EXCEPT ![c] = e]
          /\ llock' = [llock EXCEPT ![c] = c]
      BY <2>3 DEF Emit, EnterCallback
    <3> QED
      BY <3>1, <1>a, <1>2, <1>3, <1>4
  <2>4. CASE CloseClient(c) \/ EndWorker(c)
    BY <2>4, <1>1, <1>2 DEF CloseClient, EndWorker
  <2>5. CASE Push(c)
    <3> DEFINE k == KindOf(witem[c])
    <3>1. /\ UNCHANGED <<mpc, kind, pending, llock, witem>> /\ wpc[c] = "lock" /\ k \in Kinds
          /\ wpc' = [wpc EXCEPT ![c] = "inc"] /\ lock' = [lock EXCEPT ![k] = c] /\ witem[c] \in Items
      BY <2>5, <1>c DEF Push, TypeInv, WorkerItem
    <3>2. Queues'
      <4> SUFFICES ASSUME NEW m \in Kinds, lock'[m] \in Clients PROVE HoldsQueue(lock[m], m)'
        OBVIOUS
      <4>1. CASE m = k
        BY <3>1, <4>1, <1>a DEF HoldsQueue
      <4>2. CASE m # k
        <5>1. lock'[m] = lock[m] /\ HoldsQueue(lock[m], m)
          BY <3>1, <4>2, <1>a, <1>h
        <5> QED
          BY <3>1, <5>1, <1>a DEF HoldsQueue
      <4> QED
        BY <4>1, <4>2
    <3>3. MainQueue'
      BY <3>1, <1>a, <1>b, <1>h DEF MainHoldsQueue
    <3>4. Listener(c)'
      BY <3>1, <1>a, <1>h
    <3> QED
      BY <3>1, <3>2, <3>3, <3>4, <1>a, <1>4
  <2>6. CASE StoreConnectResult(c)
    <3>1. /\ UNCHANGED <<lock, mpc, kind, pending, llock, witem>> /\ wpc[c] = "content"
          /\ wpc' = [wpc EXCEPT ![c] = "inc"]
      BY <2>6 DEF StoreConnectResult
    <3>2. llock[c] = None
      BY <3>1, <1>h
    <3> QED
      BY <3>1, <3>2, <1>a, <1>2, <1>3, <1>4
  <2>7. CASE IncTaskCount(c) \/ Resume(c)
    <3>1. /\ UNCHANGED <<lock, mpc, kind, pending, llock, witem>> /\ wpc[c] \in {"inc", "resume"}
          /\ \/ wpc' = [wpc EXCEPT ![c] = "resume"]
             \/ wpc' = [wpc EXCEPT ![c] = IF witem[c] \in Items THEN "unlock" ELSE "idle"]
      BY <2>7 DEF IncTaskCount, Resume
    <3>2. Queues'
      BY <3>1, <1>a, <1>h DEF HoldsQueue
    <3>3. Listener(c)'
      BY <3>1, <1>a, <1>b, <1>h
    <3> QED
      BY <3>1, <3>2, <3>3, <1>a, <1>2, <1>4
  <2>8. CASE UnlockQueue(c)
    <3> DEFINE k == KindOf(witem[c])
    <3>1. /\ UNCHANGED <<mpc, kind, pending, llock, witem>> /\ wpc[c] = "unlock"
          /\ wpc' = [wpc EXCEPT ![c] = "signal"] /\ lock' = [lock EXCEPT ![k] = None]
      BY <2>8 DEF UnlockQueue
    <3>2. Queues'
      <4> SUFFICES ASSUME NEW m \in Kinds, lock'[m] \in Clients PROVE HoldsQueue(lock[m], m)'
        OBVIOUS
      <4>1. m # k /\ lock'[m] = lock[m] /\ HoldsQueue(lock[m], m)
        BY <3>1, <1>a, <1>b, <1>h
      <4>2. lock[m] # c
        BY <4>1 DEF HoldsQueue
      <4> QED
        BY <3>1, <4>1, <4>2, <1>a DEF HoldsQueue
    <3>3. MainQueue'
      BY <3>1, <1>a, <1>b, <1>h DEF MainHoldsQueue
    <3>4. Listener(c)'
      BY <3>1, <1>a, <1>h
    <3> QED
      BY <3>1, <3>2, <3>3, <3>4, <1>a, <1>4
  <2>9. CASE SendSignal(c)
    <3>1. /\ UNCHANGED <<lock, mpc, kind, pending, witem>> /\ wpc[c] = "signal"
          /\ wpc' = [wpc EXCEPT ![c] = "idle"] /\ llock' = [llock EXCEPT ![c] = None]
      BY <2>9 DEF SendSignal
    <3> QED
      BY <3>1, <1>a, <1>2, <1>3, <1>4
  <2>10. CASE AssertFails(c) \/ UseAfterFree(c)
    <3>1. UNCHANGED <<lock, llock, wpc, witem>> /\ mpc' = "exited"
      BY <2>10 DEF AssertFails, UseAfterFree, Crash
    <3> QED
      BY <3>1, <1>1
  <2> QED
    BY <1>5, <2>1, <2>2, <2>3, <2>4, <2>5, <2>6, <2>7, <2>8, <2>9, <2>10, <1>b
       DEF Worker, WorkerStep, OnEvent, EmitDisconnect
\* between two callbacks the main thread holds no queue
<1>6. ASSUME mpc \notin {"callback", "unlock", "exited"}, ~InCall, UNCHANGED lock PROVE MainQueue'
  <2>1. \A k \in Kinds : lock[k] # Main
    BY <1>6, <1>h DEF StopInv, MainHoldsQueue
  <2> QED
    BY <1>6, <2>1
<1>7. ASSUME LuaCall PROVE Queues' /\ MainQueue' /\ \A d \in Clients : Listener(d)'
  <2>1. InLua /\ UNCHANGED <<lock, llock, wpc, witem, kind>>
    BY <1>7 DEF LuaCall, AsyncConnect, Call, AddListener, RemoveListener, Disconnect, StartOp
  <2>2. UNCHANGED <<mpc, pending>> \/ (pending' # None /\ pending'.back = mpc)
    <3>1. ASSUME NEW op \in {"add", "remove", "disconnect"}, NEW e \in Events, StartOp(op, e)
          PROVE  pending' # None /\ pending'.back = mpc
      <4>1. pending' = [op |-> op, event |-> e, back |-> mpc]
        BY <3>1 DEF StartOp
      <4>2. pending' \in LuaOps /\ pending'.back = mpc
        BY <2>1, <4>1 DEF LuaOps, InLua
      <4> QED
        BY <4>2, BridgeAssumption DEF BridgeAssumption
    <3> QED
      BY <1>7, <1>b, <3>1 DEF LuaCall, AsyncConnect, Call, AddListener, RemoveListener, Disconnect
  <2>3. MainQueue'
    <3>1. CASE mpc = "callback"
      BY <2>1, <2>2, <3>1, <1>h DEF MainHoldsQueue
    <3>2. CASE mpc \in {"connected", "run"}
      BY <2>1, <3>2, <1>6 DEF InCall
    <3> QED
      BY <2>1, <3>1, <3>2 DEF InLua
  <2> QED
    BY <2>1, <2>3, <1>1
<1>8. ASSUME LuaReturns \/ \E b \in Signals : Signal(b) PROVE Queues' /\ MainQueue' /\ \A d \in Clients : Listener(d)'
  <2>1. UNCHANGED <<lock, llock, wpc, witem, kind, pending>>
    BY <1>8 DEF LuaReturns, CallbackReturns, ConnectCallbackReturns, RunReturns, Signal
  <2>2. \/ mpc = "callback" /\ mpc' = "unlock"
        \/ mpc \in {"connected", "run"}
        \/ mpc' = mpc
    BY <1>8 DEF LuaReturns, CallbackReturns, ConnectCallbackReturns, RunReturns, Signal, Goto
  <2>3. CASE mpc = "callback" /\ mpc' = "unlock"
    BY <2>1, <2>3, <1>1, <1>h DEF MainHoldsQueue
  <2>4. CASE mpc \in {"connected", "run"}
    BY <2>1, <2>4, <1>1, <1>6 DEF InCall
  <2>5. CASE mpc' = mpc
    BY <2>1, <2>5, <1>1, <1>2
  <2> QED
    BY <2>2, <2>3, <2>4, <2>5
<1>9. ASSUME MainStep PROVE Queues' /\ MainQueue' /\ \A d \in Clients : Listener(d)'
  <2>1. CASE \/ Recv \/ NextByte \/ EndOfBytes \/ Timeout \/ DeleteBridge \/ ExitProcess
             \/ DispatchNothing \/ DispatchConnect \/ CheckTaskCount \/ Pause
    <3>1. /\ mpc \in {"select", "bytes", "deleted", "lock", "connect", "check", "pause"}
          /\ UNCHANGED <<lock, llock, wpc, witem>>
      BY <2>1 DEF Recv, NextByte, EndOfBytes, Timeout, DeleteBridge, ExitProcess, DispatchNothing, DispatchConnect,
                  CheckTaskCount, Pause
    <3> QED
      BY <3>1, <1>1, <1>6 DEF InCall
  <2>2. CASE Dispatch
    <3>1. /\ mpc = "lock" /\ mpc' \in {"callback", "unlock"} /\ lock' = [lock EXCEPT ![kind] = Main]
          /\ UNCHANGED <<llock, wpc, witem, kind, pending>>
      BY <2>2 DEF Dispatch, Goto
    <3>2. \A k \in Kinds : lock[k] # Main
      BY <3>1, <1>h DEF StopInv, MainHoldsQueue, InCall
    <3>3. Queues'
      BY <3>1, <1>a, <1>b, <1>h DEF HoldsQueue
    <3>4. MainQueue'
      BY <3>1, <3>2, <1>a DEF MainHoldsQueue
    <3> QED
      BY <3>1, <3>3, <3>4, <1>h
  <2>3. CASE Unlock
    <3>1. mpc = "unlock" /\ lock' = [lock EXCEPT ![kind] = None] /\ UNCHANGED <<llock, wpc, witem>>
      BY <2>3 DEF Unlock
    <3>2. Queues'
      BY <3>1, <1>a, <1>b, <1>h DEF HoldsQueue
    <3>3. MainQueue'
      <4>1. \A k \in Kinds : lock[k] = Main => k = kind
        BY <3>1, <1>h DEF MainHoldsQueue
      <4> QED
        BY <3>1, <4>1, <1>a, <1>b
    <3> QED
      BY <3>1, <3>2, <3>3, <1>h
  <2>4. CASE ListenerOp \/ FreeClient
    <3>1. /\ UNCHANGED <<lock, llock, wpc, witem, kind>> /\ mpc \in {"listener", "release"} /\ pending # None
          /\ pending' = pending \/ mpc' = pending.back
      <4>1. pending # None
        BY <2>4 DEF ListenerOp, FreeClient, TypeInv, CallInv, InCall
      <4>2. CASE FreeClient
        BY <4>1, <4>2 DEF FreeClient, EndOp, Goto
      <4>3. CASE ListenerOp
        <5>1. pending' = pending \/ EndOp
          BY <4>3 DEF ListenerOp
        <5> QED
          BY <4>1, <4>3, <5>1 DEF ListenerOp, EndOp, Goto
      <4> QED
        BY <2>4, <4>2, <4>3
    <3>2. MainQueue'
      BY <3>1, <1>h DEF MainHoldsQueue
    <3> QED
      BY <3>1, <3>2, <1>1
  <2>5. CASE DestroyClient \/ DisconnectClient \/ JoinWorker \/ \E x \in Requests : ReleaseRequest(x)
    <3>1. UNCHANGED <<lock, llock, wpc, witem, kind, pending>> /\ mpc \in {"destroy", "disconnect", "join", "release"}
      BY <2>5 DEF DestroyClient, DisconnectClient, JoinWorker, ReleaseRequest
    <3>2. MainQueue'
      BY <3>1, <1>h DEF MainHoldsQueue
    <3> QED
      BY <3>1, <3>2, <1>1
  <2> QED
    BY <1>9, <2>1, <2>2, <2>3, <2>4, <2>5 DEF MainStep
<1>10. ASSUME UNCHANGED vars PROVE Queues' /\ MainQueue' /\ \A d \in Clients : Listener(d)'
  BY <1>10, <1>1, <1>2 DEF vars
<1>11. Queues' /\ MainQueue' /\ \A d \in Clients : Listener(d)'
  BY <1>5, <1>7, <1>8, <1>9, <1>10 DEF Next
<1> QED
  BY <1>11 DEF HoldInv

LEMMA BackStep ==
  ASSUME TypeInv, StopInv, BackInv, [Next]_vars
  PROVE  BackInv'
<1> USE DEF bridge, loop, pomelo, BackInv
<1>1. ASSUME UNCHANGED <<pending, kind>> \/ pending' = None PROVE BackInv'
  BY <1>1
<1>2. CASE UNCHANGED vars
  BY <1>1, <1>2 DEF vars
<1>3. ASSUME NEW c \in Clients, Worker(c) PROVE UNCHANGED <<pending, kind>>
  <2>1. CASE \/ \E result \in Results : OnConnect(c, result)
             \/ \E x \in Requests \cup Notifies : OnAnswer(c, x)
             \/ \E e \in Events : OnEvent(c, e)
             \/ CloseClient(c) \/ EmitDisconnect(c) \/ EndWorker(c)
    BY <2>1 DEF OnConnect, OnAnswer, OnEvent, CloseClient, EmitDisconnect, EndWorker
  <2>2. CASE WorkerStep(c)
    BY <2>2 DEF WorkerStep, StoreConnectResult, Push, IncTaskCount, Resume, UnlockQueue, SendSignal
  <2>3. CASE AssertFails(c) \/ UseAfterFree(c)
    BY <2>3 DEF AssertFails, UseAfterFree
  <2> QED
    BY <1>3, <2>1, <2>2, <2>3 DEF Worker
<1>4. ASSUME NEW op, NEW e, StartOp(op, e),
             mpc = "callback" => kind \in IF op = "disconnect" THEN DisconnectContexts ELSE ListenerContexts
      PROVE  BackInv'
  <2>1. pending' = [op |-> op, event |-> e, back |-> mpc] /\ kind' = kind
    BY <1>4 DEF StartOp
  <2> QED
    BY <1>4, <2>1
<1>5. ASSUME LuaCall PROVE BackInv'
  <2>1. CASE (\E c \in Clients : AsyncConnect(c)) \/ (\E x \in Requests \cup Notifies : Call(x))
    BY <2>1, <1>1 DEF AsyncConnect, Call
  <2>2. ASSUME NEW e \in Events, AddListener(e) \/ RemoveListener(e) PROVE BackInv'
    <3>1. mpc = "callback" => kind \in ListenerContexts
      BY <2>2 DEF AddListener, RemoveListener, Context
    <3>2. UNCHANGED <<pending, kind>> \/ StartOp("add", e) \/ StartOp("remove", e)
      BY <2>2 DEF AddListener, RemoveListener
    <3> QED
      BY <1>1, <1>4, <3>1, <3>2
  <2>3. CASE Disconnect
    BY <1>4, <2>3 DEF Disconnect, Context
  <2> QED
    BY <1>5, <2>1, <2>2, <2>3 DEF LuaCall
<1>6. ASSUME LuaReturns \/ \E b \in Signals : Signal(b) PROVE UNCHANGED <<pending, kind>>
  BY <1>6 DEF LuaReturns, CallbackReturns, ConnectCallbackReturns, RunReturns, Signal
<1>7. ASSUME MainStep PROVE BackInv'
  <2>1. CASE Recv \/ NextByte \/ EndOfBytes \/ Timeout \/ DeleteBridge \/ ExitProcess
    BY <2>1, <1>1 DEF Recv, NextByte, EndOfBytes, Timeout, DeleteBridge, ExitProcess
  <2>2. CASE DispatchNothing \/ Unlock
    BY <2>2 DEF DispatchNothing, Unlock, StopInv, InCall
  <2>3. CASE Dispatch \/ DispatchConnect \/ CheckTaskCount \/ Pause
    BY <2>3, <1>1 DEF Dispatch, DispatchConnect, CheckTaskCount, Pause
  <2>4. CASE ListenerOp \/ FreeClient
    BY <2>4, <1>1 DEF ListenerOp, FreeClient, EndOp
  <2>5. CASE DestroyClient \/ DisconnectClient \/ JoinWorker \/ \E x \in Requests : ReleaseRequest(x)
    BY <2>5, <1>1 DEF DestroyClient, DisconnectClient, JoinWorker, ReleaseRequest
  <2> QED
    BY <1>7, <2>1, <2>2, <2>3, <2>4, <2>5 DEF MainStep
<1> QED
  BY <1>1, <1>2, <1>3, <1>5, <1>6, <1>7 DEF Next

LEMMA AwayStep ==
  ASSUME TypeInv, ClientInv, [Next]_vars, NEW d \in Clients, NEW y \in Requests,
         y \in inflight'[d] \/ Carries(d, y)'
  PROVE  y \in inflight[d] \/ Carries(d, y) \/ y \in content'
<1>a. /\ wpc \in [Clients -> WorkerPCs] /\ witem \in [Clients -> Items \cup Results \cup {None}]
      /\ inflight \in [Clients -> SUBSET Calls] /\ y \in Calls /\ y \notin Events
  BY BridgeAssumption DEF TypeInv, TypeOK, PomeloTypeOK, Calls, BridgeAssumption
<1>1. ASSUME NEW x \in Calls, Call(x) PROVE y \in inflight[d] \/ Carries(d, y) \/ y \in content'
  <2>1. /\ UNCHANGED <<wpc, witem>> /\ content' = content \cup {x}
        /\ inflight' = IF cstate[client] = "working" THEN [inflight EXCEPT ![client] = @ \cup {x}] ELSE inflight
    BY <1>1 DEF Call
  <2>2. y \in inflight'[d] => y \in inflight[d] \/ y = x
    BY <1>a, <2>1
  <2> QED
    BY <2>1, <2>2 DEF Carries
<1>2. ASSUME NEW x \in Calls, ReleaseRequest(x) PROVE y \in inflight[d] \/ Carries(d, y)
  BY <1>2, <1>a DEF ReleaseRequest, Carries
<1>3. ASSUME NEW x \in Calls, NEW c \in Clients, OnAnswer(c, x) PROVE y \in inflight[d] \/ Carries(d, y)
  <2>1. /\ x \in inflight[c] /\ inflight' = [inflight EXCEPT ![c] = @ \ {x}]
        /\ wpc' = [wpc EXCEPT ![c] = "lock"] /\ witem' = [witem EXCEPT ![c] = x]
    BY <1>3 DEF OnAnswer, EnterCallback, At
  <2> QED
    BY <2>1, <1>a DEF Carries
<1>4. ASSUME NEW c \in Clients, Push(c) PROVE y \in inflight[d] \/ Carries(d, y)
  BY <1>4, <1>a DEF Push, At, Carries
<1>5. CASE Dispatch
  BY <1>5 DEF Dispatch, pomelo, Carries
<1>6. CASE Aside
  BY <1>6, <1>a DEF Aside, Carries
<1> QED
  BY <1>1, <1>2, <1>3, <1>4, <1>5, <1>6, AsideOrNot DEF AsksOrAnswers

LEMMA QuietStep ==
  ASSUME QuietDisconnect, KeptInv, PlaceInv, NewInv, QuietInv, [Next]_vars
  PROVE  QuietInv'
<1> USE DEF KeptInv, bridge, loop, pomelo
<1> DEFINE Gone == pending # None /\ pending.op = "disconnect"
<1>a. /\ \A y \in Requests : y \in Calls /\ y \notin Events
      /\ client \in Clients \cup {None} /\ None \notin Clients /\ DisconnectEvent \in Events
  BY BridgeAssumption DEF TypeInv, TypeOK, BridgeTypeOK, Calls, BridgeAssumption
<1>b. ASSUME client' = client, \A y \in content \cap Requests : y \in content' \/ ~(client # None /\ (y \in inflight[client] \/ Carries(client, y))),
             Gone' => Gone /\ content' \cap Requests \subseteq content
      PROVE  QuietInv'
  <2>1. ASSUME NEW y \in Requests, client # None, (y \in inflight[client] \/ Carries(client, y))' PROVE y \in content'
    <3>1. y \in inflight[client] \/ Carries(client, y) \/ y \in content'
      BY <1>a, <1>b, <2>1, AwayStep DEF Carries
    <3> QED
      BY <1>b, <2>1, <3>1 DEF QuietInv
  <2> QED
    BY <1>b, <2>1 DEF QuietInv
<1>1. CASE UNCHANGED vars
  BY <1>b, <1>1 DEF vars
<1>2. ASSUME NEW c \in Clients, Worker(c) PROVE UNCHANGED <<client, content, pending>>
  <2>1. CASE \/ \E result \in Results : OnConnect(c, result)
             \/ \E x \in Requests \cup Notifies : OnAnswer(c, x)
             \/ \E e \in Events : OnEvent(c, e)
             \/ CloseClient(c) \/ EmitDisconnect(c) \/ EndWorker(c)
    BY <2>1 DEF OnConnect, OnAnswer, OnEvent, CloseClient, EmitDisconnect, EndWorker
  <2>2. CASE WorkerStep(c)
    BY <2>2 DEF WorkerStep, StoreConnectResult, Push, IncTaskCount, Resume, UnlockQueue, SendSignal
  <2>3. CASE AssertFails(c) \/ UseAfterFree(c)
    BY <2>3 DEF AssertFails, UseAfterFree
  <2> QED
    BY <1>2, <2>1, <2>2, <2>3 DEF Worker
<1>3. ASSUME NEW c \in Clients, AsyncConnect(c) PROVE QuietInv'
  <2>1. client' = c /\ inflight[c] = {} /\ wpc[c] = "idle" /\ UNCHANGED <<inflight, wpc, witem, content, pending>>
    BY <1>3 DEF AsyncConnect, OwedInv, NewInv
  <2> QED
    BY <2>1 DEF QuietInv, Carries
<1>4. ASSUME NEW x \in Requests \cup Notifies, Call(x) PROVE QuietInv'
  <2>1. client' = client /\ content \subseteq content' /\ pending' = pending /\ pending = None
    BY <1>4 DEF Call, InLua, StopInv, InCall
  <2> QED
    BY <1>b, <2>1
<1>5. ASSUME NEW op \in {"add", "remove"}, NEW e, StartOp(op, e) PROVE QuietInv'
  <2>1. pending' = [op |-> op, event |-> e, back |-> mpc] /\ UNCHANGED <<client, content>>
    BY <1>5 DEF StartOp
  <2> QED
    BY <1>b, <2>1
<1>6. ASSUME NEW e \in Events, AddListener(e) \/ RemoveListener(e) PROVE QuietInv'
  <2>1. CASE StartOp("add", e) \/ StartOp("remove", e)
    BY <1>5, <2>1
  <2>2. CASE content' = content \cup {e} /\ UNCHANGED <<client, pending>>
    BY <1>a, <1>b, <2>2
  <2> QED
    BY <1>6, <2>1, <2>2 DEF AddListener, RemoveListener
<1>7. CASE Disconnect
  <2>1. content \cap Requests = {} /\ UNCHANGED <<client, content, inflight, wpc, witem>>
    BY <1>7 DEF Disconnect, StartOp
  <2> QED
    BY <2>1 DEF QuietInv, Carries
<1>8. ASSUME LuaReturns \/ \E b \in Signals : Signal(b) PROVE UNCHANGED <<client, content, pending>>
  BY <1>8 DEF LuaReturns, CallbackReturns, ConnectCallbackReturns, RunReturns, Signal
<1>9. CASE Dispatch
  <2>1. PICK x : x = Head(queue[kind])
    OBVIOUS
  <2>2. /\ content' = content \ (IF x \in Events THEN {} ELSE {x}) /\ UNCHANGED <<client, pending>>
        /\ kind \in Kinds /\ queue[kind] # <<>>
    BY <1>9, <2>1 DEF Dispatch, TypeInv, TypeOK, LoopTypeOK
  <2>3. InQueue(x)
    <3>1. queue[kind] \in Seq(Items)
      BY <2>2 DEF TypeInv, TypeOK, BridgeTypeOK
    <3>2. 1 \in 1 .. Len(queue[kind]) /\ queue[kind][1] = x
      BY <2>1, <2>2, <3>1
    <3> QED
      BY <2>2, <3>2 DEF InQueue
  <2>4. x \in Requests => ~(client # None /\ (x \in inflight[client] \/ Carries(client, x)))
    <3>1. Answered(x)
      BY <2>3 DEF Answered, InQueue
    <3> QED
      BY <1>a, <2>3, <3>1 DEF OwedInv, PlaceInv
  <2> QED
    BY <1>b, <2>2, <2>4
<1>10. CASE ListenerOp
  <2>1. UNCHANGED client /\ pending # None
    BY <1>10 DEF ListenerOp, TypeInv, CallInv, InCall
  <2>2. CASE pending.op = "add"
    BY <1>10, <2>1, <2>2, <1>b DEF ListenerOp, EndOp
  <2>3. CASE pending.op = "remove"
    <3>1. pending.event \in Events
      BY <2>1 DEF TypeInv, TypeOK, LoopTypeOK, LuaOps
    <3> QED
      BY <1>10, <2>1, <2>3, <3>1, <1>a, <1>b DEF ListenerOp, EndOp
  <2>4. CASE pending.op \notin {"add", "remove"}
    <3>1. pending.op = "disconnect"
      BY <2>1, <2>4 DEF TypeInv, TypeOK, LoopTypeOK, LuaOps
    <3>2. content \cap Requests = {}
      BY <2>1, <3>1 DEF QuietInv
    <3> QED
      BY <1>10, <2>1, <2>4, <3>1, <3>2, <1>b DEF ListenerOp
  <2> QED
    BY <2>2, <2>3, <2>4
<1>11. ASSUME MainStep, ~Dispatch, ~ListenerOp PROVE client' = client /\ content' = content /\ pending' \in {pending, None}
  <2>1. CASE Recv \/ NextByte \/ EndOfBytes \/ Timeout \/ DeleteBridge \/ ExitProcess
    BY <2>1 DEF Recv, NextByte, EndOfBytes, Timeout, DeleteBridge, ExitProcess
  <2>2. CASE DispatchNothing \/ Unlock \/ DispatchConnect \/ CheckTaskCount \/ Pause
    BY <2>2 DEF DispatchNothing, Unlock, DispatchConnect, CheckTaskCount, Pause
  <2>3. CASE FreeClient
    BY <2>3 DEF FreeClient, EndOp
  <2>4. CASE DestroyClient \/ DisconnectClient \/ JoinWorker \/ \E x \in Requests : ReleaseRequest(x)
    BY <2>4 DEF DestroyClient, DisconnectClient, JoinWorker, ReleaseRequest
  <2> QED
    BY <1>11, <2>1, <2>2, <2>3, <2>4 DEF MainStep
<1>12. ASSUME client' = client, content' = content, pending' \in {pending, None} PROVE QuietInv'
  BY <1>b, <1>12
<1> QED
  BY <1>1, <1>2, <1>3, <1>4, <1>6, <1>7, <1>8, <1>9, <1>10, <1>11, <1>12 DEF Next, LuaCall

CircleInv == KeptInv /\ PlaceInv /\ NewInv /\ HoldInv /\ BackInv /\ QuietInv

\* what a worker waits for while there is room in the socket pair, and that who holds a queue does not wait
LEMMA WorkerWaits ==
  ASSUME TypeInv, HoldInv, Len(pipe) < PipeMax, NEW c \in Clients
  PROVE  /\ WaitsFor(c) = IF wpc[c] = "lock" /\ lock[KindOf(witem[c])] # None
                          THEN {lock[KindOf(witem[c])]} ELSE {}
         /\ \A k \in Kinds : lock[k] = c => WaitsFor(c) = {}
         /\ \A o \in WaitsFor(c) : o # Main => o \in Clients /\ WaitsFor(o) = {}
<1>a. /\ lock \in [Kinds -> Clients \cup {Main, None}] /\ \A x : KindOf(x) \in Kinds
      /\ Main \notin Clients /\ None \notin Clients /\ pipe \in Seq(Bytes) /\ PipeMax \in Nat
  BY BridgeAssumption, KindOfType DEF TypeInv, TypeOK, BridgeTypeOK, LoopTypeOK, BridgeAssumption
<1>1. ASSUME NEW d \in Clients
      PROVE  WaitsFor(d) = IF wpc[d] = "lock" /\ lock[KindOf(witem[d])] # None
                           THEN {lock[KindOf(witem[d])]} ELSE {}
  <2>1. d # Main /\ ~(Len(pipe) >= PipeMax)
    BY <1>a
  <2>2. CASE wpc[d] = "lock" /\ lock[KindOf(witem[d])] # None
    BY <2>1, <2>2 DEF WaitsFor
  <2>3. CASE ~(wpc[d] = "lock" /\ lock[KindOf(witem[d])] # None)
    BY <2>1, <2>3 DEF WaitsFor
  <2> QED
    BY <2>2, <2>3
<1>2. ASSUME NEW d \in Clients, NEW k \in Kinds, lock[k] = d PROVE WaitsFor(d) = {}
  <2>1. wpc[d] # "lock"
    BY <1>2 DEF HoldInv, HoldsQueue
  <2> QED
    BY <1>1, <2>1
<1>3. ASSUME NEW o \in WaitsFor(c), o # Main PROVE o \in Clients /\ WaitsFor(o) = {}
  <2>1. o = lock[KindOf(witem[c])] /\ o # None
    BY <1>1, <1>3
  <2>2. o \in Clients
    BY <1>a, <1>3, <2>1
  <2> QED
    BY <1>2, <1>a, <2>1, <2>2
<1> QED
  BY <1>1, <1>2, <1>3

\* whom the main thread waits for does not wait for it
LEMMA NoOneWaitsForMain ==
  ASSUME "event" \notin ListenerContexts, DisconnectContexts \cap {"notify", "event"} = {},
         CircleInv, Len(pipe) < PipeMax, NEW t \in WaitsFor(Main)
  PROVE  t \in Clients /\ Main \notin WaitsFor(t)
<1> USE DEF CircleInv, KeptInv
<1>a. /\ lock \in [Kinds -> Clients \cup {Main, None}] /\ llock \in [Clients -> Clients \cup {None}]
      /\ kind \in Kinds /\ client \in Clients \cup {None} /\ pipe \in Seq(Bytes) /\ PipeMax \in Nat
      /\ Main \notin Clients /\ None \notin Clients /\ Main # None
  BY BridgeAssumption DEF TypeInv, TypeOK, BridgeTypeOK, LoopTypeOK, PomeloTypeOK, BridgeAssumption
<1>b. InCall => client \in Clients /\ pending # None
  BY <1>a DEF TypeInv, CallInv, ClientInv
\* a queue that the main thread holds in a call is the one whose callback made the call
<1>c. ASSUME InCall, NEW k \in Kinds, lock[k] = Main
      PROVE  k = kind /\ k # "event" /\ (pending.op = "disconnect" => k = "request")
  <2>1. kind = k /\ pending.back = "callback" /\ pending # None
    BY <1>c, <1>b DEF HoldInv, MainHoldsQueue, InCall
  <2>2. kind \in IF pending.op = "disconnect" THEN DisconnectContexts ELSE ListenerContexts
    BY <2>1 DEF BackInv
  <2> QED
    BY <2>1, <2>2 DEF Kinds
<1>1. \/ mpc = "listener" /\ llock[client] # None /\ t = llock[client]
      \/ mpc = "lock" /\ lock[kind] # None /\ t = lock[kind]
      \/ mpc = "join" /\ client \in alive /\ t = client
      \/ mpc = "release" /\ inflight[client] \cap Requests # {}
  BY <1>a DEF WaitsFor
<1>2. CASE mpc = "listener" /\ llock[client] # None /\ t = llock[client]
  <2>1. client \in Clients /\ t = client /\ witem[t] \in Events
    BY <1>2, <1>b DEF InCall, HoldInv
  <2>2. KindOf(witem[t]) = "event"
    BY <2>1, BridgeAssumption DEF KindOf, BridgeAssumption
  <2>3. lock["event"] # Main
    BY <1>2, <1>c DEF InCall, Kinds
  <2> QED
    BY <2>1, <2>2, <2>3, WorkerWaits
<1>3. CASE mpc = "lock" /\ lock[kind] # None /\ t = lock[kind]
  <2>1. t # Main
    BY <1>3, <1>a DEF HoldInv, MainHoldsQueue, StopInv, InCall
  <2>2. t \in Clients
    BY <1>3, <1>a, <2>1
  <2> QED
    BY <1>3, <1>a, <2>2, WorkerWaits
<1>4. CASE mpc = "join" /\ client \in alive /\ t = client
  <2>1. /\ client \in Clients /\ pending # None /\ pending.op = "disconnect" /\ content \cap Requests = {}
    BY <1>4, <1>b DEF InCall, StopInv, QuietInv
  <2>2. ASSUME Main \in WaitsFor(t) PROVE FALSE
    <3>1. wpc[t] = "lock" /\ lock[KindOf(witem[t])] = Main
      BY <1>4, <2>1, <2>2, WorkerWaits
    <3>2. KindOf(witem[t]) = "request"
      BY <1>4, <1>c, <2>1, <3>1, KindOfType DEF InCall
    <3>3. witem[t] \in Requests
      BY <3>2 DEF KindOf
    <3>4. witem[t] \in content
      BY <1>a, <1>4, <2>1, <3>1, <3>3 DEF QuietInv, Carries
    <3> QED
      BY <2>1, <3>3, <3>4
  <2> QED
    BY <1>4, <2>1, <2>2
<1>5. CASE mpc = "release" /\ inflight[client] \cap Requests # {}
  <2>1. client \in Clients /\ content \cap Requests = {}
    BY <1>5, <1>b DEF InCall, StopInv, QuietInv
  <2> QED
    BY <1>5, <1>a, <2>1 DEF QuietInv
<1> QED
  BY <1>1, <1>2, <1>3, <1>4, <1>5

LEMMA NoCircle ==
  ASSUME "event" \notin ListenerContexts, DisconnectContexts \cap {"notify", "event"} = {},
         CircleInv, Len(pipe) < PipeMax
  PROVE  NoDeadlock
<1> DEFINE next(S) == UNION {WaitsFor(t) : t \in S}
<1>1. \A S, o : o \in next(S) <=> \E t \in S : o \in WaitsFor(t)
  OBVIOUS
<1> HIDE DEF next
<1>2. \A t \in next({Main}) : t \in Clients /\ Main \notin WaitsFor(t)
  BY <1>1, NoOneWaitsForMain
<1>3. \A t \in next(next({Main})) : t # Main /\ WaitsFor(t) = {}
  BY <1>1, <1>2, WorkerWaits DEF CircleInv, KeptInv
<1>4. \A t : t \notin next(next(next({Main})))
  BY <1>1, <1>3
<1>5. Main \notin Clients
  BY BridgeAssumption DEF BridgeAssumption
<1>6. Main \notin next({Main}) \cup next(next({Main})) \cup next(next(next({Main})))
  BY <1>2, <1>3, <1>4, <1>5
<1> QED
  BY Zenon, <1>6 DEF NoDeadlock, next

(* The main thread waits in a circle only when the socket pair is full, for any number of clients, calls and events: if
   Lua adds and removes listeners from no event callback, and disconnects from callbacks of requests, of
   the connection or of Run, once its requests are answered, as the login sequence does (dispatchEvent, removeListener,
   cleanup, stop; pc_emit_event, pc_client_destroy). *)
THEOREM NoCircleOfMutexes ==
  ASSUME QuietDisconnect, "event" \notin ListenerContexts, DisconnectContexts \cap {"notify", "event"} = {}
  PROVE  Spec => [](Len(pipe) < PipeMax => NoDeadlock)
<1>1. Init => CircleInv
  <2> SUFFICES ASSUME Init PROVE CircleInv
    OBVIOUS
  <2>1. None \notin Clients /\ Main # None
    BY BridgeAssumption DEF BridgeAssumption
  <2>2. PlaceInv /\ NewInv /\ HoldInv /\ BackInv /\ QuietInv
    BY <2>1 DEF Init, PlaceInv, Carries, NewInv, HoldInv, BackInv, QuietInv
  <2> QED
    BY <2>2, KeptInit DEF CircleInv
<1>2. CircleInv /\ [Next]_vars => CircleInv'
  BY TypeStep, OwedStep, StopStep, ClientStep, KeptStep, PlaceStep, NewStep, HoldStep, BackStep, QuietStep
     DEF CircleInv, KeptInv
<1>3. CircleInv => (Len(pipe) < PipeMax => NoDeadlock)
  BY NoCircle
<1> QED
  BY <1>1, <1>2, <1>3, PTL DEF Spec
=============================================================================
