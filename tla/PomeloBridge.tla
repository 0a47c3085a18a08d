---------------------------- MODULE PomeloBridge ----------------------------
(***************************************************************************)
(* The bridge between libpomelo and Lua: kod_client/CCPomelo.cpp, its      *)
(* CTimerHandle and the event loop client() of kod_client/main.cpp.        *)
(*                                                                         *)
(* Every pc_client_t has a worker thread that runs its libuv loop and      *)
(* calls the bridge's cc_pomelo_on_*_cb callbacks.  A callback puts an     *)
(* item in one of three mutex-protected queues, counts it in task_count,   *)
(* resumes the timer handle and writes a byte to a socket pair.  The main  *)
(* thread waits on that socket pair for at most a second, and every byte   *)
(* and every timeout is a tick that dispatches at most one item of each    *)
(* queue to Lua, with the queue's mutex held while the Lua code runs.      *)
(*                                                                         *)
(* libpomelo itself is kept to what the bridge relies on: the state of a   *)
(* client, the requests it still owes an answer, the listener mutex that   *)
(* pc_emit_event holds around a callback, and the join of pc_client_destroy.*)
(***************************************************************************)
EXTENDS Integers, Sequences, FiniteSets

CONSTANTS
  Clients,            \* the pc_client_t instances ever created, with their workers
  Requests,           \* pc_request_t objects, each used for one request
  Notifies,           \* pc_notify_t objects, each used for one notify
  Events,             \* event names
  DisconnectEvent,    \* PC_EVENT_DISCONNECT, emitted by a worker that ends
  Main,               \* the main thread
  None,               \* a free mutex, or a NULL pointer
  ListenerContexts,   \* contexts in which Lua adds and removes listeners
  DisconnectContexts, \* contexts in which Lua calls NetService:disconnect
  Signals,            \* the bytes sig_handler may write
  ServerMayClose,     \* whether a connection may end without being asked to
  QuietDisconnect,    \* whether Lua disconnects only once its requests are answered
  QueueMax,           \* bound: events in the queue when another one arrives
  PipeMax,            \* capacity of the socket pair; send() blocks beyond it
  RecvMax             \* size of the buffer given to recv()

Kinds    == {"notify", "event", "request"}
Contexts == Kinds \cup {"connect", "run"}
Items    == Requests \cup Notifies \cup Events
Results  == {"ok", "error"}
Bytes    == {"wake", "term"}

\* CCPomeloConnect_, and a listener or disconnect call of Lua's with the place
\* it returns to
ConnectContents == [client : Clients, status : Results \cup {"unset"}]
LuaOps == [op : {"add", "remove", "disconnect"}, event : Events,
           back : {"callback", "connected", "run"}]

ASSUME BridgeAssumption ==
  /\ IsFiniteSet(Clients)
  /\ Requests \cap Notifies = {} /\ Requests \cap Events = {} /\ Notifies \cap Events = {}
  /\ DisconnectEvent \in Events
  /\ Main \notin Clients /\ None \notin Clients /\ Main # None
  /\ Results \cap Items = {} /\ None \notin Items \cup Results
  /\ None \notin ConnectContents \cup LuaOps
  /\ ListenerContexts \subseteq Contexts /\ DisconnectContexts \subseteq Contexts
  /\ Signals \subseteq Bytes /\ ServerMayClose \in BOOLEAN
  /\ QuietDisconnect \in BOOLEAN /\ QueueMax \in Nat \ {0} /\ PipeMax \in Nat \ {0} /\ RecvMax \in Nat \ {0}

VARIABLES
  \* CCPomelo
  queue,            \* notify_queue, event_queue, reponse_queue
  lock,             \* the owner of the mutex of each queue
  task_count, running,
  connect_status, connect_content,
  content,          \* the keys of request_content, notify_content, event_content
  client,           \* CCPomelo::client
  \* the event loop of the main thread
  pipe, batch, stop_server, time_out,
  mpc,              \* where the main thread is
  kind,             \* the queue that is being dispatched
  pending,          \* the listener or disconnect call the main thread is in
  \* libpomelo, per client
  cstate, alive, inflight, listeners,
  llock,            \* the owner of listener_mutex
  wpc, witem,       \* where the worker is, and the item it hands over
  net_state,        \* NetService.net_state
  issued,           \* the request and notify objects used so far
  proc              \* the process: "up", "aborted" by an assertion, "segfault"

bridge  == <<queue, lock, task_count, running, connect_status, connect_content, content, client>>
loop    == <<pipe, batch, stop_server, time_out, mpc, kind, pending>>
pomelo  == <<cstate, alive, inflight, listeners, llock, wpc, witem, issued>>
vars    == <<bridge, loop, pomelo, net_state, proc>>

MainPCs   == {"select", "bytes", "lock", "callback", "unlock", "connect", "connected",
              "check", "pause", "run", "listener", "destroy", "disconnect", "join",
              "release", "deleted", "exited"}
WorkerPCs == {"idle", "content", "lock", "inc", "resume", "unlock", "signal"}
CStates   == {"new", "connecting", "working", "disconnecting", "closed", "freed"}

BridgeTypeOK ==
  /\ queue \in [Kinds -> Seq(Items)]
  /\ lock \in [Kinds -> Clients \cup {Main, None}]
  /\ task_count \in Int /\ running \in BOOLEAN
  /\ connect_status \in {0, 1}
  /\ connect_content \in ConnectContents \cup {None}
  /\ content \subseteq Items
  /\ client \in Clients \cup {None}
  /\ net_state \in {"CONNECT", "DISCONNECT"}

LoopTypeOK ==
  /\ pipe \in Seq(Bytes) /\ batch \in Seq(Bytes)
  /\ stop_server \in BOOLEAN /\ time_out \in BOOLEAN
  /\ mpc \in MainPCs /\ kind \in Kinds
  /\ pending \in LuaOps \cup {None}
  /\ proc \in {"up", "aborted", "segfault"}

PomeloTypeOK ==
  /\ cstate \in [Clients -> CStates]
  /\ alive \subseteq Clients
  /\ inflight \in [Clients -> SUBSET (Requests \cup Notifies)]
  /\ listeners \in [Clients -> SUBSET Events]
  /\ llock \in [Clients -> Clients \cup {None}]
  /\ wpc \in [Clients -> WorkerPCs]
  /\ witem \in [Clients -> Items \cup Results \cup {None}]
  /\ issued \subseteq Requests \cup Notifies

TypeOK == BridgeTypeOK /\ LoopTypeOK /\ PomeloTypeOK

Init ==
  /\ queue = [k \in Kinds |-> <<>>]
  /\ lock = [k \in Kinds |-> None]
  /\ task_count = 0 /\ running = FALSE
  /\ connect_status = 0 /\ connect_content = None
  /\ content = {} /\ client = None
  /\ pipe = <<>> /\ batch = <<>> /\ stop_server = FALSE /\ time_out = FALSE
  /\ mpc = "run"                    \* main.lua starts the application
  /\ kind = "notify" /\ pending = None
  /\ cstate = [c \in Clients |-> "new"]
  /\ alive = {}
  /\ inflight = [c \in Clients |-> {}]
  /\ listeners = [c \in Clients |-> {}]
  /\ llock = [c \in Clients |-> None]
  /\ wpc = [c \in Clients |-> "idle"]
  /\ witem = [c \in Clients |-> None]
  /\ issued = {}
  /\ net_state = "DISCONNECT"
  /\ proc = "up"

KindOf(x) ==
  IF x \in Requests THEN "request" ELSE IF x \in Notifies THEN "notify" ELSE "event"

Goto(pc) == mpc' = pc

At(c, from, to) == c \in alive /\ wpc[c] = from /\ wpc' = [wpc EXCEPT ![c] = to]

\* the end of the process is the end of its threads
Crash(how) == proc' = how /\ mpc' = "exited" /\ alive' = {}

\* FAULT: task_count is tested and the timer paused without the mutex
NoTaskCountMutex == TRUE

\* task_count_mutex: the main thread holds it while it decides to pause, every
\* other use of it is a single step
TaskCountMutexFree == mpc # "pause"

-----------------------------------------------------------------------------
(* The worker threads *)

\* FAULT: the status handed to the connect callback is never set
EnterWithoutStatus(c, x) ==
  /\ mpc # "deleted"
  /\ witem' = [witem EXCEPT ![c] = IF x \in Results THEN "unset" ELSE x]

\* the first thing every callback does is to look the bridge up, see AssertFails
EnterCallback(c, x) ==
  /\ mpc # "deleted"
  /\ witem' = [witem EXCEPT ![c] = x]

\* the connect callback stores the flag before the result it announces
OnConnect(c, result) ==
  /\ cstate[c] = "connecting"
  /\ EnterCallback(c, result)
  /\ At(c, "idle", "content")
  /\ connect_status' = 1
  /\ cstate' = [cstate EXCEPT ![c] = IF result = "ok" THEN "working" ELSE "closed"]
  /\ UNCHANGED <<queue, lock, task_count, running, connect_content, content, client,
                 loop, alive, inflight, listeners, llock, issued, net_state, proc>>

\* connect_content may already be gone: the store then crashes, or goes
\* unnoticed to freed memory
StoreConnectResult(c) ==
  /\ At(c, "content", "inc")
  /\ connect_content' = IF connect_content = None THEN None
                        ELSE [connect_content EXCEPT !.status = witem[c]]
  /\ UNCHANGED <<queue, lock, task_count, running, connect_status, content, client,
                 loop, cstate, alive, inflight, listeners, llock, witem, issued, net_state, proc>>

\* a response arrives, the write of a notify ends, or either is given up once
\* the connection has closed
OnAnswer(c, x) ==
  /\ cstate[c] \in {"working", "disconnecting", "closed"}
  /\ witem[c] # DisconnectEvent
  /\ x \in inflight[c]
  /\ EnterCallback(c, x)
  /\ At(c, "idle", "lock")
  /\ inflight' = [inflight EXCEPT ![c] = @ \ {x}]
  /\ UNCHANGED <<bridge, loop, cstate, alive, listeners, llock, issued, net_state, proc>>

\* pc_emit_event calls the listener with listener_mutex held
Emit(c, e) ==
  /\ e \in listeners[c]
  /\ llock[c] = None
  /\ EnterCallback(c, e)
  /\ At(c, "idle", "lock")
  /\ llock' = [llock EXCEPT ![c] = c]

OnEvent(c, e) ==
  /\ cstate[c] \in {"working", "disconnecting"} /\ e # DisconnectEvent
  /\ Len(queue["event"]) < QueueMax
  /\ Emit(c, e)
  /\ UNCHANGED <<bridge, loop, cstate, alive, inflight, listeners, issued, net_state, proc>>

Push(c) ==
  LET k == KindOf(witem[c]) IN
  /\ lock[k] = None
  /\ At(c, "lock", "inc")
  /\ lock' = [lock EXCEPT ![k] = c]
  /\ queue' = [queue EXCEPT ![k] = Append(@, witem[c])]
  /\ UNCHANGED <<task_count, running, connect_status, connect_content, content, client,
                 loop, cstate, alive, inflight, listeners, llock, witem, issued, net_state, proc>>

IncTaskCount(c) ==
  /\ TaskCountMutexFree
  /\ At(c, "inc", "resume")
  /\ task_count' = task_count + 1
  /\ UNCHANGED <<queue, lock, running, connect_status, connect_content, content, client,
                 loop, cstate, alive, inflight, listeners, llock, witem, issued, net_state, proc>>

\* FAULT: the connect callback counts its result and leaves the timer paused
ResumeForItems(c) ==
  /\ At(c, "resume", IF witem[c] \in Items THEN "unlock" ELSE "idle")
  /\ running' = (running \/ witem[c] \in Items)
  /\ UNCHANGED <<queue, lock, task_count, connect_status, connect_content, content, client,
                 loop, cstate, alive, inflight, listeners, llock, witem, issued, net_state, proc>>

\* the connect callback ends here: it writes no byte
Resume(c) ==
  /\ At(c, "resume", IF witem[c] \in Items THEN "unlock" ELSE "idle")
  /\ running' = TRUE
  /\ UNCHANGED <<queue, lock, task_count, connect_status, connect_content, content, client,
                 loop, cstate, alive, inflight, listeners, llock, witem, issued, net_state, proc>>

UnlockQueue(c) ==
  /\ At(c, "unlock", "signal")
  /\ lock' = [lock EXCEPT ![KindOf(witem[c])] = None]
  /\ UNCHANGED <<queue, task_count, running, connect_status, connect_content, content, client,
                 loop, cstate, alive, inflight, listeners, llock, witem, issued, net_state, proc>>

\* FAULT: pc_emit_event returns without unlocking listener_mutex
SignalUnderListenerMutex(c) ==
  /\ Len(pipe) < PipeMax
  /\ At(c, "signal", "idle")
  /\ pipe' = Append(pipe, "wake")
  /\ UNCHANGED <<bridge, batch, stop_server, time_out, mpc, kind, pending,
                 cstate, alive, inflight, listeners, llock, witem, issued, net_state, proc>>

\* send() blocks while the socket pair is full; pc_emit_event then unlocks
SendSignal(c) ==
  /\ Len(pipe) < PipeMax
  /\ At(c, "signal", "idle")
  /\ pipe' = Append(pipe, "wake")
  /\ llock' = [llock EXCEPT ![c] = None]
  /\ UNCHANGED <<bridge, batch, stop_server, time_out, mpc, kind, pending,
                 cstate, alive, inflight, listeners, witem, issued, net_state, proc>>

\* FAULT: the loop does not see that the client is disconnecting
CloseIgnoresDisconnect(c) ==
  /\ wpc[c] = "idle" /\ c \in alive
  /\ cstate[c] \in {"connecting", "working"} /\ ServerMayClose
  /\ cstate' = [cstate EXCEPT ![c] = "closed"]
  /\ UNCHANGED <<bridge, loop, alive, inflight, listeners, llock, wpc, witem, issued, net_state, proc>>

\* pc_client_stop in the worker: asked for by pc_client_disconnect, or because
\* the server closed the connection or sent something unreadable.  During the
\* handshake this leaves the connect request without an answer.
CloseClient(c) ==
  /\ wpc[c] = "idle" /\ c \in alive
  /\ \/ cstate[c] = "disconnecting"
     \/ cstate[c] \in {"connecting", "working"} /\ ServerMayClose
  /\ cstate' = [cstate EXCEPT ![c] = "closed"]
  /\ UNCHANGED <<bridge, loop, alive, inflight, listeners, llock, wpc, witem, issued, net_state, proc>>

\* pc__worker after uv_run: emit "disconnect" once, if anyone listens, and end
EmitDisconnect(c) ==
  /\ cstate[c] = "closed"
  /\ witem[c] # DisconnectEvent
  /\ Emit(c, DisconnectEvent)
  /\ UNCHANGED <<bridge, loop, cstate, alive, inflight, listeners, issued, net_state, proc>>

EndWorker(c) ==
  /\ cstate[c] = "closed"
  /\ wpc[c] = "idle" /\ c \in alive
  /\ \/ DisconnectEvent \notin listeners[c] /\ llock[c] = None
     \/ witem[c] = DisconnectEvent
  /\ alive' = alive \ {c}
  /\ UNCHANGED <<bridge, loop, cstate, inflight, listeners, llock, wpc, witem, issued, net_state, proc>>

\* a worker thread outlives the bridge: main() deletes it and stops no client.
\* GetPomeloByIndex asserts that the bridge is there.
AssertFails(c) ==
  /\ mpc = "deleted"
  /\ c \in alive /\ wpc[c] = "idle"
  /\ \/ cstate[c] = "connecting"
     \/ /\ cstate[c] \in {"working", "disconnecting", "closed"}
        /\ witem[c] # DisconnectEvent
        /\ inflight[c] \cup listeners[c] # {}
  /\ Crash("aborted")
  /\ UNCHANGED <<bridge, pipe, batch, stop_server, time_out, kind, pending,
                 cstate, inflight, listeners, llock, wpc, witem, issued, net_state>>

\* undefined behaviour that may, or may not, end the process: a result stored
\* through the null pointer connect_content, a callback that was under way when
\* the bridge was deleted, a worker whose client was freed
UseAfterFree(c) ==
  /\ c \in alive
  /\ \/ wpc[c] = "content" /\ connect_content = None
     \/ mpc = "deleted" /\ wpc[c] # "idle"
     \/ cstate[c] = "freed"
  /\ Crash("segfault")
  /\ UNCHANGED <<bridge, pipe, batch, stop_server, time_out, kind, pending,
                 cstate, inflight, listeners, llock, wpc, witem, issued, net_state>>

-----------------------------------------------------------------------------
(* The main thread: the event loop *)

Recv ==
  /\ mpc = "select" /\ ~stop_server
  /\ pipe # <<>>
  /\ LET n == IF Len(pipe) < RecvMax THEN Len(pipe) ELSE RecvMax IN
       /\ batch' = SubSeq(pipe, 1, n)
       /\ pipe' = SubSeq(pipe, n + 1, Len(pipe))
  /\ Goto("bytes")
  /\ UNCHANGED <<bridge, stop_server, time_out, kind, pending, pomelo, net_state, proc>>

\* CTimerHandle::tick
Tick(otherwise) == Goto(IF running THEN "lock" ELSE otherwise)

NextByte ==
  /\ mpc = "bytes" /\ batch # <<>>
  /\ batch' = Tail(batch)
  /\ stop_server' = (stop_server \/ Head(batch) = "term")
  /\ Tick("bytes")
  /\ UNCHANGED <<bridge, pipe, time_out, kind, pending, pomelo, net_state, proc>>

EndOfBytes ==
  /\ mpc = "bytes" /\ batch = <<>>
  /\ Goto("select")
  /\ UNCHANGED <<bridge, pipe, batch, stop_server, time_out, kind, pending, pomelo, net_state, proc>>

\* select() returns 0 after a second without a byte
Timeout ==
  /\ mpc = "select" /\ ~stop_server
  /\ pipe = <<>>
  /\ time_out' = TRUE
  /\ Tick("run")
  /\ UNCHANGED <<bridge, pipe, batch, stop_server, kind, pending, pomelo, net_state, proc>>

\* the loop ends, main() deletes the bridge and returns
DeleteBridge ==
  /\ mpc = "select" /\ stop_server
  /\ Goto("deleted")
  /\ UNCHANGED <<bridge, pipe, batch, stop_server, time_out, kind, pending, pomelo, net_state, proc>>

ExitProcess ==
  /\ mpc = "deleted"
  /\ Goto("exited")
  /\ alive' = {}
  /\ UNCHANGED <<bridge, pipe, batch, stop_server, time_out, kind, pending,
                 cstate, inflight, listeners, llock, wpc, witem, issued, net_state, proc>>

\* sig_handler runs between two steps of the main thread and writes to the
\* same socket pair
Signal(b) ==
  /\ mpc \notin {"deleted", "exited"} /\ Len(pipe) < PipeMax
  /\ b = "term" => ~stop_server /\ \A i \in DOMAIN pipe : pipe[i] # "term"
  /\ pipe' = Append(pipe, b)
  /\ UNCHANGED <<bridge, batch, stop_server, time_out, mpc, kind, pending, pomelo, net_state, proc>>

-----------------------------------------------------------------------------
(* The main thread: dispatchCallbacks *)

NextQueue ==
  IF kind = "request"
  THEN Goto("connect") /\ kind' = "notify"
  ELSE Goto("lock") /\ kind' = IF kind = "notify" THEN "event" ELSE "request"

\* dispatchNotify, dispatchEvent or dispatchRequest finds its queue empty
DispatchNothing ==
  /\ mpc = "lock" /\ lock[kind] = None
  /\ queue[kind] = <<>>
  /\ NextQueue
  /\ UNCHANGED <<bridge, pipe, batch, stop_server, time_out, pending, pomelo, net_state, proc>>

\* pop an item; an item whose content is gone is dropped ("lost content").
\* The content of a request or notify is erased, that of an event is kept.
\* NetService takes a request or notify that failed for a lost connection.
Dispatch ==
  /\ mpc = "lock" /\ lock[kind] = None
  /\ queue[kind] # <<>>
  /\ LET x == Head(queue[kind]) IN
       /\ queue' = [queue EXCEPT ![kind] = Tail(@)]
       /\ content' = content \ (IF x \in Events THEN {} ELSE {x})
       /\ Goto(IF x \in content THEN "callback" ELSE "unlock")
       /\ \/ x \in content \ Events /\ net_state' = "DISCONNECT"
          \/ UNCHANGED net_state
  /\ task_count' = task_count - 1
  /\ lock' = [lock EXCEPT ![kind] = Main]
  /\ UNCHANGED <<running, connect_status, connect_content, client,
                 pipe, batch, stop_server, time_out, kind, pending, pomelo, proc>>

CallbackReturns ==
  /\ mpc = "callback"
  /\ Goto("unlock")
  /\ UNCHANGED <<bridge, pipe, batch, stop_server, time_out, kind, pending, pomelo, net_state, proc>>

Unlock ==
  /\ mpc = "unlock"
  /\ lock' = [lock EXCEPT ![kind] = None]
  /\ NextQueue
  /\ UNCHANGED <<queue, task_count, running, connect_status, connect_content, content, client,
                 pipe, batch, stop_server, time_out, pending, pomelo, net_state, proc>>

\* connectCallBack(): the result, if it has been stored, is read here, then Lua
\* runs.  A status that was never written is any number.
DispatchConnect ==
  /\ mpc = "connect"
  /\ IF connect_status = 1 /\ connect_content # None
     THEN /\ Goto("connected")
          /\ \/ connect_content.status # "error" /\ net_state' = "CONNECT"
             \/ connect_content.status # "ok" /\ net_state' = "DISCONNECT"
     ELSE /\ Goto("check")
          /\ UNCHANGED net_state
  /\ UNCHANGED <<bridge, pipe, batch, stop_server, time_out, kind, pending, pomelo, proc>>

ConnectCallbackReturns ==
  /\ mpc = "connected"
  /\ connect_status' = 0
  /\ task_count' = task_count - 1
  /\ connect_content' = None
  /\ Goto("check")
  /\ UNCHANGED <<queue, lock, running, content, client,
                 pipe, batch, stop_server, time_out, kind, pending, pomelo, net_state, proc>>

AfterTick == IF time_out THEN "run" ELSE "bytes"

\* FAULT: the last task in the queues is taken for none
PauseTooEarly ==
  /\ mpc = "check"
  /\ Goto(IF task_count <= 1 THEN "pause" ELSE AfterTick)
  /\ UNCHANGED <<bridge, pipe, batch, stop_server, time_out, kind, pending, pomelo, net_state, proc>>

\* task_count is read and the timer paused under task_count_mutex
CheckTaskCount ==
  /\ mpc = "check"
  /\ Goto(IF task_count = 0 THEN "pause" ELSE AfterTick)
  /\ UNCHANGED <<bridge, pipe, batch, stop_server, time_out, kind, pending, pomelo, net_state, proc>>

Pause ==
  /\ mpc = "pause"
  /\ running' = FALSE
  /\ Goto(AfterTick)
  /\ UNCHANGED <<queue, lock, task_count, connect_status, connect_content, content, client,
                 pipe, batch, stop_server, time_out, kind, pending, pomelo, net_state, proc>>

RunReturns ==
  /\ mpc = "run"
  /\ time_out' = FALSE
  /\ Goto("select")
  /\ UNCHANGED <<bridge, pipe, batch, stop_server, kind, pending, pomelo, net_state, proc>>

-----------------------------------------------------------------------------
(* The main thread: what Lua calls while it runs *)

InLua == mpc \in {"callback", "connected", "run"}

Context ==
  CASE mpc = "callback" -> kind [] mpc = "connected" -> "connect" [] OTHER -> "run"

\* FAULT: an attempt is started while another one is under way
AttemptsOverlap == TRUE

\* connect_content is still there until the connect callback has run
NoAttempt == connect_content = None

\* asyncConnect: the client pointer is replaced, the old client is left behind.
\* A call before the last one was answered is dropped and changes nothing.
AsyncConnect(c) ==
  /\ InLua
  /\ net_state = "DISCONNECT"
  /\ NoAttempt
  /\ cstate[c] = "new"
  /\ client' = c
  /\ \/ /\ cstate' = [cstate EXCEPT ![c] = "connecting"]
        /\ alive' = alive \cup {c}
        /\ connect_status' = 0
        /\ connect_content' = [client |-> c, status |-> "unset"]
        /\ UNCHANGED <<task_count, running>>
     \/ \* pc_client_connect2 fails: the client is destroyed and the bridge's
        \* own connect callback is called on this thread
        /\ cstate' = [cstate EXCEPT ![c] = "freed"]
        /\ connect_status' = 1
        /\ connect_content' = [client |-> c, status |-> "error"]
        /\ task_count' = task_count + 1
        /\ running' = TRUE
        /\ UNCHANGED alive
  /\ UNCHANGED <<queue, lock, content, loop, inflight, listeners, llock, wpc, witem,
                 issued, net_state, proc>>

\* request and notify, which NetService calls while it takes itself for connected.
\* pc_request refuses when the client does not work any more: the content then
\* stays where it is, and the callback is never called.
Call(x) ==
  /\ InLua
  /\ net_state = "CONNECT"
  /\ x \notin issued
  /\ issued' = issued \cup {x}
  /\ content' = content \cup {x}
  /\ inflight' = IF cstate[client] = "working"
                 THEN [inflight EXCEPT ![client] = @ \cup {x}]
                 ELSE inflight
  /\ UNCHANGED <<queue, lock, task_count, running, connect_status, connect_content, client,
                 loop, cstate, alive, listeners, llock, wpc, witem, net_state, proc>>

StartOp(op, e) ==
  /\ pending' = [op |-> op, event |-> e, back |-> mpc]
  /\ Goto("listener")
  /\ UNCHANGED <<bridge, pipe, batch, stop_server, time_out, kind, pomelo, net_state, proc>>

\* InitEventsMap registers a listener once per connection.  pc_add_listener
\* refuses when the client has closed, and the content stays behind.
AddListener(e) ==
  /\ InLua /\ Context \in ListenerContexts
  /\ net_state = "CONNECT"
  /\ e \notin listeners[client]
  /\ \/ cstate[client] # "closed" /\ StartOp("add", e)
     \/ /\ cstate[client] = "closed"
        /\ content' = content \cup {e}
        /\ UNCHANGED <<queue, lock, task_count, running, connect_status, connect_content,
                       client, loop, pomelo, net_state, proc>>

RemoveListener(e) ==
  /\ InLua /\ Context \in ListenerContexts
  /\ net_state = "CONNECT"
  /\ e \in content
  /\ StartOp("remove", e)

\* NetService:disconnect is cleanup() followed by stop()
Disconnect ==
  /\ InLua /\ Context \in DisconnectContexts
  /\ net_state = "CONNECT"
  /\ QuietDisconnect => content \cap Requests = {}
  /\ StartOp("disconnect", DisconnectEvent)

EndOp == Goto(pending.back) /\ pending' = None

\* addListener, removeListener and cleanup wait for the client's listener mutex
ListenerOp ==
  /\ mpc = "listener"
  /\ \/ llock[client] = None
     \/ pending.op = "disconnect" /\ content \cap Events = {}
  /\ CASE pending.op = "add" ->
            /\ content' = content \cup {pending.event}
            /\ listeners' = [listeners EXCEPT ![client] = @ \cup {pending.event}]
            /\ EndOp
       [] pending.op = "remove" ->
            /\ content' = content \ {pending.event}
            /\ listeners' = [listeners EXCEPT ![client] = @ \ {pending.event}]
            /\ EndOp
       [] OTHER ->
            /\ content' = {}
            /\ listeners' = [listeners EXCEPT ![client] = @ \ content]
            /\ Goto("destroy")
            /\ UNCHANGED pending
  /\ UNCHANGED <<queue, lock, task_count, running, connect_status, connect_content, client,
                 pipe, batch, stop_server, time_out, kind,
                 cstate, alive, inflight, llock, wpc, witem, issued, net_state, proc>>

\* FAULT: the callbacks are cleared and the client goes on
StopForgotten ==
  /\ mpc = "destroy"
  /\ EndOp
  /\ UNCHANGED <<bridge, pipe, batch, stop_server, time_out, kind, pomelo, net_state, proc>>

\* pc_client_destroy: a client that has closed is not joined
DestroyClient ==
  /\ mpc = "destroy"
  /\ Goto(IF cstate[client] = "closed" THEN "release" ELSE "disconnect")
  /\ UNCHANGED <<bridge, pipe, batch, stop_server, time_out, kind, pending, pomelo, net_state, proc>>

\* pc_client_disconnect wakes the worker through close_async, which the worker
\* has freed if it closed the client in the meantime
DisconnectClient ==
  /\ mpc = "disconnect"
  /\ \/ /\ cstate[client] = "closed"
        /\ Crash("segfault")
        /\ UNCHANGED cstate
     \/ /\ cstate' = [cstate EXCEPT ![client] = IF @ = "closed" THEN @ ELSE "disconnecting"]
        /\ Goto("join")
        /\ UNCHANGED <<alive, proc>>
  /\ UNCHANGED <<bridge, pipe, batch, stop_server, time_out, kind, pending,
                 inflight, listeners, llock, wpc, witem, issued, net_state>>

JoinWorker ==
  /\ mpc = "join"
  /\ client \notin alive
  /\ Goto("release")
  /\ UNCHANGED <<bridge, pipe, batch, stop_server, time_out, kind, pending, pomelo, net_state, proc>>

\* pc__release_requests answers the requests that are left on this thread, so
\* the main thread runs the whole of the bridge's own request callback
ReleaseRequest(x) ==
  /\ mpc = "release"
  /\ x \in inflight[client] \cap Requests
  /\ lock["request"] = None /\ Len(pipe) < PipeMax
  /\ inflight' = [inflight EXCEPT ![client] = @ \ {x}]
  /\ queue' = [queue EXCEPT !["request"] = Append(@, x)]
  /\ task_count' = task_count + 1
  /\ running' = TRUE
  /\ pipe' = Append(pipe, "wake")
  /\ UNCHANGED <<lock, connect_status, connect_content, content, client,
                 batch, stop_server, time_out, mpc, kind, pending,
                 cstate, alive, listeners, llock, wpc, witem, issued, net_state, proc>>

FreeClient ==
  /\ mpc = "release"
  /\ inflight[client] \cap Requests = {}
  /\ cstate' = [cstate EXCEPT ![client] = "freed"]
  /\ listeners' = [listeners EXCEPT ![client] = {}]
  /\ net_state' = "DISCONNECT"
  /\ EndOp
  /\ UNCHANGED <<bridge, pipe, batch, stop_server, time_out, kind,
                 alive, inflight, llock, wpc, witem, issued, proc>>
-----------------------------------------------------------------------------

\* what a worker does once a callback has begun
WorkerStep(c) ==
  \/ StoreConnectResult(c) \/ Push(c) \/ IncTaskCount(c) \/ Resume(c)
  \/ UnlockQueue(c) \/ SendSignal(c)

Worker(c) ==
  \/ \E result \in Results : OnConnect(c, result)
  \/ \E x \in Requests \cup Notifies : OnAnswer(c, x)
  \/ \E e \in Events : OnEvent(c, e)
  \/ CloseClient(c) \/ EmitDisconnect(c) \/ EndWorker(c)
  \/ WorkerStep(c)
  \/ AssertFails(c) \/ UseAfterFree(c)

\* what Lua may call
LuaCall ==
  \/ \E c \in Clients : AsyncConnect(c)
  \/ \E x \in Requests \cup Notifies : Call(x)
  \/ \E e \in Events : AddListener(e) \/ RemoveListener(e)
  \/ Disconnect

LuaReturns == CallbackReturns \/ ConnectCallbackReturns \/ RunReturns

\* what the main thread goes on to do by itself
MainStep ==
  \/ Recv \/ NextByte \/ EndOfBytes \/ Timeout \/ DeleteBridge \/ ExitProcess
  \/ DispatchNothing \/ Dispatch \/ Unlock \/ DispatchConnect \/ CheckTaskCount \/ Pause
  \/ ListenerOp \/ DestroyClient \/ DisconnectClient \/ JoinWorker
  \/ (\E x \in Requests : ReleaseRequest(x)) \/ FreeClient

Next ==
  \/ \E c \in Clients : Worker(c)
  \/ LuaCall \/ LuaReturns \/ MainStep
  \/ \E b \in Signals : Signal(b)

Spec == Init /\ [][Next]_vars

\* what the network makes of a connection attempt: an answer, or nothing
\* before the handshake times out
Resolve(c) ==
  \/ \E result \in Results : OnConnect(c, result)
  \/ cstate[c] = "connecting" /\ CloseClient(c)

\* the libuv loop comes round to close_async and then ends
EndLoop(c) ==
  \/ cstate[c] = "disconnecting" /\ CloseClient(c)
  \/ EmitDisconnect(c) \/ EndWorker(c)

(* The threads run, Lua callbacks end, a mutex that is released again and again
   is acquired, and a connection attempt does not last for ever.  Nothing is
   assumed of the server, of what Lua decides to call, or of signals. *)
Fairness ==
  /\ WF_vars(MainStep)
  /\ SF_vars(DispatchNothing \/ Dispatch)
  /\ SF_vars(ListenerOp)
  /\ SF_vars(LuaReturns)
  /\ \A c \in Clients :
       /\ SF_vars(WorkerStep(c))
       /\ SF_vars(EndLoop(c))
       /\ WF_vars(Resolve(c))

FairSpec == Spec /\ Fairness
-----------------------------------------------------------------------------
(* Correctness *)

Queued == Len(queue["notify"]) + Len(queue["event"]) + Len(queue["request"])

\* the workers that have published an item and not counted it yet
Uncounted == {c \in Clients : wpc[c] \in {"content", "inc"}}

(* task_count never drifts: it is the number of items waiting for the main
   thread, the connect result included, less those a worker has published but
   not counted yet.  It goes below zero for a moment when a result is consumed
   before it is counted (pushReponse ... connectCallBack, incTaskCount and
   desTaskCount of CCPomelo.cpp). *)
TaskCountAccurate == task_count = Queued + connect_status - Cardinality(Uncounted)

(* No lost wake-up: while something waits for the main thread the timer handle
   runs, or a worker is still on its way to resume it.  A tick does nothing
   while the handle is paused, so a lost wake-up would leave a response in its
   queue for ever (dispatchCallbacks, incTaskCount). *)
NoLostWakeup ==
  Queued > 0 \/ connect_status = 1
    => running \/ \E c \in Clients : wpc[c] \in {"content", "inc", "resume"}

HoldsQueue(c, k) == wpc[c] \in {"inc", "resume", "unlock"} /\ witem[c] \in Items /\ KindOf(witem[c]) = k
MainHoldsQueue(k) ==
  /\ kind = k
  /\ \/ mpc \in {"callback", "unlock"}
     \/ pending # None /\ pending.back = "callback"

(* The threads a thread waits for.  The main thread waits for a listener mutex,
   for a queue, to join a worker, and for itself when it answers a request
   under a mutex it holds; a worker waits for a queue or for room in the socket
   pair, which only the main thread makes. *)
WaitsFor(t) ==
  IF t = Main
  THEN CASE mpc = "listener" /\ llock[client] # None -> {llock[client]}
         [] mpc = "lock" /\ lock[kind] # None -> {lock[kind]}
         [] mpc = "join" /\ client \in alive -> {client}
         [] mpc = "release" /\ inflight[client] \cap Requests # {} /\ lock["request"] # None
              -> {lock["request"]}
         [] mpc = "release" /\ inflight[client] \cap Requests # {} /\ Len(pipe) >= PipeMax
              -> {Main}
         [] OTHER -> {}
  ELSE CASE wpc[t] = "lock" /\ lock[KindOf(witem[t])] # None -> {lock[KindOf(witem[t])]}
         [] wpc[t] = "signal" /\ Len(pipe) >= PipeMax -> {Main}
         [] OTHER -> {}

(* The main thread never waits in a circle.  A dispatched callback holds the
   mutex of its queue while Lua runs, pc_emit_event holds the listener mutex
   around a callback, and pc_client_destroy joins the worker, so what Lua may
   call depends on the callback it calls it from (dispatchEvent, removeListener,
   cleanup, stop; pc_emit_event). *)
NoDeadlock ==
  LET next(S) == UNION {WaitsFor(t) : t \in S}
      one     == next({Main})
      two     == next(one)
      three   == next(two)
  IN  Main \notin one \cup two \cup three

(* The callback of a call the server still owes an answer is kept: only a
   disconnect, which stops the client as well, drops it.  request and notify
   store the callback before pc_request can be answered, dispatchRequest and
   dispatchNotify erase it, cleanup clears all of them. *)
CallbackKept ==
  client # None /\ cstate[client] # "freed" /\ (pending = None \/ pending.op # "disconnect")
    => inflight[client] \subseteq content

(* A client is freed only when its worker has ended (pc_client_destroy joins
   it, unless the client has closed by itself already). *)
FreedAfterJoin == \A c \in alive : cstate[c] # "freed"

(* Lua's calls return: no listener call and no disconnect waits for ever for a
   mutex or for a worker (addListener, removeListener, cleanup, stop;
   pc_client_destroy). *)
LuaCallsReturn == pending # None ~> pending = None \/ mpc = "exited"

\* the connection ended before the handshake was over, and no callback told of it
AttemptLost ==
  LET c == connect_content.client
  IN connect_status = 0 /\ cstate[c] \in {"closed", "freed"} /\ wpc[c] # "content"

(* Every connection attempt is answered, since asyncConnect refuses another one until
   then.  The one exception is an attempt whose connection ends between the TCP
   connect and the end of the handshake: libpomelo never calls it back (asyncConnect,
   connectCallBack, pc_client_stop). *)
ConnectAnswered ==
  connect_content # None ~> connect_content = None \/ mpc = "exited" \/ AttemptLost

(* The status the connect callback reports is one libpomelo gave
   (connectCallBack). *)
ConnectStatusReported ==
  [][mpc' = "connected" /\ mpc = "connect" => connect_content.status \in Results]_vars

(* What the bridge promises: libpomelo's answers and events reach Lua in the
   order of each queue, each once, and none waits for ever. *)
Mailbox == INSTANCE CallbackMailbox WITH
  Calls <- Requests \cup Notifies,
  box   <- queue,
  asked <- issued,
  owed  <- (UNION {inflight[c] : c \in Clients})
             \cup {witem[c] : c \in {d \in Clients : wpc[d] = "lock" /\ witem[d] \notin Events}},
  down  <- mpc \in {"deleted", "exited"}

ImplementsMailbox == Mailbox!Spec

=============================================================================
