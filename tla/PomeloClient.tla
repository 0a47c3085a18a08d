---------------------------- MODULE PomeloClient ----------------------------
(***************************************************************************)
(* A pc_client_t of libpomelo: client.c, network.c, transport.c, thread.c, *)
(* pkg-handshake.c, pkg-heartbeat.c and the response path of protocol.c.   *)
(*                                                                         *)
(* The user's thread connects, asks and destroys; the worker thread runs   *)
(* the libuv loop and, in it, one callback at a time.  They share the      *)
(* client's state, which pc_client_disconnect stores under a mutex and     *)
(* most of the worker's callbacks store without one.  A callback is a step *)
(* of the worker, unless it reads the state and stores it later: then wpc  *)
(* says how far it has come.  Every step of the user's thread that looks   *)
(* at the client is one of its own as well.                                *)
(*                                                                         *)
(* Events that are only emitted, the encoding of packages and the DNS are  *)
(* left out.  A pointer that is read after it was freed, or is NULL, may   *)
(* end the process or go unnoticed.                                        *)
(***************************************************************************)
EXTENDS Naturals, Sequences, SequencesExt

CONSTANTS
  Requests,         \* pc_request_t objects, each used once
  Notifies,         \* pc_notify_t objects, each used once
  ConnMax,          \* bound: TCP connections a client opens in its life
  EnableReconnect,  \* pc_client_new_with_reconnect
  Apis,             \* how the user may connect
  Handshakes,       \* how a server may answer the handshake
  NetworkFails      \* whether connections, writes and reads may fail

ASSUME ClientAssumption ==
  /\ Requests \cap Notifies = {}
  /\ ConnMax \in Nat \ {0}
  /\ EnableReconnect \in BOOLEAN /\ NetworkFails \in BOOLEAN
  /\ Apis \subseteq {"connect", "connect2", "connect3"}
  /\ Handshakes \subseteq {"beat", "quiet", "bad"}

Calls    == Requests \cup Notifies
Conns    == 1..ConnMax
None     == 0                       \* a NULL transport or connect request
Statuses == {"ok", "failed"}        \* the status 0 and -1 of a callback
Timers   == {"heartbeat", "timeout", "handshake", "reconnect"}
States   == {"inited", "connecting", "connected", "working", "disconnecting", "closed"}

VARIABLES
  state,         \* pc_client_t.state
  reconnecting,
  transport,     \* client->transport: a connection or None
  tp,            \* the state of the transport of each connection
  tcp,           \* connections whose uv_tcp_connect is under way
  writes,        \* handshake, ack and heartbeat writes under way
  shaken,        \* connections whose server has answered the handshake
  conn,          \* TCP connections begun
  conn_req,      \* client->conn_req
  told,          \* what the callback of each connect request was called with
  api,           \* the call the user connected with
  armed,         \* timers that are running
  repeat,        \* whether the heartbeat timers have an interval
  open,          \* the timers and close_async have not been closed yet
  wake,          \* close_async was sent
  phase,         \* how far each request and notify has come
  via,           \* req->transport
  requests,      \* client->requests
  answers,       \* what the callback of each request and notify was called with
  upc, arg,      \* where the user's thread is, and the call it makes
  wpc, cb,       \* where the worker is, and the connect request it is to fail next
  proc

link    == <<transport, tp, tcp, writes, shaken>>
connect == <<conn, conn_req, told, api>>
clocks  == <<armed, repeat, open>>
asks    == <<phase, via, requests, answers>>
user    == <<upc, arg>>
worker  == <<wpc, cb>>
memory  == <<state, reconnecting, link, connect, clocks, wake, asks, user, worker>>
vars    == <<memory, proc>>

Phases == {"new", "send", "queued", "writing", "sent", "refused", "done"}
UserPCs == {"start", "wait", "cond", "idle", "ask", "send", "disconnect", "wake",
            "join", "clear", "gone"}
WorkerPCs == {"none", "loop", "connected", "handshake", "stop", "close", "reset", "retry",
              "callback", "exit", "broadcast", "ended"}

TypeOK ==
  /\ state \in States /\ reconnecting \in BOOLEAN
  /\ transport \in Conns \cup {None}
  /\ tp \in [Conns -> {"none", "connecting", "working", "closed", "freed"}]
  /\ tcp \subseteq Conns /\ shaken \subseteq Conns
  /\ writes \subseteq Conns \X {"handshake", "ack", "heartbeat"}
  /\ conn \in 0..ConnMax /\ conn_req \in Conns \cup {None}
  /\ told \in [Conns -> Seq(Statuses)]
  /\ api \in Apis \cup {"none"}
  /\ armed \subseteq Timers
  /\ repeat \in BOOLEAN /\ open \in BOOLEAN /\ wake \in BOOLEAN
  /\ phase \in [Calls -> Phases]
  /\ via \in [Calls -> Conns \cup {None}]
  /\ requests \subseteq Requests
  /\ answers \in [Calls -> Seq(Statuses)]
  /\ upc \in UserPCs /\ arg \in Calls \cup {None}
  /\ wpc \in WorkerPCs /\ cb \in Conns \cup {None}
  /\ proc \in {"up", "segfault"}

Init ==
  /\ state = "inited" /\ reconnecting = FALSE
  /\ transport = None
  /\ tp = [c \in Conns |-> "none"]
  /\ tcp = {} /\ writes = {} /\ shaken = {}
  /\ conn = 0 /\ conn_req = None
  /\ told = [c \in Conns |-> <<>>]
  /\ api = "none"
  /\ armed = {} /\ repeat = FALSE /\ open = TRUE /\ wake = FALSE
  /\ phase = [x \in Calls |-> "new"]
  /\ via = [x \in Calls |-> None]
  /\ requests = {}
  /\ answers = [x \in Calls |-> <<>>]
  /\ upc = "start" /\ arg = None
  /\ wpc = "none" /\ cb = None
  /\ proc = "up"

Running  == proc = "up"
UserAt(pc)   == Running /\ upc = pc
WorkerAt(pc) == Running /\ wpc = pc /\ upc # "gone"

\* a freed or NULL pointer is used
Segfault == proc' = "segfault" /\ UNCHANGED memory

Answer(X, status) ==
  answers' = [x \in Calls |-> IF x \in X THEN Append(answers[x], status) ELSE answers[x]]

Tell(c, status) == told' = [told EXCEPT ![c] = Append(@, status)]

\* the connect request of a reconnection is libpomelo's own
Kind(c) == IF c = 1 THEN api ELSE "reconnect"

\* FAULT: the connect request stays with the client
KeepConnReq == UNCHANGED conn_req

\* whoever calls the connect request back takes it from the client first
DropConnReq == conn_req' = None

\* pc__cond_broadcast wakes the thread that waits in pc__cond_wait by then
Broadcast == upc' = IF upc = "cond" THEN "idle" ELSE upc
-----------------------------------------------------------------------------
(* The user's thread *)

\* pc_connect, once the state was found to be inited.  When uv_tcp_connect
\* fails the transport is freed, and state and conn_req stay as they are.
BeginConnect(c, ok) ==
  /\ state' = "connecting"
  /\ conn' = c /\ conn_req' = c
  /\ tp' = [tp EXCEPT ![c] = IF ok THEN "connecting" ELSE "none"]
  /\ tcp' = IF ok THEN tcp \cup {c} ELSE tcp

\* pc_client_connect, pc_client_connect2 and pc_client_connect3; the worker
\* thread is not created when pc_connect fails
Connect(a, ok) ==
  /\ UserAt("start")
  /\ ok \/ NetworkFails
  /\ BeginConnect(1, ok)
  /\ api' = a
  /\ wpc' = IF ok THEN "loop" ELSE "none"
  /\ upc' = IF ok /\ a = "connect" THEN "wait" ELSE "idle"
  /\ UNCHANGED <<reconnecting, transport, writes, shaken, told, clocks, wake, asks, arg, cb, proc>>

\* pc__cond_wait waits without asking whether the worker is done
CondWait ==
  /\ UserAt("wait")
  /\ upc' = "cond"
  /\ UNCHANGED <<state, reconnecting, link, connect, clocks, wake, asks, arg, worker, proc>>

\* pc_request and pc_notify; they refuse a client that is not working
Ask(x) ==
  /\ UserAt("idle")
  /\ phase[x] = "new" /\ state = "working" /\ transport # None
  /\ via' = [via EXCEPT ![x] = transport]
  /\ upc' = "ask" /\ arg' = x
  /\ UNCHANGED <<state, reconnecting, link, connect, clocks, wake, phase, requests, answers, worker, proc>>

\* pc__async_write looks at the transport, which the worker may have freed
CheckTransport ==
  /\ UserAt("ask")
  /\ \/ /\ tp[via[arg]] = "working"
        /\ phase' = [phase EXCEPT ![arg] = "send"]
        /\ upc' = "send" /\ UNCHANGED <<arg, proc, via, requests, answers>>
     \/ /\ tp[via[arg]] # "working"
        /\ phase' = [phase EXCEPT ![arg] = "refused"]
        /\ upc' = "idle" /\ arg' = None /\ UNCHANGED <<proc, via, requests, answers>>
     \/ /\ tp[via[arg]] = "freed"
        /\ proc' = "segfault" /\ UNCHANGED <<asks, user>>
  /\ UNCHANGED <<state, reconnecting, link, connect, clocks, wake, worker>>

\* uv_async_init and uv_async_send: the worker goes on from pc__async_write_cb
Send ==
  /\ UserAt("send")
  /\ phase' = [phase EXCEPT ![arg] = "queued"]
  /\ upc' = "idle" /\ arg' = None
  /\ UNCHANGED <<state, reconnecting, link, connect, clocks, wake, via, requests, answers, worker, proc>>

\* pc_client_destroy: a client that is initial or closed is not joined
Destroy ==
  /\ UserAt("idle")
  /\ upc' = IF state \in {"inited", "closed"} THEN "clear" ELSE "disconnect"
  /\ UNCHANGED <<state, reconnecting, link, connect, clocks, wake, asks, arg, worker, proc>>

\* pc_client_disconnect stores the state ...
Disconnect ==
  /\ UserAt("disconnect")
  /\ state' = "disconnecting"
  /\ upc' = "wake"
  /\ UNCHANGED <<reconnecting, link, connect, clocks, wake, asks, arg, worker, proc>>

\* ... and wakes the loop, if the worker has not freed close_async meanwhile
Wake ==
  /\ UserAt("wake")
  /\ \/ open /\ wake' = TRUE /\ UNCHANGED proc
     \/ ~open /\ proc' = "segfault" /\ UNCHANGED wake
     \/ ~open /\ UNCHANGED <<proc, wake>>
  /\ upc' = "join"
  /\ UNCHANGED <<state, reconnecting, link, connect, clocks, asks, arg, worker>>

\* uv_thread_join, of a thread that may never have been created
Join ==
  /\ UserAt("join")
  /\ \/ wpc \in {"none", "ended"} /\ UNCHANGED proc
     \/ wpc = "none" /\ proc' = "segfault"
  /\ upc' = "clear"
  /\ UNCHANGED <<state, reconnecting, link, connect, clocks, wake, asks, arg, worker>>

\* pc__client_clear fails the requests that are left, and the client is freed
Clear ==
  /\ UserAt("clear")
  /\ Answer(requests, "failed")
  /\ requests' = {}
  /\ upc' = "gone"
  /\ UNCHANGED <<state, reconnecting, link, connect, clocks, wake, phase, via, arg, worker, proc>>
-----------------------------------------------------------------------------
(* The worker's thread: pc_client_stop *)

\* a callback that ends in pc_client_stop, and fails request c after it
Stopping(c) == wpc' = "stop" /\ cb' = c

Return == wpc' = "loop" /\ cb' = None

\* what follows pc_client_stop in the callback
AfterStop == wpc' = IF cb = None THEN "loop" ELSE "callback"

\* FAULT: the pointer is cleared and the transport stays open
ForgetTransport ==
  /\ transport' = None
  /\ UNCHANGED <<tp, tcp, writes, shaken>>

\* pc_transport_destroy of client->transport
CloseTransport ==
  /\ transport' = None
  /\ tp' = [c \in Conns |-> IF c = transport THEN "closed" ELSE tp[c]]
  /\ UNCHANGED <<tcp, writes, shaken>>

\* pc_client_stop reads the state ...
Stop ==
  /\ WorkerAt("stop")
  /\ \/ /\ EnableReconnect /\ state # "disconnecting"
        /\ IF reconnecting THEN AfterStop ELSE wpc' = "reset"
        /\ UNCHANGED state
     \/ /\ ~EnableReconnect \/ state = "disconnecting"
        /\ IF state \in {"inited", "closed"} THEN AfterStop ELSE wpc' = "close"
        /\ state' = IF state = "inited" THEN "closed" ELSE state
  /\ UNCHANGED <<reconnecting, link, connect, clocks, wake, asks, user, cb, proc>>

\* FAULT: close_async stays open
CloseTimersOnly == armed' = {} /\ UNCHANGED <<repeat, open, wake>>

CloseHandles ==
  /\ armed' = {} /\ UNCHANGED repeat
  /\ open' = FALSE /\ wake' = FALSE

\* ... and closes the client: the transport, the timers and close_async
Close ==
  /\ WorkerAt("close")
  /\ state' = "closed"
  /\ CloseTransport
  /\ CloseHandles
  /\ AfterStop
  \* the reconnect timer is closed a second time
  /\ proc' = IF EnableReconnect /\ ~open THEN "segfault" ELSE proc
  /\ UNCHANGED <<reconnecting, connect, asks, user, cb>>

\* ... or starts over: pc__client_reconnect and pc__client_reconnect_reset,
\* which stops the timeout timer twice and leaves the handshake timer running
Reset ==
  /\ WorkerAt("reset")
  /\ reconnecting' = TRUE
  /\ CloseTransport
  /\ armed' = (armed \ {"heartbeat", "timeout"}) \cup {"reconnect"}
  /\ UNCHANGED <<repeat, open>>
  /\ Answer(requests, "failed")
  /\ requests' = {} /\ UNCHANGED <<phase, via>>
  /\ state' = "inited"
  /\ AfterStop
  /\ UNCHANGED <<connect, wake, user, cb, proc>>

\* FAULT: the callback is given libuv's error
Errno == "ECANCELED"

\* the callbacks know one error
Failure == "failed"

\* the callback of a connect request is told of a failure.  libpomelo's own
\* callbacks stop the client; a user's callback returns.
FailConnect ==
  /\ WorkerAt("callback")
  /\ Tell(cb, Failure)
  /\ IF Kind(cb) = "connect2" THEN Return ELSE Stopping(None)
  /\ IF Kind(cb) = "reconnect"
     THEN reconnecting' = FALSE /\ armed' = armed \ {"reconnect"}
     ELSE UNCHANGED <<reconnecting, armed>>
  /\ UNCHANGED <<state, link, conn, conn_req, api, repeat, open, wake, asks, user, proc>>

\* pc__close_async_cb
CloseAsync ==
  /\ WorkerAt("loop")
  /\ wake
  /\ wake' = FALSE
  /\ Stopping(None)
  /\ UNCHANGED <<state, reconnecting, link, connect, clocks, asks, user, proc>>

\* pc__client_reconnect_timer_cb, up to the state being read in pc_connect
ReconnectTimer ==
  /\ WorkerAt("loop")
  /\ "reconnect" \in armed
  /\ armed' = armed \ {"reconnect"}
  /\ \/ /\ state = "inited" /\ conn < ConnMax
        /\ wpc' = "retry" /\ UNCHANGED <<cb, reconnecting>>
     \/ /\ state # "inited"
        /\ reconnecting' = FALSE
        /\ Stopping(None)
  /\ UNCHANGED <<state, link, connect, repeat, open, wake, asks, user, proc>>

Retry(ok) ==
  /\ WorkerAt("retry")
  /\ ok \/ NetworkFails
  /\ BeginConnect(conn + 1, ok)
  /\ IF ok THEN Return /\ UNCHANGED reconnecting
           ELSE Stopping(None) /\ reconnecting' = FALSE
  /\ UNCHANGED <<transport, writes, shaken, told, api, clocks, wake, asks, user, proc>>
-----------------------------------------------------------------------------
(* The worker's thread: the connection *)

\* FAULT: the state is not looked at
AlwaysConnect == TRUE

\* the client may have been stopped meanwhile
StillConnecting == state = "connecting"

\* pc__on_tcp_connect
TcpConnected(c, ok) ==
  /\ WorkerAt("loop")
  /\ c \in tcp
  /\ tcp' = tcp \ {c}
  /\ \/ /\ ~StillConnecting
        /\ DropConnReq
        /\ wpc' = "callback" /\ cb' = c
        /\ UNCHANGED <<transport, tp>>
     \/ /\ StillConnecting /\ ~ok /\ NetworkFails
        /\ tp' = [tp EXCEPT ![c] = "closed"]
        /\ DropConnReq
        /\ Stopping(c)
        /\ UNCHANGED transport
     \/ /\ StillConnecting /\ ok
        /\ transport' = c
        /\ wpc' = "connected"
        /\ UNCHANGED <<tp, conn_req, cb>>
  /\ UNCHANGED <<state, reconnecting, writes, shaken, conn, told, api, clocks, wake, asks, user, proc>>

\* the state is stored whatever it has become
StoreConnected ==
  /\ WorkerAt("connected")
  /\ state' = "connected"
  /\ tp' = [tp EXCEPT ![transport] = "working"]
  /\ wpc' = "handshake"
  /\ UNCHANGED <<reconnecting, transport, tcp, writes, shaken, connect, clocks, wake, asks, user, cb, proc>>

\* pc__handshake_req; pc__binary_write refuses a client that disconnects, and
\* the timer of a client that was closed is NULL
HandshakeReq ==
  /\ WorkerAt("handshake")
  /\ \/ /\ state \in {"connected", "working"}
        /\ writes' = writes \cup {<<transport, "handshake">>}
        /\ armed' = armed \cup {"handshake"}
        /\ Return
        /\ proc' = IF open THEN proc ELSE "segfault"
        /\ UNCHANGED conn_req
     \/ /\ state \notin {"connected", "working"}
        /\ DropConnReq
        /\ Stopping(transport)
        /\ UNCHANGED <<writes, armed, proc>>
  /\ UNCHANGED <<state, reconnecting, transport, tp, tcp, shaken, conn, told, api, repeat, open,
                 wake, asks, user>>

\* a write on connection c ends; the writes of a closed transport are cancelled
Ends(c, ok) == IF tp[c] = "working" THEN ok \/ NetworkFails ELSE tp[c] = "closed" /\ ~ok

\* pc__handshake_req_cb
HandshakeWritten(c, ok) ==
  /\ WorkerAt("loop")
  /\ <<c, "handshake">> \in writes /\ Ends(c, ok)
  /\ writes' = writes \ {<<c, "handshake">>}
  /\ IF tp[c] = "working" /\ ~ok
     THEN Stopping(conn_req) /\ DropConnReq
     ELSE UNCHANGED <<worker, conn_req>>
  /\ UNCHANGED <<state, reconnecting, transport, tp, tcp, shaken, conn, told, api, clocks, wake, asks, user, proc>>

\* FAULT: the timeout timer goes on
TimeoutKept(running) ==
  armed' = running \cup (IF repeat' THEN {"heartbeat"} ELSE {})

\* pc__heartbeat
GotHeartbeat(running) ==
  armed' = (running \ {"timeout"}) \cup (IF repeat' THEN {"heartbeat"} ELSE {})

Reading(c) == WorkerAt("loop") /\ transport = c /\ tp[c] = "working"

\* pc__handshake_resp: the interval of the heartbeat timers is set, or left as
\* it was; the ack is not sent once the client disconnects
HandshakeResp(c, h) ==
  /\ Reading(c)
  /\ <<c, "handshake">> \notin writes /\ c \notin shaken
  /\ shaken' = shaken \cup {c}
  /\ \/ /\ h = "bad"
        /\ armed' = armed \ {"handshake"}
        /\ Stopping(None)
        /\ UNCHANGED <<repeat, writes>>
     \/ /\ h # "bad"
        /\ repeat' = (h = "beat" \/ repeat)
        /\ writes' = IF state \in {"connected", "working"}
                     THEN writes \cup {<<c, "ack">>} ELSE writes
        /\ GotHeartbeat(armed \ {"handshake"})
        /\ UNCHANGED worker
  /\ UNCHANGED <<state, reconnecting, transport, tp, tcp, connect, open, wake, asks, user, proc>>

\* pc__handshake_ack_cb: the client works, whatever its state has become, and
\* the connect request succeeds
AckWritten(c, ok) ==
  /\ WorkerAt("loop")
  /\ <<c, "ack">> \in writes /\ Ends(c, ok)
  /\ writes' = writes \ {<<c, "ack">>}
  /\ \/ /\ tp[c] = "closed"
        /\ UNCHANGED <<state, reconnecting, conn_req, told, armed, upc, worker>>
     \/ /\ tp[c] = "working" /\ ~ok
        /\ Stopping(conn_req) /\ DropConnReq
        /\ UNCHANGED <<state, reconnecting, told, armed, upc>>
     \/ /\ tp[c] = "working" /\ ok
        /\ state' = "working"
        /\ DropConnReq
        /\ IF conn_req = None THEN UNCHANGED told ELSE Tell(conn_req, "ok")
        /\ IF conn_req # None /\ Kind(conn_req) = "connect" THEN Broadcast ELSE UNCHANGED upc
        /\ IF conn_req # None /\ Kind(conn_req) = "reconnect"
           THEN reconnecting' = FALSE /\ armed' = armed \ {"reconnect"}
           ELSE UNCHANGED <<reconnecting, armed>>
        /\ UNCHANGED worker
  /\ UNCHANGED <<transport, tp, tcp, shaken, conn, api, repeat, open, wake, asks, arg, proc>>

\* the server sends once it has the ack
Talking(c) == Reading(c) /\ c \in shaken /\ <<c, "ack">> \notin writes

HeartbeatRead(c) ==
  /\ Talking(c)
  /\ repeat' = repeat
  /\ GotHeartbeat(armed)
  /\ UNCHANGED <<state, reconnecting, link, connect, open, wake, asks, user, worker, proc>>

\* pc_tp_on_tcp_read at the end of the stream or on an error
ReadEnds(c) ==
  /\ Reading(c) /\ NetworkFails
  /\ reconnecting' = FALSE
  /\ Stopping(None)
  /\ UNCHANGED <<state, link, connect, clocks, wake, asks, user, proc>>

\* a package that cannot be read
BadPackage(c) ==
  /\ Talking(c) /\ "bad" \in Handshakes
  /\ Stopping(None)
  /\ UNCHANGED <<state, reconnecting, link, connect, clocks, wake, asks, user, proc>>

\* FAULT: nobody waits for the server's heartbeat
SkipTimeout == armed' = armed \ {"heartbeat"}

\* uv_timer_again of the timeout timer, after the heartbeat timer was stopped
AwaitHeartbeat == armed' = (armed \ {"heartbeat"}) \cup {"timeout"}

\* pc__heartbeat_cb
HeartbeatTimer ==
  /\ WorkerAt("loop")
  /\ "heartbeat" \in armed
  /\ \/ /\ state = "working"
        /\ writes' = writes \cup {<<transport, "heartbeat">>}
        /\ AwaitHeartbeat
        /\ UNCHANGED worker
     \/ /\ state # "working"
        /\ armed' = armed \ {"heartbeat"}
        /\ Stopping(None)
        /\ UNCHANGED writes
  /\ UNCHANGED <<state, reconnecting, transport, tp, tcp, shaken, connect, repeat, open,
                 wake, asks, user, proc>>

\* pc__heartbeat_req_cb takes the transport for the client, and stops that
HeartbeatWritten(c, ok) ==
  /\ WorkerAt("loop")
  /\ <<c, "heartbeat">> \in writes /\ Ends(c, ok)
  /\ writes' = writes \ {<<c, "heartbeat">>}
  /\ proc' \in IF ok THEN {proc} ELSE {proc, "segfault"}
  /\ UNCHANGED <<state, reconnecting, transport, tp, tcp, shaken, connect, clocks, wake, asks, user, worker>>

\* pc__timeout_cb and pc__handshake_timeout_cb
TimerExpires(t) ==
  /\ WorkerAt("loop")
  /\ t \in armed \cap {"timeout", "handshake"}
  /\ armed' = armed \ {t}
  /\ Stopping(None)
  /\ UNCHANGED <<state, reconnecting, link, connect, repeat, open, wake, asks, user, proc>>
-----------------------------------------------------------------------------
(* The worker's thread: requests and notifies *)

\* FAULT: the request is not recorded
SkipMapSet(x) == requests' = requests

\* pc_map_set, once uv_write has taken the package
MapSet(x) == requests' = requests \cup ({x} \cap Requests)

\* FAULT: the request stays in the map
SkipMapDel(x) == requests' = requests

\* pc_map_del
MapDel(x) == requests' = requests \ {x}

\* pc__async_write_cb, pc__request and pc__notify.  When the transport no longer
\* works the callback is called with the status of the async handle, which is 0.
AsyncWrite(x, ok) ==
  /\ WorkerAt("loop")
  /\ phase[x] = "queued" /\ (ok \/ NetworkFails)
  /\ \/ /\ tp[via[x]] = "working" /\ ok
        /\ phase' = [phase EXCEPT ![x] = "writing"]
        /\ MapSet(x)
        /\ UNCHANGED <<answers, proc>>
     \/ /\ tp[via[x]] = "working" /\ ~ok
        /\ phase' = [phase EXCEPT ![x] = "done"]
        /\ Answer({x}, "failed")
        /\ UNCHANGED <<requests, proc>>
     \/ /\ tp[via[x]] # "working"
        /\ phase' = [phase EXCEPT ![x] = "done"]
        /\ Answer({x}, "ok")
        /\ UNCHANGED <<requests, proc>>
     \/ /\ tp[via[x]] = "freed"
        /\ proc' = "segfault" /\ UNCHANGED <<phase, requests, answers>>
  /\ UNCHANGED <<state, reconnecting, link, connect, clocks, wake, via, user, worker>>

\* pc__on_request and pc__on_notify; a request on a transport that stopped
\* working stays in the map
Written(x, ok) ==
  /\ WorkerAt("loop")
  /\ phase[x] = "writing" /\ Ends(via[x], ok)
  /\ phase' = [phase EXCEPT ![x] = IF ok /\ x \in Requests THEN "sent" ELSE "done"]
  /\ IF ok THEN IF x \in Notifies THEN Answer({x}, "ok") ELSE UNCHANGED answers
           ELSE Answer({x}, "failed")
  /\ IF ~ok /\ tp[via[x]] = "working" THEN MapDel(x) ELSE UNCHANGED requests
  /\ UNCHANGED <<state, reconnecting, link, connect, clocks, wake, via, user, worker, proc>>

\* pc__process_response
Response(x) ==
  /\ phase[x] = "sent" /\ x \in requests
  /\ Talking(via[x])
  /\ phase' = [phase EXCEPT ![x] = "done"]
  /\ MapDel(x)
  /\ Answer({x}, "ok")
  /\ UNCHANGED <<state, reconnecting, link, connect, clocks, wake, via, user, worker, proc>>
-----------------------------------------------------------------------------
(* The worker's thread: the loop ends *)

\* pc__tcp_close_cb, after the writes of the transport were cancelled
FreeTransport(c) ==
  /\ WorkerAt("loop")
  /\ tp[c] = "closed"
  /\ \A w \in writes : w[1] # c
  /\ \A x \in Calls : phase[x] = "writing" => via[x] # c
  /\ tp' = [tp EXCEPT ![c] = "freed"]
  /\ UNCHANGED <<state, reconnecting, transport, tcp, writes, shaken, connect, clocks, wake, asks, user, worker, proc>>

\* uv__loop_alive
LoopAlive ==
  \/ open \/ armed # {} \/ tcp # {}
  \/ \E c \in Conns : tp[c] \in {"working", "closed"}
  \/ \E x \in Calls : phase[x] = "queued"

\* pc__worker: uv_run returns, the state is stored and "disconnect" emitted ...
LoopEnds ==
  /\ WorkerAt("loop") /\ ~LoopAlive
  /\ wpc' = "exit"
  /\ UNCHANGED <<state, reconnecting, link, connect, clocks, wake, asks, user, cb, proc>>

Exit ==
  /\ WorkerAt("exit")
  /\ state' = "closed"
  /\ wpc' = "broadcast"
  /\ UNCHANGED <<reconnecting, link, connect, clocks, wake, asks, user, cb, proc>>

\* ... and whoever waits for the connection is told
WorkerEnds ==
  /\ WorkerAt("broadcast")
  /\ Broadcast
  /\ wpc' = "ended"
  /\ UNCHANGED <<state, reconnecting, link, connect, clocks, wake, asks, arg, cb, proc>>

\* the worker of a client that was freed
UseAfterFree == UserAt("gone") /\ wpc \notin {"none", "ended"} /\ Segfault
-----------------------------------------------------------------------------
UserCall ==
  \/ \E a \in Apis, ok \in BOOLEAN : Connect(a, ok)
  \/ \E x \in Calls : Ask(x)
  \/ Destroy

\* what the user's thread goes on to do by itself
UserStep == CondWait \/ CheckTransport \/ Send \/ Disconnect \/ Wake \/ Join \/ Clear

\* what the worker goes on to do by itself in a callback, and after the loop
WorkerStep ==
  \/ Stop \/ Close \/ Reset \/ FailConnect \/ (\E ok \in BOOLEAN : Retry(ok))
  \/ StoreConnected \/ HandshakeReq \/ Exit \/ WorkerEnds

Timer == ReconnectTimer \/ HeartbeatTimer \/ \E t \in Timers : TimerExpires(t)

\* callbacks the loop makes whatever the network does
Due ==
  \/ CloseAsync \/ LoopEnds
  \/ \E x \in Calls, ok \in BOOLEAN : AsyncWrite(x, ok)
  \/ \E c \in Conns :
       \/ FreeTransport(c)
       \/ tp[c] = "closed" /\ (HandshakeWritten(c, FALSE) \/ AckWritten(c, FALSE) \/ HeartbeatWritten(c, FALSE))
  \/ \E x \in Calls : via[x] # None /\ tp[via[x]] = "closed" /\ Written(x, FALSE)

Network ==
  \/ \E c \in Conns, ok \in BOOLEAN :
       TcpConnected(c, ok) \/ HandshakeWritten(c, ok) \/ AckWritten(c, ok) \/ HeartbeatWritten(c, ok)
  \/ \E x \in Calls, ok \in BOOLEAN : Written(x, ok)
  \/ \E c \in Conns : (\E h \in Handshakes : HandshakeResp(c, h)) \/ HeartbeatRead(c) \/ ReadEnds(c) \/ BadPackage(c)
  \/ \E x \in Requests : Response(x)

Next == UserCall \/ UserStep \/ WorkerStep \/ Timer \/ Due \/ Network \/ UseAfterFree

Spec == Init /\ [][Next]_vars

(* The threads run, a timer expires, a TCP connection is made or refused in the
   end, the loop makes the callbacks that are due, and the two packages of the
   handshake fit in the empty buffer of the socket.  Nothing is assumed of the
   server, of later writes, or of the user's calls. *)
Fairness ==
  /\ WF_vars(UserStep) /\ WF_vars(WorkerStep) /\ WF_vars(Due)
  /\ WF_vars(HeartbeatTimer) /\ WF_vars(ReconnectTimer)
  /\ WF_vars(TimerExpires("timeout")) /\ WF_vars(TimerExpires("handshake"))
  /\ \A c \in Conns :
       /\ WF_vars(\E ok \in BOOLEAN : TcpConnected(c, ok))
       /\ WF_vars(\E ok \in BOOLEAN : HandshakeWritten(c, ok) \/ AckWritten(c, ok))

FairSpec == Spec /\ Fairness
-----------------------------------------------------------------------------
(* Correctness *)

Crashed == proc = "segfault"

\* no further connection is looked at
BoundReached == conn = ConnMax /\ "reconnect" \in armed

(* A client that was closed stays closed: none of the callbacks that store a
   state without looking revives it (pc_client_stop against pc__on_tcp_connect,
   pc__handshake_ack_cb and pc__client_reconnect_reset). *)
ClosedForGood == ~open => state \in {"closed", "disconnecting"} /\ armed = {}

(* Whenever the client works with heartbeats on, it waits either to send the next
   heartbeat or for the answer to the last one, and never for both
   (pc__heartbeat, pc__heartbeat_cb, pc__handshake_resp, pc__handshake_ack_cb). *)
HeartbeatWatched ==
  /\ ~({"heartbeat", "timeout"} \subseteq armed)
  /\ state = "working" /\ repeat /\ wpc = "loop"
       => {"heartbeat", "timeout"} \cap armed # {}

(* No connect request is called back twice, although four callbacks can call
   it, two of them after a pc_client_stop: once it was called it is neither
   called again nor kept for another call (pc__on_tcp_connect,
   pc__handshake_req_cb, pc__handshake_ack_cb; pc_connect). *)
ConnectToldOnce ==
  /\ \A c \in Conns : Len(told[c]) <= 1
  /\ \A c \in {conn_req, cb} \ {None} : told[c] = <<>>
  /\ cb # None => cb # conn_req

(* While a connection works, the map holds the requests written on it that still
   wait, and no other: one that is left would be called back again when the
   client is cleared (pc__request, pc__on_request, pc__process_response). *)
MapHoldsWaiting ==
  \A r \in Requests : via[r] # None /\ tp[via[r]] = "working" =>
    (r \in requests <=> phase[r] \in {"writing", "sent"} /\ answers[r] = <<>>)

(* One connection at a time is read and written, the client's transport, although
   a TCP connection of an earlier attempt may come up late (pc__on_tcp_connect,
   pc__client_reconnect_reset). *)
OneConnection == \A c \in Conns : tp[c] = "working" => c = transport

(* A request that was written is called back in the end: with its response, by
   the write that failed, or when the client is cleared (pc__request,
   pc__on_request, pc__client_clear). *)
WrittenIsAnswered ==
  upc = "gone" =>
    \A x \in Requests : phase[x] \in {"writing", "sent", "done"} => answers[x] # <<>>

(* Each request and notify is called back at most once, since its owner frees it then:
   what was answered is not answered again when the client is cleared.  The one
   exception is a request whose write was cancelled with its connection, which
   pc__on_request calls back and leaves in the map (pc__on_request,
   pc__process_response, pc__release_requests). *)
AnsweredOnce ==
  \A x \in Calls :
    \/ Len(answers[x]) <= 1
    \/ x \in Requests /\ answers[x] = <<"failed", "failed">> /\ tp[via[x]] # "working"

(* A working client whose server falls silent stops working (the heartbeat and
   timeout timers of pkg-heartbeat.c). *)
SilenceDetected ==
  <>[](state = "working" /\ repeat /\ ~Crashed) => []<><<\E c \in Conns : HeartbeatRead(c)>>_vars

(* pc_client_destroy returns: a client that is told to disconnect ends its
   worker (pc_client_disconnect, pc_client_stop, pc_client_join). *)
DestroyReturns == upc = "join" ~> upc # "join" \/ Crashed \/ BoundReached

=============================================================================
