# Verification of kod_robot

kod_robot is a headless client of the mobile game *kod*. It logs in to a pomelo
server the way the game does and plays by script, to put load on the server. It
is a C++ program with one embedded Lua state (the game's own client code) and
libpomelo, a C library that runs each connection in a thread of its own with
libuv.

## Inventory

### Components

| component | where | state | operations |
|---|---|---|---|
| bridge | `kod_client/CCPomelo.cpp`, `.h`, `CTimerHandle.h` | three queues with a mutex each, maps from request, notify and event to the Lua callback, `task_count`, `connect_status`, `connect_content`, `client`, `running` | `asyncConnect`, `request`, `notify`, `addListener`, `removeListener`, `cleanup`, `stop`; the libpomelo callbacks; `dispatchCallbacks` |
| event loop | `kod_client/main.cpp` | a socket pair, `stop_server`, `time_out` | `client()`: `select`, `recv`, `tick`, `Run`; `sig_handler`; the end of `main()` |
| Lua bindings | `kod_client/LuaExtension.cpp` | none | marshalling of arguments and callbacks |
| net service | `app/service/NetService.lua`, `NetManager.lua` | `net_state`, `event_map`, the login sequence | connect, disconnect, request, notify, listeners |
| robot | `kod_client/main.lua`, `app/MyApp.lua`, the `*Api.lua` files | `running`, the list of functions to call | `Run`, `RunAI`, the functions of the scripts |
| promises | `app/utils/promise.lua`, `cocos_promise.lua` | state and handlers of a promise | `next`, `done`, `fail`, `resolve`, `reject` |
| libpomelo client | `libpomelo/src/client.c`, `network.c`, `transport.c`, `thread.c`, `listener.c` | `state`, `requests`, `listeners`, timers, transport, `reconnecting` | connect, request, notify, stop, disconnect, destroy, join, reconnect, listeners |
| handshake, heartbeat, protocol | `pkg-handshake.c`, `pkg-heartbeat.c`, `protocol.c` | timers, heartbeat interval, dictionaries, the cipher's key | the handshake, heartbeat and its timeout, response and push processing |
| package parser | `package.c` | header and body read so far | `feed`, `encode` |
| message codec | `message.c`, `msg-json.c`, `msg-pb.c`, `pb-*.c` | none | encode and decode |
| map | `map.c` | buckets | set, get, delete |
| timer list | `list_timer.h` | sorted list | add, adjust, delete, tick (no file includes it) |
| data structures | `Minheap.lua`, `DiffFunction.lua`, `Timer.lua`, `Observer.lua`, `AutomaticUpdateResource.lua` | | heap, delta decoding, observers |
| game entities | `app/entity/*.lua`, the `*Api.lua` files | the player's data | game rules |

Vendored, generated or copied, and left aside: `lua`, `tolua`, `cjson`,
`libopenssl` and `openssl*`, `libpomelo/deps`, `bin/Debug` and `bin/Release`
(copies of the Lua tree), `resource`, `app/datas`, and the user interface
(`app/ui`, `widget`, `sprites`, `layers`, `scenes`).

### How they interact

Lua calls the bridge through the bindings, on the main thread. The bridge calls
libpomelo on the same thread; libpomelo hands a request or notify over to the
client's worker thread. The worker calls the bridge's
`cc_pomelo_on_*_cb` callbacks, which put an item in a queue, increment
`task_count`, resume the timer handle and write a byte to the socket pair. The
main thread waits on that socket pair, and every byte, and every second without
one, is a tick: while the timer handle runs, a tick dispatches at most one notify, one
event, one response and one connect result to Lua. Lua runs *with the mutex of
the queue held*, and may call the bridge again. `sig_handler` writes to the same
socket pair.

### What is hard

* `connect_status` and `connect_content` are shared without a lock, and
  `task_count` and `running` are updated one after the other: a wake-up could be
  lost, or a count drift.
* Four kinds of things block: the queue mutexes, libpomelo's listener mutex
  (held around the event callback), the join of a worker in
  `pc_client_destroy`, and a full socket pair. Whether they form a circle depends
  on what Lua calls from which callback.
* Clients, contents and the bridge are freed while worker threads run.
* Answers of a connection that is closed, lost, or never completed.
* In libpomelo: `state` is stored under a mutex by the user's thread and mostly
  without one by the worker, which reads it, acts and stores it later; a request
  can be called back by the write that failed, by the response, and by the clearing of the
  client; four callbacks can call a connect request back; timers end a
  connection or start the next one.
* In the scripts: a function that makes a request has to see that `running` is set again, through every way the
  answer may go; and requests that no function waits for are owed while the next ones run.

`PROJECT.json` lists each of these hazards at its line, with the properties that
cover it.

### What makes each component correct

* bridge and event loop: the counter is exact, no wake-up is lost, each answer
  is delivered once and in order, the callback of an answer that is owed is kept,
  Lua's calls return, a client is freed after its worker.
* libpomelo client: a request is called back once; a stop ends the worker; a closed client stays
  closed; the map of requests holds what still waits; a connect request is called back once; one
  connection at a time is used.
* handshake and heartbeat: a silent server is noticed; the two heartbeat timers take turns.
* package parser: the packages found do not depend on how the stream is cut, and none waits for
  a byte that need not come.
* message codec and protocol: the server reads what was asked, an answer finds its request, a push
  its route, however many bytes an id takes and whatever the order.
* robot and promises: it logs in at the right server and before it plays, one function of the
  scripts is waited for at a time, whatever the requests do that none waits for, no promise is forgotten, an error is
  taken by who waits for it, and the robot goes on.
* player's data: the copy follows the server's.

## Modules

| module | models |
|---|---|
| `PomeloBridge` | the bridge, the event loop and the part of `NetService` that keeps `net_state`, over what they rely on of libpomelo |
| `CallbackMailbox` | what the bridge promises, without threads: a FIFO mailbox per kind of callback |
| `PomeloBridgeProofs` | theorems about `PomeloBridge` |
| `MCBridge` | its instance for TLC |
| `PomeloClient` | one client of libpomelo: the user's thread, the worker's libuv callbacks, the handshake, the heartbeat, requests and notifies, reconnection |
| `PomeloClientProofs` | theorems about `PomeloClient` |
| `PomeloClientAskProofs` | theorems about its calls and its heartbeat timers |
| `MCClient` | its instance for TLC |
| `PackageParser` | the incremental parser of packages, and the reads that feed it |
| `PackageChannel` | what the parser promises: a channel of packages |
| `PackageParserProofs` | theorems about `PackageParser` |
| `MCParser` | its instance for TLC |
| `PomeloWire` | messages on the wire: ids, routes, the dictionary, the cipher, and how an answer finds its request |
| `PomeloCodecProofs` | theorems about its encoding |
| `PomeloWireProofs` | theorems about its behaviours |
| `MCWire` | its instance for TLC |
| `Promise` | the promises of the scripts |
| `Robot` | the robot over them: connecting, logging in, `Run`, the functions of the scripts |
| `RobotProofs` | theorems about `Robot` and `Promise` |
| `MCRobot` | its instance for TLC |
| `PlayerData` | the copy of the player's data and the two queues its changes come through |
| `PlayerDataProofs` | theorems about `PlayerData` |
| `MCPlayerData` | its instance for TLC |

`PomeloBridge` and `PomeloClient` are about threads; the others about what flows through
them. `PackageParser` relies on TCP, `PomeloWire` on a package arriving whole, `Robot` and `PlayerData` on
what `CallbackMailbox` says of the bridge: one callback at a time, each queue in order.

### PomeloBridge

The main thread is a program counter, `mpc`: `select` and `bytes` are the loop of
`client()`; `lock`, `callback` and `unlock` dispatch the queue `kind`; `connect`
and `connected` are `connectCallBack()`; `check` and `pause` are the end of
`dispatchCallbacks`; `run` is Lua's `Run`. In `callback`, `connected` and `run` Lua
may make any of its calls, in any order and number. A call that can block
leaves Lua: `listener` is a registration, a removal or the `cleanup` of a
disconnect, waiting for the listener mutex; `destroy`, `disconnect`, `join` and `release` are
`pc_client_destroy`. `pending` remembers where the call returns to.

Each client has a worker with a program counter of its own, `wpc`: a callback
begins from `idle`; the connect callback goes through `content`, the others through
`lock` (for the queue), and then `inc`, `resume`, `unlock` and `signal`. Every access
to shared state that is not protected by a mutex throughout is a step of its own;
`connect_status` and the status behind it are two. `task_count_mutex` is held in one
place for two operations, the test and the pause at the end of
`dispatchCallbacks`: there it is modelled by `TaskCountMutexFree`.

libpomelo is kept to the state of a client, the answers it owes (`inflight`), its
listeners, and the listener mutex. CONNECTED is part of `connecting`: a client
that has a TCP connection still owes the connect callback until the handshake is over.
Undefined behaviour is a choice: a store through a null
`connect_content`, a callback under way while the bridge is deleted, a worker whose client was
freed, and `uv_async_send` through a `close_async` that the worker has freed may end the process
(`UseAfterFree`, `DisconnectClient`) or go unnoticed.

What Lua does is bounded by what the code does, through constants:
`ListenerContexts` and `DisconnectContexts` are the callbacks it is called from when it adds and removes listeners
(`InitEventsMap` after a connect, `CleanAllEventListeners` in the callback of
`queryEntry`) and disconnects (in that same callback, and in `onKick`, an event
callback). `QuietDisconnect` says that it disconnects only once its requests are answered, as
the login sequence does.

`ServerMayClose` lets a connection end without being asked to. Data is abstract:
routes, messages and results are model values, and the status of a request is
the choice whether `NetService` takes it for a failure.

### CallbackMailbox and the refinement

The mailbox has a queue for each kind of callback (`box`), the calls made
(`asked`), those whose answer has not entered a queue (`owed`) and whether the process
is `down`. An answer enters its queue once, only when it is owed; an event enters as
often as the server likes; each queue is emptied in order, and unless the process
goes down what has entered is taken out. `ImplementsMailbox` is
that specification, fairness included, under the mapping at the end of
`PomeloBridge`: what the worker carries to a queue is still owed.

### PomeloClient

The user's thread (`upc`) connects in one of three ways, asks, and destroys the client; the worker
(`wpc`) runs the libuv loop. libuv makes one callback at a time, so a callback is one
step from `loop`, except where it reads `state` or the transport and stores later: `pc__on_tcp_connect`
(`TcpConnected`, `StoreConnected`), `pc__handshake_req` (`HandshakeReq`), `pc_client_stop` (`Stop`, then
`Close` or `Reset`) and the reconnect timer (`ReconnectTimer`, `Retry`) are cut there, because `pc_client_disconnect` on the
other thread may store `PC_ST_DISCONNECTING` in between. What follows a `pc_client_stop` in a callback, the
failure of a connect request, is remembered in `cb`.

On the user's thread, `pc_request` is cut where it looks at the state (`Ask`), at the
transport (`CheckTransport`) and where the worker learns of it (`Send`); `pc_client_destroy` is `Destroy`,
`Disconnect`, `Wake`, `Join` and `Clear`.

| state | in the code |
|---|---|
| `state`, `reconnecting`, `transport`, `conn_req`, `requests` | the fields of `pc_client_t` |
| `tp` | `pc_transport_t.state` of each TCP connection the client opened; `freed` after `pc__tcp_close_cb` |
| `tcp`, `writes` | libuv's connect and write requests under way |
| `armed`, `repeat`, `open`, `wake` | the timers that run, whether the heartbeat has an interval, whether the handles are open, `close_async` |
| `phase`, `via`, `answers`, `told` | each call: how far it is, its transport, and the statuses its callback was called with; the same of connect requests |

A pointer that was freed or is NULL may end the process or go unnoticed:
the transport in `pc__async_write`, `close_async` in `pc_client_disconnect`, the handshake timer, the
transport that `pc__heartbeat_req_cb` takes for a client, a thread that was never created,
a client freed under its worker. `Handshakes` are the answers of a server: with heartbeat (`beat`), without
(`quiet`), or refused (`bad`). A read brings one package. The length of a
delay, the events that are only emitted, encoding and DNS are left out. libuv is the
0.10.27 of `libpomelo/deps`: a loop lives while a handle that is active and referenced is open.

### PackageParser and PackageChannel

`stream` is what was written on the connection, a sequence of bytes; a read (`TcpRead`) puts any
number of them in a buffer that ends at `nread`. `PkgHead` and `PkgBody` are one call of `pc__pkg_head` and
`pc__pkg_body`; `at` says where the loop of `pc_pkg_parser_feed` is: `body` after a head that was completed, because
`pc__pkg_body` then follows without a look at the bytes left, which is what makes an empty body come
through. `head`, `pkg_size` and `pkg_buf` are the parser's fields; `pos` is `data + offset`. The bytes of a length are the
digits of a number to the base `Radix`, 256 in the code. `starts` remembers where each package begins.
`pc_pkg_encode` refuses a body of `PC_PKG_MAX_BODY_BYTES`, which `Packages` leaves out.

`ImplementsChannel` is `PackageChannel`: what is called back is the next package that was written. That
channel promises nothing about progress; `NothingHeldBack` and `EverySentIsCalled` do.

### PomeloWire

The user makes requests and notifies, the worker writes them in any order (`WriteRequest`, `WriteNotify`: libuv
takes up asynchronous handles as it likes), the server answers in any order and pushes. A message is a sequence of
bytes, encoded and decoded as `message.c` does; `Half` is half the values of a byte, 128 in the code.
The server's dictionary is the constant `Dicts`, and `code_to_route` keeps the low byte of a code (`LowByte`).
The cipher is an involution that masks: with a key, what was written in clear is masked by the
reader. Bodies are opaque. `Parsed` lists what makes `pc__default_msg_parse_cb` return NULL, which stops the client.

`WireAssumption` says what the server must keep to: a route without a code is shorter than
`Half`, since `pc_msg_decode` reads its length into a signed char (`message.c:168`), and the low bytes of its codes differ.
Of the user it says that a route he calls without a code is shorter than `Byte`, the length that `pc_msg_encode_route` writes. Ids are
numbers without end: the 2^32nd request of a process, where `pc__req_id` would begin again, is left out.

### Promise and Robot

A promise is a record of its fields; `eng` is where `repeat_resolve`, `handle_next_failed` and
`complete_and_pop_promise` are, and for which promise. A step is one turn of their loops, or the call of one
function. Functions in promises are names; the actions of `Robot` are their bodies: a body says whether it
returned a value, a promise it made, or threw (`Returned`, `Promised`, `Threw`, and `Ran`, `Aborted` for handlers,
which are called without protection). `over` remembers the promises that are through. A promise that waits is in `next_promises` of the one it waits
for, of which only the first is ever told.

`Robot` has the promises the program makes: `run` (the gate), `entry`, `logic`, `login`, `init`, `send`, and those of the scripts.
`Run` is called in a quiet second: `Login` if `couldLogin` is set, else `RunFunction`, the next function of a group. Such a function does nothing,
fails, or makes a request (`AskSomething`), and `running` is set again in one of three ways:

* The promise is returned, and `always(setRun)` put on it: `api`. Its answer may be a function that makes another request and returns it, so
  that `api` waits (`api2`, `DailyQuests`), or a handler that makes requests nobody waits for: `EnterMapIndex` (the map is left, and the alliance moved
  or attacked) and `BuyItem` (`TradeGuild`).
* The promise is not returned, and the wrapper calls `setRun` at once: `aside`, of `ApproveOrRejectJoinAllianceRequest`, `RequestToJoinAlliance` and
  `InviteToJoinAlliance`. The last two read the chat (`ReadChat`), and ask again (`aside2`, `Apply`). Their loops over the chat go on only where no request was made, so that
  an answer makes one at most.
* `JoinAlliance` fetches a page of alliances (`fetch`), and the done handler of that calls `setRun`, joins one (`join`, with `always(setRun)`), or fetches the next page
  (`fetch2`, in turns with `fetch`). It has no fail handler.

The names of promises that are through are used again: a function that asks takes those back that nothing refers to (`Free`). A request that no
function waits for is made only while few others are owed (`AsidesFree`, `MaxOwed`), a bound.

`owed` are the promises whose callback the bridge owes. `Faults` are what may go wrong:
a connection refused or lost, `onKick`, a server's code that is not 200, a delta that does not fit, an error in a script.
`harm` remembers the faults that the robot does not survive. The stubs of the program are modelled as what they do: `performWithDelayGlobal` calls nothing, and
`scheduleGlobal` sets `running`.

### PlayerData

`server` is the server's data, a field and a list; `user` the robot's copy. A change sets the field, or sets, appends
or removes an item by its index, as `DiffFunction.lua` does it: an index past the end leaves a hole, and `#list` is then any of the
borders (`Borders`), which is what Lua says of it; `table.remove` with one of them moves the holes below it up with the items. `Receive` puts a message in the queue of events or of answers,
`DispatchEvent` and `DispatchAnswer` take turns. `overtaken` remembers whether a message was dispatched
before an earlier one that matters to it.

## Runs

| run | question | result |
|---|---|---|
| `counters` | types; `task_count` is exact (`TaskCountAccurate`); no wake-up is lost (`NoLostWakeup`); the callback of an answer that is owed is kept (`CallbackKept`) | holds |
| `gate` | the main thread never waits in a circle (`NoDeadlock`) when Lua calls from connect and response callbacks, and disconnects when nothing is asked | holds |
| `delivery` | the bridge implements the mailbox (`ImplementsMailbox`), Lua's calls return (`LuaCallsReturn`), and each connection attempt is answered unless its connection ends during the handshake (`ConnectAnswered`), also when connections end without being asked to | holds |
| `client` | a closed client stays closed (`ClosedForGood`), the heartbeat timers take turns (`HeartbeatWatched`), a connect request is called back at most once (`ConnectToldOnce`), the map holds what waits (`MapHoldsWaiting`), what was written is answered (`WrittenIsAnswered`), and once but for a cancelled write (`AnsweredOnce`), a silent server is noticed (`SilenceDetected`), `pc_client_destroy` returns (`DestroyReturns`) | holds |
| `client_reconnect` | over three connections, one is used at a time (`OneConnection`), and no connect request or request is kept past its callback | holds |
| `parser` | the packages called back are those written (`PackagesIntact`, `ImplementsChannel`), none is held back between two reads (`NothingHeldBack`), each comes in the end (`EverySentIsCalled`) | holds |
| `robot` | one function is waited for at a time (`OneCallAtATime`), none asks before the login (`LoggedInFirst`), each request at its server (`RightServer`), no promise that is waited for forgotten (`NoPromiseForgotten`), the login's errors taken (`LoginErrorsTaken`), and the robot goes on but for the faults it does not survive (`GoesOn`) | holds |
| `wire` | the server reads what was asked (`ServerReadsCalls`), answers and pushes reach who they are for (`RightAnswer`, `RightEvent`), a correct server never has the client stopped (`NeverStopped`), answers arrive (`AnswersArrive`) | holds |
| `player_data` | when nothing is on the way the copy is the server's data, unless messages overtook each other (`DataCurrent`) | holds |
| `kicked` | Lua's calls return when it disconnects from an event callback | violated |
| `closed_by_server` | a client is freed after its worker (`FreedAfterJoin`) | violated |
| `connect_status` | the status of the connect callback is one libpomelo gave | violated |

Exemptions. Some properties leave out, by name, behaviours for which the code does not keep them; each is
listed under "Disagreements" or below. `ConnectAnswered` leaves out attempts whose connection ended in the handshake,
`AnsweredOnce` the pair of failures of a request whose write was cancelled, `ServerReadsCalls` a notify on an
encrypted connection, `DataCurrent` messages about the same key of which the later one was dispatched first, `OneCallAtATime` and `NoPromiseForgotten`
the requests that no function waits for, and `GoesOn` a call that is never answered, a list of alliances without end
and the faults in `harm`. `NoDeadlock` is checked where the socket pair never fills, and `WireAssumption` excludes long routes and codes with the same low byte. None of
these says anything of the hazard it leaves out: `PROJECT.json` lists that one without a property.

Bounds. `counters` has two clients, one after the other, because a count drifts
when two attempts overlap; a socket pair of two bytes with a one-byte buffer, so
that it is full, and read in pieces; Lua calls from event callbacks as well,
since none of its invariants depends on the context. `gate` has one client, two
requests, a notify and an event besides the disconnect event, so that calls are still
under way when another one's callback runs. `delivery` has one client, a request
and two events: liveness is dearer. `QueueMax` bounds the events that wait when another one
arrives; each request and notify object is used once. `PipeMax` is larger in the
runs about waiting and progress: how many bytes fit in a socket pair is the
kernel's, and a full pair is one of the hazards, looked at in `counters`. In `delivery`, a client that ends by itself
is freed without a join and may crash its
worker, which the mailbox takes for the process going down. `CHECK_DEADLOCK FALSE` is in every configuration: the process ends, and
the limits on calls let a behaviour end too.

`client` has two requests and a notify, so that one can be written while another one is
answered or left in the map, and all three ways to connect; without reconnection a client has one connection in
its life. `ConnMax` bounds the connections of a client that reconnects: three, so that the connection
of an earlier attempt, one that is being closed and a new one overlap. The liveness properties except
the behaviours that end in a crash, and those that reach the bound (`BoundReached`).

`parser` has bytes of two values and three packages (`SendMax`), with an empty body, a short one, the longest that three digits can
say and one that is refused; every way to cut the stream is a behaviour, and three packages are a read that ends in one,
goes through one and begins another. `robot` has every fault, groups of three functions (`GroupSize`: `setRun`, one that
asks, and the last), and makes a request that no function waits for when no other is owed (`MaxOwed` is 0), so that up to two of them are owed while the
next functions ask, chain and fetch; nothing else is bounded: the promises are made again and again. `wire` has digits of ids to the base 4,
and counters that begin at 0, 2 and 14, so that ids take one, two and three bytes and cross each boundary;
two requests, a notify and two pushes, one of which is too long for the length of a route; dictionaries with codes of one byte and of two.
`player_data` has a list of at most two items and five messages (`SendMax`): a removal, an append and a change of the item
that moved, in answers and pushes.

Fairness (`Fairness`). Threads run (weak fairness of the main thread's own
steps, strong fairness of a worker's steps because it competes for mutexes, and
of the steps of the main thread that wait for one). Lua's callbacks return: the scripts do
not loop for ever, and a call that blocks is not Lua's step. A connection attempt gets an
answer or ends, since libpomelo's handshake timer and TCP do. The loop of a client that was
told to disconnect comes round. Nothing is assumed of the server, of signals or of what Lua decides to call.

In `PomeloClient` the threads go on with what they have begun, each timer that runs expires in the
end, the loop makes the callbacks that are due (asynchronous handles, cancelled writes, closed handles), a TCP
connection is made or refused, and the two packages of the handshake are written or fail, since they
fit in an empty socket buffer. Later writes may stay pending, the server may be silent, and the
user need not call anything.

In `PackageParser`, bytes that have arrived are read and the loop of a feed goes on. In `PomeloWire`, the loop takes up what is
queued and reads what has arrived; the server need not answer. In `Robot`, Lua's functions return, and a second
without a byte comes in the end; under steady traffic (`main.cpp:651`) it need not, and then the robot does not play.

### Disagreements

1. `connect_status`. `connectCallBack(int)` sets the flag before the status. The main
   thread can dispatch in between: it reports an uninitialised status, deletes
   `connect_content`, and the worker then stores through a null or stale pointer.
   Needs a tick at that moment, so an attempt made in a request's callback.
2. `kicked`. `onKick` disconnects from an event callback. The main thread holds the event
   queue; the worker emits another event, holds the listener mutex and waits for the event queue.
   The main thread's `cleanup` waits for the listener mutex, or the join for the worker.
3. `closed_by_server`. `pc_client_destroy` skips the join when the state is CLOSED, but `pc_client_stop`
   stores CLOSED long before the worker is through: it still runs the loop's last callbacks and emits the disconnect event, on
   a client that is freed.

The models also reach these, which no run is about:

* A connection that ends between the TCP connect and the end of the handshake is stopped without calling the
  connect callback. `connect_content` stays, so that each later `asyncConnect` is dropped.
* A write that is cancelled because the transport was closed calls its request back with -1 and leaves it
  in `client->requests`; clearing the client calls it back again. By then the user may have freed it.
* When the transport stops between `pc_request` and the worker's turn, the callback gets the status of the async handle,
  0, for a request that was never sent.
* With reconnection, `pc__client_reconnect_reset`, `pc__on_tcp_connect` and `pc__handshake_ack_cb` store a state over DISCONNECTING;
  `pc__close_async_cb` then reconnects, and the join of `pc_client_destroy` waits for ever.
* SIGTERM ends the loop; `main()` deletes the bridge, and the clients and their workers go on until
  the process exits. A callback in that moment fails the assertion of `GetPomeloByIndex` (`AssertFails`).
* `pc_request` checks the transport and registers its async handle later. A loop that ends in between
  never looks at the handle, and the accepted request is never called back (`Send` after `LoopEnds`).
* The socket pair has a capacity, and both ends are blocking. A disconnect joins a worker that may be waiting in `send` for the
  main thread to read; the other workers' bytes, or `sig_handler`'s, must have filled it (`SendSignal`, `JoinWorker`).
* `pc_client_connect` waits on a condition without a predicate. The worker may have failed and
  broadcast before it waits (`WorkerEnds` before `CondWait`).
* `pc_client_stop` returns at once during a reconnection. A handshake that is refused or times out
  during one ends there: no timer is left and the connect request is not called back (`Stop`).
* `pc__notify` does not call the cipher that `pc__request` calls (`network.c:334`): with a key, the server cannot
  read a notify (`WriteNotify`).
* Events are dispatched before answers. A push that is dispatched before the answer to the login finds the game not
  initialised and is dropped (`NetManager.lua:404`); a change of a list that overtakes another one
  is applied to the wrong item (`DispatchEvent`).
* An error that no promise takes trips the assertion at `promise.lua:117` (`Uncaught`). Where the scripts put `always(setRun)` that has been called by
  then, and the robot goes on; where no function waits for the promise it has gone on already. For a page of `JoinAlliance` that is refused
  (`AllianceApi.lua:704`) nothing calls `setRun`: `running` stays false, on a connection that works (`CheckRequest` of `fetch`).
* Without a connection, `NetService:request` leaves its callback to `defer`, and the stub of `performWithDelayGlobal`
  never calls it; with a connection that was lost, `pc_request` refuses. `main.lua` (lines 141 and 142) replaces the timeouts.
  Either way `running` stays false (`Request`).

The robot creates its clients with `pc_client_new` and connects with `pc_client_connect2`: what is said of reconnection and of
`pc_client_connect` is about calls of libpomelo that it does not make.

Read in the code beside these, and not in the models: `DiffFunction.lua:53` drops a change of a key of the player that is not there or is
false; the loop at `NetManager.lua:407` removes from the list it goes through, so that the entry after a
report is skipped; `pc__req_id` at its wrap would give a request the id of a notify; the length of the
key exchange's secret is taken by `strlen`; `lockConnectContent` unlocks (nothing calls it).

## Proofs

`PomeloBridgeProofs` proves, for any number of clients, calls and events, any capacity of the
socket pair and any contexts, from the assumptions `BridgeAssumption` on the constants:

* `TypeCorrect`: `Spec => []TypeOK`. The strengthening is `TypeInv`, which adds what a
  worker carries in each place of a callback and that a call under way knows where it returns to.
* `CounterCorrect` and `WakeupNeverLost`: `Spec => []TaskCountAccurate` and `Spec => []NoLostWakeup`.
* `CallbackKeptAlways`: `Spec => []CallbackKept`.
* `BridgeStepsLikeTheMailbox`: `Spec => Mailbox!Init /\ [][Mailbox!Next]_(Mailbox!vars)`, the safety of `ImplementsMailbox`.
* `NoCircleOfMutexes`: `Spec => [](Len(pipe) < PipeMax => NoDeadlock)`, if Lua adds and removes listeners from no event callback, and
  disconnects neither from a notify nor from an event callback, and only once its requests are answered.

The counters need `IInv`. `task_count` being exact depends on the connect flag, which is set
by a worker and cleared by the main thread: `ConnectInv` says that while a client is connecting its
result is not announced, that there is one attempt at a time, and that the connect callback runs
only with an announced result. `NoLostWakeup` depends on the count: a
pause finds `task_count = 0` (`PauseInv`, from the mutex), so by
`TaskCountAccurate` as many workers have something uncounted as items wait, and each of them is about to
resume the handle. The steps that touch neither counter nor queue are dealt with once
(`BusyOrCalm`), the others one by one. `CallbackKeptAlways` needs `KeptInv`: `OwedInv` says that a call is owed an answer by one client,
and by none once its answer is carried by a worker or in a queue, so that the dispatch of an answer erases a callback
that nothing waits for; a new client owes nothing, and `StopInv` says that only a disconnect destroys a client. The refinement adds `PlaceInv`:
one worker carries an answer, and it is in no queue before that worker has put it there, so that it is owed no more once it enters.

`NoCircleOfMutexes` needs `HoldInv`, who holds each mutex and what it is at work with; `BackInv`, from which callback the call under way was made; and
`QuietInv`: a request on its way from the client, owed or carried by its worker, has its callback, so that a disconnect with no callback of a request left
joins a worker that wants no queue of requests, and releases no request under a mutex. Then whom the main thread waits for waits, if at all, for a
worker that holds a queue, and such a worker waits for nobody. The three premises are what the run `gate` is instantiated with. Each is needed: without any of them TLC finds a circle
in that instance, with a second notify for disconnects from a notify's callback (`kicked` is the run about disconnects from event callbacks). The socket pair must have room: the main thread, which alone reads it, may wait in `join` or `listener` for a worker that
is about to write its byte. With a `PipeMax` of 2 TLC finds that circle; `gate` has a pair that its calls cannot fill.

TLC checks `TypeOK`, `TaskCountAccurate`, `NoLostWakeup` and `CallbackKept` in the run `counters`.

`PomeloClientProofs` proves, for any number of calls and connections, any behaviour of the server and, but for the
third theorem, with or without reconnection, from `ClientAssumption`:

* `ClientTypeCorrect`: `Spec => []TypeOK`, and `OneConnectionOnly`: `Spec => []OneConnection`, from the
  inductive `IInv`. The types need `LinkInv`: a heartbeat and a handshake are written on `client->transport`,
  which is there because the state is WORKING, or the worker is between `pc__on_tcp_connect` and the
  handshake. A client that is INITED or CONNECTING has no transport, which is why the next one is the only one.
* `ClosedStaysClosed`: `Spec => []ClosedForGood` when reconnection is off. `ClosedInv` adds that a closed client has no
  transport, no timer, and no callback half-way to a store of its state.
* `ConnectToldOnceOnly`: `Spec => []ConnectToldOnce`. The heart of it is `TcpInv`: one TCP connection is
  under way at a time. A second attempt needs a `pc_client_stop` that reconnects, and while a TCP
  connection is under way each stop finds the client disconnecting, or reconnecting already: the timers that are left run only
  in a reconnection, and nothing runs on a client that was closed. `ToldInv` then says that
  whatever may still be told of (the attempt under way, `conn_req`, the failure that follows a stop, the transport
  whose handshake is not sent) was not told yet, and that they are not the same.

`PomeloClientAskProofs` goes on from there, under the same assumptions:

* `MapHoldsWaitingAlways`, `WrittenIsAnsweredAlways` and `AnsweredOnceAlways`, from `PathInv` and `AskInv`. `PathInv` is the life of
  a transport: connecting, working, closed, freed, none of which is taken back. `AskInv` says, for each phase of a call
  and for whether it is in the map, what it was called back with: a request in the map has not been called back, unless its write was
  cancelled. A request leaves the map with its callback (the response, `pc__client_clear`, the reset of a reconnection), and
  the map is empty when the client is gone.
* `HeartbeatWatchedAlways`, when reconnection is off. `BeatInv` adds that a transport whose handshake is over and which has an
  interval has one of the two timers armed, or the worker has begun to stop the client.

TLC checks these properties in `client` and `client_reconnect`.

`PackageParserProofs` proves, for any packages, any number of them, any base of the bytes and any way to cut the stream,
from `ParserAssumption`:

* `PackagesIntactAlways`: `Spec => []PackagesIntact`, from the inductive `IInv`. `WireInv` says where each package lies in the stream
  (`starts`); `PlaceInv` says that the parser is in the package after those it has called back, at the byte that what it holds
  ends with; `HeldInv` that what it holds, `head` and `pkg_buf`, is that piece of the stream. The arithmetic is that three
  digits of a length give it back (`PkgLength` of `LenBytes`), by a division with remainder for each digit.
* `ParserTypeCorrect`, `NothingIsHeldBack` and `ParserImplementsChannel` follow from it: a parser at rest whose place
  is in a package has not got its last byte, and the package handed over is the next one.

`PomeloCodecProofs` and `PomeloWireProofs` prove, for any `Half`, dictionaries, routes, bodies and number of calls that keep to `WireAssumption`:

* `IdRoundTrip`, `RouteRoundTrip`, `CodeRoundTrip`: what `message.c` encodes it decodes again. `EncodeId` and `Value` are recursive
  functions. That they are what their equations say (`EncodeIdIs`, `ValueIs`) is proved with the least number for which it
  fails (`Least`, from the order on `Nat` being well founded), and so is that the digits of an id end at the first without a continuation bit and make
  the id (`IdDigits`). The rest is where the parts of a message lie (`MessageParts`, `IdEnds`).
* `WireTypeCorrect`, `ServerReadsWhatIsAsked`, `AnswersAreRight`, `EventsAreRight`, `ClientNotStopped`: the five invariants of
  the run `wire`, from the inductive `WireInv`. It says of each message on the way what was written (`IsCall`,
  `IsAnswer`, `IsPush`), that `code_to_route` inverts the dictionary (`WireDict`), that ids are one request's only (`WireIds`), and
  that a written request is in one place, on the way to the server, with it, or on the way back, and in the map as long as it is (`WirePlaces`).
  Without the last an answer could come twice, and the second stop the client.

`RobotProofs` proves the six invariants of the run `robot` (`RobotTypes`, `OneCall`, `AfterTheLogin`, `TheServer`, `NoneForgotten`,
`TheLoginTakesErrors`) for groups of any number of functions, any set of promises that has those of the program, and any faults, from
`RobotAssumption`. The inductive `IInv` has two layers:

* `Core` is about the engine, whatever the functions of the promises do. `ListsInv`: what a promise has left to call is the
  end of the lists it was made with, so that the number left says which function is next. `EngineInv`: whom `repeat_resolve`,
  `handle_next_failed` and `complete_and_pop_promise` are at work for, and how far that one is. `WaitInv`: a promise that a function made
  is waited for by the one whose function it was, which waits for no other. This is where a promise could be forgotten, since
  `complete_and_pop_promise` tells only the first that waits.
* `OwedInv`, `RunInv`, `LoginInv`, `ScriptInv` and `GoingInv` are the stages of the robot, as numbers of functions left: an answer is owed
  to a promise that is pending; the gate is left by the last function of `run`; the player is there when `login` has come to its last six
  functions. `ScriptInv` is about what a function waits for (`Heads`: `api`, `join` and the pages): while one of these is not through `running` is not set, and it is the only one,
  except in the moment between its last handler and the end of its promise (`Ends`), when `running` is set already, or the next page asked for. `GoingInv` says of a pending promise that its
  answer is owed, or harm was done.

The steps of the engine are proved once for each of its places (`Core`), and the bodies of the functions once each, with the parts of
`AppInv` below them. What a handler or a function of the scripts makes is dealt with once (`IsMade`, `MakingStep`, `MakingKeeps`): the promises it makes and the names it takes
back have nobody that waits for them, and a name that is taken back is owed no answer.

`PlayerDataProofs` proves `DataTypes` and `CopyIsCurrent`, the invariants of the run `player_data`, for any values, any length of the list and any number
of messages, from `DataAssumption`. The state says too little for `DataCurrent` to be inductive: what a change means depends on the data it was made
to. `IInv` therefore says that there is a history, `h` and `log`, with the data before each message and the message
(`HistoryInv`); the proof gives it in each step. `OrderInv`: the wire and the two queues are sorted, what is on the wire is younger than what waits in a queue,
and each message is the one in `log`. `CutInv`, for the field and for the list: the copy is the data as it was before some message,
the cut; whatever is on the way about that key is not older than the cut, and between two messages on the way that key did not change. A
message that overtakes nothing is the first of its key, so that applying it is what the server did (`ApplyFits`, where the server's list has no
holes and `table.remove` is `RemoveAt`), and the cut moves past it.

Out of the prover's reach: the liveness properties (`LuaCallsReturn`, `ConnectAnswered`, `SilenceDetected`, `DestroyReturns`, `EverySentIsCalled`, `AnswersArrive` and
`GoesOn`) and the fairness of the mailbox, which is part of `ImplementsMailbox`. Only model-checked, besides: `NoDeadlock` without the room in the socket pair,
which in `gate` is never full.

## Not modelled

* Composition of `PomeloBridge` with `PomeloClient`: each has what it relies on of the other in it, and the
  product of the two is out of TLC's reach.
* `map.c`, a hash table that is used as a function; `list_timer.h`, which no file includes; `Minheap.lua`, `Observer.lua` and
  `AutomaticUpdateResource.lua`, sequential and part of the game's user interface.
* The protobuf and JSON codecs, the ciphers and the key exchange: conversions of bytes.
* `pc_client_connect4`, the DNS, and the length of the reconnect delay, which nothing here depends on.
* `promise.all`, `promise.any` and `ignore_error`: `main.lua` replaces `promiseWithTimeOut`, their only user.
* The game's entities and what the scripts decide to do, which is data to the robot; mails and reports, of which it keeps a part.
* The Lua bindings, which marshal arguments.
* The multi-threaded build of `main.cpp` (`MULTI_THREAD` is 0), where several bridges would share the event loop's code.
