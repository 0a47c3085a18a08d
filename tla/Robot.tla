------------------------------- MODULE Robot -------------------------------
(***************************************************************************)
(* The robot: Run and RunAI, the connecting and logging in of NetManager,  *)
(* the requests of NetService and the functions of the *Api.lua files,     *)
(* over the promises.                                                      *)
(*                                                                         *)
(* All of it runs on the main thread.  The bridge is what it promises Lua: *)
(* the callback of a call that was made is called once, after Lua has      *)
(* returned, if the call is answered at all.  A promise that is made by a  *)
(* function of the program has a name, and the functions and handlers that *)
(* are put into promises are names as well: an action below is what one of *)
(* them does.                                                              *)
(***************************************************************************)
EXTENDS Promise, FiniteSets

CONSTANTS
  GroupSize,  \* functions in a group of func_map, the first being setRun
  MaxOwed,    \* BOUND: requests owed when a function makes one that it does not wait for
  Faults      \* what may go wrong

Calls == {"run", "logic"}                   \* the promises of a connect
Fetches == {"fetch", "fetch2"}              \* of JoinAlliance, taking turns
Asides == {"aside", "aside2"}               \* of requests that no function waits for
Awaited == {"api", "api2", "join"} \cup Fetches              \* and of those that one does
Asked == {"entry", "login", "init", "send"} \cup Awaited \cup Asides

ASSUME RobotAssumption ==
  /\ GroupSize \in Nat /\ GroupSize >= 2 /\ MaxOwed \in Nat /\ Calls \cup Asked \subseteq Promises
  /\ None \notin {"error", "dump"}

VARIABLES
  running, couldLogin,
  user,        \* User is set
  timer,       \* Timer.handle is set
  api_index,
  net_state,   \* NetService.net_state: is it CONNECT
  logic_host,  \* m_logicServer.host is known
  conn, host,  \* the connection of the bridge: its state, and the server
  owed,        \* promises the callback of a call belongs to
  uncaught,    \* promises with an error nobody took (history)
  harm         \* what went wrong so far (history)

app  == <<running, couldLogin, user, timer, api_index>>
net  == <<net_state, logic_host, conn, host, owed>>
past == <<uncaught, harm>>
vars == <<engine, app, net, past>>

\* pc_request is refused once the connection is gone, and nothing is called back
Working == net_state /\ conn = "up"

\* NetService:request.  Without a connection the callback is left to defer, whose
\* performWithDelayGlobal is a stub that calls nothing
Requests(ps) == owed' = IF Working THEN owed \cup ps ELSE owed
Request(p) == Requests({p})

\* NetService:connect
Connect(p, server) ==
  /\ conn' = "connecting" /\ host' = server
  /\ owed' = owed \cup {p}

\* NetService:disconnect, with what the bridge's cleanup and stop forget
Disconnect ==
  IF net_state THEN net_state' = FALSE /\ conn' = "none" /\ owed' = {}
               ELSE UNCHANGED <<net_state, conn, owed>>

\* FAULT: setRun is called when it went well only
Unrepeated == <<>>

\* p:always(setRun), the handler of a failure
AlwaysFails == <<"set_run">>

Check == <<Next1("check")>>

\* the promise of a request of NetManager, whose answer is merged into the player's data
PlayerRequest(ds, fs) == NewPromise(Check, <<"player">> \o ds, fs)

\* MyApp:run, on the promise of getConnectGateServerPromise
RunPromise ==
  NewPromise(<<Next1("check"), Next1("events"), Next1("ask_entry"), Next1("ask_logic")>>,
             <<"could_login">>, <<>>)

\* RunAI's login, on the promise of getLoginPromise
LoginPromise ==
  NewPromise(<<Next1("check"), Next1("enter"), Next1("init"),
               Next1("send"), Next1("send"), Next1("send"), Next1("send"), Next1("send"),
               Then("empty", "dump")>>, <<>>, <<>>)

Init ==
  /\ prom = [[p \in Promises |-> NoPromise] EXCEPT !["run"] = RunPromise]
  /\ eng = Idle /\ over = {}
  /\ running = TRUE /\ couldLogin = FALSE /\ user = FALSE /\ timer = FALSE /\ api_index = 1
  /\ net_state = FALSE /\ logic_host = FALSE /\ conn = "connecting" /\ host = "gate" /\ owed = {"run"}
  /\ uncaught = {} /\ harm = {}
-----------------------------------------------------------------------------
(* What the functions in promises do *)

Calling(f) == HasThen /\ Entry.success = f

\* check_request: the error code, or an answer that is not there, is an error
CheckRequest ==
  /\ Calling("check")
  /\ IF prom[eng.p].result = "ok" THEN Returned("ok") ELSE Threw("error")
  /\ UNCHANGED <<app, net, past>>

\* InitEventsMap, or a function that returns its argument
Passes ==
  /\ Calling("events") \/ Calling("empty")
  /\ Returned("ok")
  /\ UNCHANGED <<app, net, past>>

\* getLogicServerInfoPromise
AskEntry ==
  /\ Calling("ask_entry")
  /\ Promised("entry", NewPromise(Check, <<"leave">>, <<>>))
  /\ Request("entry")
  /\ UNCHANGED <<app, past, net_state, logic_host, conn, host>>

\* getConnectLogicServerPromise
AskLogic ==
  /\ Calling("ask_logic")
  /\ Promised("logic", NewPromise(<<Next1("check"), Next1("events")>>, <<>>, <<>>))
  /\ Connect("logic", "logic")
  /\ UNCHANGED <<app, past, net_state, logic_host>>

\* Timer:Start, with the scheduleGlobal of the robot
TimerStart == timer' = TRUE /\ running' = (running \/ ~timer)

\* the end of getLoginPromise, with InitGame
Enter ==
  /\ Calling("enter")
  /\ Returned("ok")
  /\ user' = TRUE /\ TimerStart
  /\ UNCHANGED <<couldLogin, api_index, net, past>>

\* the player has no terrain yet, or has one
InitPlayer ==
  /\ Calling("init")
  /\ \/ /\ Promised("init", PlayerRequest(<<>>, <<>>))
        /\ Request("init")
     \/ Returned(None) /\ UNCHANGED owed
  /\ UNCHANGED <<app, past, net_state, logic_host, conn, host>>

\* getSendGlobalMsgPromise
SendGlobalMsg ==
  /\ Calling("send")
  /\ Promised("send", NewPromise(Check, <<>>, <<>>))
  /\ Request("send")
  /\ UNCHANGED <<app, past, net_state, logic_host, conn, host>>

\* the second request of DailyQuests
StartDailyQuest ==
  /\ Calling("star")
  /\ Promised("api2", PlayerRequest(<<>>, <<>>))
  /\ Request("api2")
  /\ UNCHANGED <<app, past, net_state, logic_host, conn, host>>

\* the catch of the login, which needs an error to show
CallCatch ==
  /\ eng.at = "handler"
  /\ IF eng.arg = None THEN HandlerThrew("error") ELSE Handled(None)
  /\ UNCHANGED <<app, net, past>>

Handler(h) == HasHandler /\ Head(eng.todo) = h

\* the end of MyApp:run
CouldLogin ==
  /\ Handler("could_login") /\ Ran
  /\ couldLogin' = TRUE
  /\ UNCHANGED <<running, user, timer, api_index, net, past>>

\* getLogicServerInfoPromise: CleanAllEventListeners, disconnect, where the logic server is
Leave ==
  /\ Handler("leave") /\ Ran
  /\ Disconnect /\ logic_host' = TRUE
  /\ UNCHANGED <<app, past, host>>

SetRun ==
  /\ Handler("set_run") /\ Ran
  /\ running' = TRUE
  /\ UNCHANGED <<couldLogin, user, timer, api_index, net, past>>

\* a handler failed: the robot does not feel it if no function waits for the promise
Harm(what) == what \in Faults /\ harm' = harm \cup (IF eng.p \in Asides THEN {} ELSE {what})

\* get_player_response_msg, which fails when the delta does not fit the data
PlayerData ==
  /\ Handler("player")
  /\ \/ Ran /\ UNCHANGED harm
     \/ Aborted /\ Harm("delta")
  /\ UNCHANGED <<app, net, uncaught>>

\* a handler of the scripts returns, or fails, when it has made the requests new
Makes(new) ==
  /\ RanMaking(new) /\ Requests(DOMAIN new)
  /\ UNCHANGED <<app, past, net_state, logic_host, conn, host>>

Fails(new) ==
  /\ AbortedMaking(new) /\ Requests(DOMAIN new) /\ Harm("script")
  /\ UNCHANGED <<app, uncaught, net_state, logic_host, conn, host>>

Nothing == [p \in {} |-> NoPromise]
One(p, ds) == [q \in {p} |-> NewPromise(Check, ds, <<>>)]

\* the map of an alliance, which is left at once: then, perhaps, the move or the attack
EnterMapIndex ==
  /\ Handler("enter")
  /\ \/ Makes(One("aside", <<>>)) \/ Fails(One("aside", <<>>))
     \/ \E ds \in {<<>>, <<"player">>} :
          Makes([p \in Asides |-> NewPromise(Check, IF p = "aside" THEN <<>> ELSE ds, <<>>)])

\* TradeGuild buys one of the items that are sold, if there is one
BuyItem ==
  /\ Handler("buy")
  /\ Makes(Nothing) \/ Makes(One("aside", <<"player">>)) \/ Fails(Nothing)

\* RequestToJoinAlliance searches an alliance of the chat, InviteToJoinAlliance invites
ReadChat ==
  /\ Handler("chat")
  /\ Makes(Nothing) \/ Makes(One("aside2", <<"apply">>)) \/ Makes(One("aside2", <<>>)) \/ Fails(Nothing)

\* and it asks to join the alliance that was found
Apply ==
  /\ Handler("apply")
  /\ Makes(Nothing) \/ Makes(One("aside", <<"player">>)) \/ Fails(Nothing)

\* the next page of alliances has the other name
Turn(p) == IF p = "fetch" THEN "fetch2" ELSE "fetch"

\* JoinAlliance: one to join, or the next page
JoinNext ==
  /\ Handler("join")
  /\ \/ Makes([p \in {"join"} |-> PlayerRequest(<<"set_run">>, AlwaysFails)])
     \/ Makes(One(Turn(eng.p), <<"join">>)) \/ Fails(Nothing)

\* no more alliances
JoinEnds ==
  /\ Handler("join") /\ Ran
  /\ running' = TRUE
  /\ UNCHANGED <<couldLogin, user, timer, api_index, net, past>>

Engine ==
  \/ EngineStep /\ UNCHANGED <<app, net, past>>
  \/ Uncaught /\ uncaught' = uncaught \cup ({eng.p} \ (Awaited \cup Asides)) /\ UNCHANGED <<app, net, harm>>

Lua ==
  \/ CheckRequest \/ Passes \/ AskEntry \/ AskLogic \/ Enter \/ InitPlayer \/ SendGlobalMsg
  \/ StartDailyQuest \/ CallCatch \/ CouldLogin \/ Leave \/ SetRun \/ PlayerData
  \/ EnterMapIndex \/ BuyItem \/ ReadChat \/ Apply \/ JoinNext \/ JoinEnds \/ Engine
-----------------------------------------------------------------------------
(* Run, after a second without a byte *)

\* RunAI, with a login to make
Login ==
  /\ EngineIdle /\ running /\ couldLogin
  /\ couldLogin' = FALSE
  /\ prom' = [prom EXCEPT !["login"] = LoginPromise]
  /\ Request("login")
  /\ UNCHANGED <<eng, over, running, user, timer, api_index, net_state, logic_host, conn, host, past>>

\* FAULT: the group has ended
PastTheEnd == IF api_index > GroupSize THEN 1 ELSE api_index + 1

NextIndex == IF api_index + 1 > GroupSize THEN 1 ELSE api_index + 1

\* FAULT: a function asks without looking at the player first
NoLook == TRUE

\* the functions look at User or City, which are nil before InitGame
HasPlayer == user

\* the requests that functions do not wait for are one function's, and few others are owed
AsidesFree == Asides \cap owed = {} /\ Cardinality(owed) <= MaxOwed

\* names of promises of earlier functions, which nothing refers to any more
Free == Awaited \cup (Asides \ owed)

\* a function of a group has made the request p: setRun is called by its handlers, or at
\* once when the function does not return the promise
Ask(p, new) ==
  /\ HasPlayer
  /\ running' = (p \in Asides) /\ api_index' = NextIndex
  /\ Making([q \in Free \cup {p} |-> IF q = p THEN new ELSE NoPromise])
  /\ Request(p)
  /\ UNCHANGED harm

\* what the functions ask for, and what its answer asks for
AskSomething ==
  \/ Ask("api", PlayerRequest(<<"set_run">>, AlwaysFails))
  \/ Ask("api", NewPromise(<<Next1("check"), Next1("star")>>,             \* DailyQuests
                           <<"player", "set_run">>, AlwaysFails))
  \/ Ask("fetch", NewPromise(Check, <<"join">>, <<>>))                    \* JoinAlliance
  \/ /\ AsidesFree
     /\ \/ Ask("api", NewPromise(Check, <<"enter", "set_run">>, AlwaysFails))
        \/ Ask("api", PlayerRequest(<<"buy", "set_run">>, AlwaysFails))
        \/ Ask("aside", NewPromise(Check, <<"chat">>, <<>>))
        \/ Ask("aside", PlayerRequest(<<>>, <<>>))              \* ApproveOrReject

\* RunAI, without: the next function of the group is called
RunFunction ==
  /\ EngineIdle /\ running /\ ~couldLogin
  /\ \/ /\ api_index = 1 \/ user                                 \* setRun, or nothing to do
        /\ running' = TRUE /\ api_index' = NextIndex
        /\ UNCHANGED <<prom, over, owed, harm>>
     \/ api_index > 1 /\ AskSomething
     \/ /\ api_index > 1 /\ (~user \/ "script" \in Faults)       \* User is nil, or the like
        /\ running' = FALSE
        /\ harm' = IF user THEN harm \cup {"script"}
                   ELSE IF prom["login"].state = "none" THEN harm \cup {"early"} ELSE harm
        /\ UNCHANGED <<prom, over, owed, api_index>>
  /\ UNCHANGED <<eng, couldLogin, user, timer, net_state, logic_host, conn, host, uncaught>>

Run == Login \/ RunFunction
-----------------------------------------------------------------------------
(* Callbacks of the bridge *)

\* the callback of NetService:connect, and of the promise
ConnectAnswer(p) ==
  /\ p \in owed \cap Calls /\ EngineIdle
  /\ owed' = owed \ {p}
  /\ \/ /\ conn' = "up" /\ net_state' = TRUE
        /\ Resolve(p, "ok") /\ UNCHANGED harm
     \/ /\ "refused" \in Faults
        /\ conn' = "none" /\ net_state' = FALSE
        /\ Resolve(p, "bad") /\ harm' = harm \cup {"refused"}
  /\ UNCHANGED <<app, logic_host, host, uncaught>>

\* the callback of NetService:request, and of the promise
Response(p) ==
  /\ p \in owed \cap Asked /\ EngineIdle
  /\ owed' = owed \ {p}
  /\ \/ Resolve(p, "ok") /\ UNCHANGED <<net_state, harm>>
     \/ /\ "bad" \in Faults                         \* the server's code is not 200
        /\ Resolve(p, "bad")
        /\ harm' = IF p \in {"entry", "login"} \cup Fetches THEN harm \cup {"bad"} ELSE harm
        /\ UNCHANGED net_state
     \/ /\ conn = "lost"                            \* the write was cancelled
        /\ Resolve(p, "lost") /\ net_state' = FALSE
        /\ UNCHANGED harm
  /\ UNCHANGED <<app, logic_host, conn, host, uncaught>>

\* the server closes the connection; the disconnect event changes nothing
Lose ==
  /\ "lost" \in Faults /\ conn = "up"
  /\ conn' = "lost" /\ harm' = harm \cup {"lost"}
  /\ UNCHANGED <<engine, app, net_state, logic_host, host, owed, uncaught>>

\* onKick
Kick ==
  /\ "kick" \in Faults /\ EngineIdle /\ conn = "up"
  /\ Disconnect /\ harm' = harm \cup {"kick"}
  /\ UNCHANGED <<engine, app, logic_host, host, uncaught>>

Next ==
  \/ Lua \/ Run
  \/ \E p \in Promises : ConnectAnswer(p) \/ Response(p)
  \/ Lose \/ Kick

Spec == Init /\ [][Next]_vars

\* Lua's functions return, and a second without a byte comes; nothing is assumed of the servers
Fairness == WF_vars(Lua) /\ WF_vars(Run)

FairSpec == Spec /\ Fairness
-----------------------------------------------------------------------------
(* Correctness *)

TypeOK ==
  /\ EngineTypeOK
  /\ running \in BOOLEAN /\ couldLogin \in BOOLEAN /\ user \in BOOLEAN /\ timer \in BOOLEAN
  /\ api_index \in 1..GroupSize
  /\ net_state \in BOOLEAN /\ logic_host \in BOOLEAN
  /\ conn \in {"none", "connecting", "up", "lost"} /\ host \in {"gate", "logic"}
  /\ owed \subseteq Calls \cup Asked /\ uncaught \subseteq Promises

(* One function of the scripts is waited for at a time: running is true again only when
   the requests it waits for have been dealt with, the second one of a chain and the pages
   of JoinAlliance included, and there is no other of them (RunAI, the always(setRun) of the
   *Api.lua files, the timer that sets running too).  It says nothing of the requests that
   no function waits for: they may be owed while the next functions run. *)
OneCallAtATime ==
  /\ EngineIdle /\ running => \A p \in Awaited : ~Unsettled(p)
  /\ EngineIdle => \A p, q \in Awaited : Unsettled(p) /\ Unsettled(q) => p = q \/ {p, q} = {"api", "api2"}

(* No function of the scripts asks before the player is logged in: the group they begin
   with fails at its second function until then, and is begun again (RunAI).  Neither do
   the handlers of their requests. *)
LoggedInFirst ==
  \A p \in {"send", "init"} \cup Awaited \cup Asides :
    prom[p].state # "none" => user /\ "login" \notin owed

(* A request is owed by the server it is meant for, on the connection it was made on: the
   gate is left before the logic server is connected (getLogicServerInfoPromise). *)
RightServer ==
  \A p \in owed : CASE p \in {"run", "entry"} -> host = "gate"
                    [] OTHER -> host = "logic" /\ "entry" \in over /\ logic_host

(* No promise is forgotten: one that is not through has a callback that is owed, or waits
   for another one that is not through (repeat_resolve, handle_next_failed).  A promise that
   no function waits for is left aside: nothing is lost when an error of its handlers ends it. *)
NoPromiseForgotten ==
  EngineIdle /\ harm = {} =>
    \A p \in Promises \ Asides : Unsettled(p) =>
      p \in owed \/ \E q \in Promises : Unsettled(q) /\ WaitsFor(p, q)

(* The login takes the errors of all it waits for (the catch in RunAI). *)
LoginErrorsTaken == uncaught \cap {"login", "init", "send"} = {}

(* The robot goes on to its next function for ever, whatever becomes of the requests that no
   function waits for, unless a server never answers one that is waited for, its list of
   alliances has no end, or the robot met one of the faults it does not survive: a connection
   that was refused, lost or closed, a login that was refused, a page of alliances that was
   refused (JoinAlliance has no fail handler), an error in a script or in a handler of a
   promise that is waited for, or a first function called before the login could begin
   (Run, RunAI). *)
GoesOn ==
  \/ []<>running
  \/ \E p \in Promises \ Asides : <>[](p \in owed)
  \/ []<>("fetch2" \in owed)
  \/ <>(harm # {})
=============================================================================
