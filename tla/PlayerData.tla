----------------------------- MODULE PlayerData -----------------------------
(***************************************************************************)
(* The player's data in the robot, a copy of the server's.                 *)
(*                                                                         *)
(* The login brings all of it; after that the server sends what it has     *)
(* changed, in the answers to requests (get_player_response_msg) and in    *)
(* pushes (onPlayerDataChanged), and DiffFunction.lua applies it.  On the  *)
(* connection the messages are in order.  The bridge puts events and       *)
(* answers into queues of their own, and a tick takes one event and then   *)
(* one answer (dispatchCallbacks).                                         *)
(*                                                                         *)
(* The data is a field and a list, which stand for the keys of one part    *)
(* and of the lists of events and the like.  A change sets the field, or   *)
(* sets, appends or removes an item by its index.  Mails and reports, of   *)
(* which the copy holds a part only, are not modelled.                     *)
(***************************************************************************)
EXTENDS Naturals, Sequences, SequencesExt

CONSTANTS
  Values,
  Null,      \* json.null
  None,
  ListMax,   \* bound: length of the server's list
  SendMax    \* bound: messages the server sends

\* a Lua table that is a list, with holes if items were set past the end
Lists == UNION {[S -> Values] : S \in SUBSET (1..(ListMax + SendMax))}

ASSUME DataAssumption ==
  /\ Null \notin Values /\ None \notin [field : Values, list : Lists]
  /\ ListMax \in Nat \ {0} /\ SendMax \in Nat \ {0}

VARIABLES
  server,     \* the server's data
  asked,      \* what the robot waits for: the login, a request, or its answer
  wire,       \* messages on the connection
  events, answers,  \* event_queue and response_queue of the bridge
  turn,       \* which queue dispatchCallbacks comes to
  user,       \* DataManager.user, nil before the login
  overtaken,  \* a message was dispatched before an earlier one about the same key (history)
  sent        \* messages sent so far

vars == <<server, asked, wire, events, answers, turn, user, overtaken, sent>>

Set(v) == [key |-> "field", index |-> 0, value |-> v]
SetItem(i, v) == [key |-> "list", index |-> i, value |-> v]
RemovedAt(i) == [key |-> "list", index |-> i, value |-> Null]
-----------------------------------------------------------------------------
(* DiffFunction.lua *)

\* #list: a border, any of them when there are holes
Borders(list) ==
  {n \in 0..(ListMax + SendMax) : (n = 0 \/ n \in DOMAIN list) /\ n + 1 \notin DOMAIN list}

\* FAULT: the index of the server is taken as it is
ServerIndex(change) == change.index

\* k = k + 1
Index(change) == change.index + 1

\* table.remove with n items: the ones that follow move up, holes as well, and a wrong index does nothing
TableRemove(list, k, n) ==
  IF k \notin 1..n THEN list
  ELSE [j \in (DOMAIN list \ (k..n)) \cup {i \in k..(n - 1) : i + 1 \in DOMAIN list} |->
          IF j \in k..(n - 1) THEN list[j + 1] ELSE list[j]]

\* FAULT: the item is cleared, and the others stay where they are
ClearItem(data, k) == {[data EXCEPT !.list = [j \in DOMAIN @ \ {k} |-> @[j]]]}

RemoveItem(data, k) ==
  {[data EXCEPT !.list = TableRemove(@, k, n)] : n \in Borders(data.list)}

\* what a change makes of the data
Apply(data, change) ==
  LET k == Index(change)
  IN IF change.key = "field" THEN {[data EXCEPT !.field = change.value]}
     ELSE IF change.value = Null THEN RemoveItem(data, k)
     ELSE {[data EXCEPT !.list = [j \in DOMAIN @ \cup {k} |-> IF j = k THEN change.value ELSE @[j]]]}
-----------------------------------------------------------------------------
Init ==
  /\ server \in [field : Values, list : {<<>>} \cup {<<v>> : v \in Values}]
  /\ asked = "login"
  /\ wire = <<>> /\ events = <<>> /\ answers = <<>> /\ turn = "event"
  /\ user = None /\ overtaken = FALSE /\ sent = 0

Message(what, content) == [n |-> sent, what |-> what, content |-> content]

(* The server *)

\* the answer to the login, with the whole of the data
ServerLogin ==
  /\ asked = "login" /\ sent = 0
  /\ wire' = Append(wire, Message("login", server)) /\ sent' = sent + 1
  /\ asked' = "answer"
  /\ UNCHANGED <<server, events, answers, turn, user, overtaken>>

Changes ==
  {Set(v) : v \in Values}
    \cup {SetItem(i, v) : i \in 0..(Len(server.list) - 1), v \in Values}
    \cup {SetItem(Len(server.list), v) : v \in {w \in Values : Len(server.list) < ListMax}}
    \cup {RemovedAt(i) : i \in 0..(Len(server.list) - 1)}

\* what the server makes of its own change
Changed(change) ==
  IF change.key = "field" THEN [server EXCEPT !.field = change.value]
  ELSE IF change.value = Null THEN [server EXCEPT !.list = RemoveAt(@, change.index + 1)]
  ELSE IF change.index = Len(server.list) THEN [server EXCEPT !.list = Append(@, change.value)]
  ELSE [server EXCEPT !.list[change.index + 1] = change.value]

ServerSends(what, change) ==
  /\ sent > 0 /\ sent < SendMax
  /\ server' = Changed(change)
  /\ wire' = Append(wire, Message(what, change)) /\ sent' = sent + 1

\* a change of the server's own, and of other players
ServerPush(change) ==
  /\ ServerSends("push", change)
  /\ UNCHANGED <<asked, events, answers, turn, user, overtaken>>

\* the change a request makes
ServerAnswers(change) ==
  /\ asked = "request"
  /\ ServerSends("answer", change)
  /\ asked' = "answer"
  /\ UNCHANGED <<events, answers, turn, user, overtaken>>
-----------------------------------------------------------------------------
(* The robot *)

\* a request of the scripts, one at a time
Ask ==
  /\ asked = None /\ asked' = "request"
  /\ UNCHANGED <<server, wire, events, answers, turn, user, overtaken, sent>>

\* the event or the request callback of the bridge
Enqueue(m) ==
  IF m.what = "push" THEN events' = Append(events, m) /\ UNCHANGED answers
                     ELSE answers' = Append(answers, m) /\ UNCHANGED events

\* the worker has read a message
Receive ==
  /\ wire # <<>>
  /\ wire' = Tail(wire) /\ Enqueue(Head(wire))
  /\ UNCHANGED <<server, asked, turn, user, overtaken, sent>>

\* two messages whose order matters
Touch(m, k) == "login" \in {m.what, k.what} \/ m.content.key = k.content.key

\* m is dispatched while k, which was sent before, waits
Overtakes(m) ==
  \E q \in {events, answers} : \E i \in 1..Len(q) : q[i].n < m.n /\ Touch(m, q[i])

\* NetManager.m_was_inited_game
Inited == user # None

\* dispatchEvent, with onPlayerDataChanged
DispatchEvent ==
  /\ turn = "event" /\ turn' = "answer"
  /\ IF events = <<>> THEN UNCHANGED <<events, user, overtaken>>
     ELSE /\ events' = Tail(events)
          /\ overtaken' = (overtaken \/ Overtakes(Head(events)))
          /\ IF Inited THEN user' \in Apply(user, Head(events).content) ELSE UNCHANGED user
  /\ UNCHANGED <<server, asked, wire, answers, sent>>

\* dispatchRequest, with the end of getLoginPromise or get_player_response_msg
DispatchAnswer ==
  /\ turn = "answer" /\ turn' = "event"
  /\ IF answers = <<>> THEN UNCHANGED <<asked, answers, user, overtaken>>
     ELSE /\ answers' = Tail(answers) /\ asked' = None
          /\ overtaken' = (overtaken \/ Overtakes(Head(answers)))
          /\ IF Head(answers).what = "login" THEN user' = Head(answers).content
                                             ELSE user' \in Apply(user, Head(answers).content)
  /\ UNCHANGED <<server, wire, events, sent>>

Next ==
  \/ ServerLogin
  \/ \E change \in Changes : ServerPush(change) \/ ServerAnswers(change)
  \/ Ask \/ Receive \/ DispatchEvent \/ DispatchAnswer

Spec == Init /\ [][Next]_vars
-----------------------------------------------------------------------------
(* Correctness *)

AtRest == user # None /\ wire = <<>> /\ events = <<>> /\ answers = <<>>

TypeOK ==
  /\ server \in [field : Values, list : Seq(Values)] /\ Len(server.list) <= ListMax
  /\ asked \in {"login", "request", "answer", None} /\ turn \in {"event", "answer"}
  /\ user = None \/ user \in [field : Values, list : Lists]
  /\ overtaken \in BOOLEAN /\ sent \in 0..SendMax

(* When nothing is on the way the robot has the server's data, unless an answer or a push
   was dispatched before an earlier message about the same key, the other one's queue
   having come first: then an index may mean another item (DiffFunction.lua,
   onPlayerDataChanged, get_player_response_msg). *)
DataCurrent == AtRest /\ ~overtaken => user = server
=============================================================================
