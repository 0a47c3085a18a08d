-------------------------- MODULE CallbackMailbox --------------------------
(***************************************************************************)
(* What kod_client/CCPomelo.cpp promises to the Lua code above it and to   *)
(* libpomelo below it, without threads, mutexes, counters or signals: a    *)
(* mailbox with a queue for each kind of callback.  Each answer enters its *)
(* queue at most once and only if it was asked for, each queue is emptied  *)
(* in order, and what has entered is taken out in the end, unless the      *)
(* process goes down.                                                      *)
(***************************************************************************)
EXTENDS Sequences

CONSTANTS
  Kinds,      \* the queues
  Calls,      \* requests and notifies, each answered at most once
  Events,     \* events, which the server sends as often as it likes
  KindOf(_)   \* the queue an item goes to

VARIABLES
  box,        \* the items of each queue
  asked,      \* the calls made so far
  owed,       \* the calls whose answer has not entered a queue
  down        \* the process has ended

vars == <<box, asked, owed, down>>

Init ==
  /\ box = [k \in Kinds |-> <<>>]
  /\ asked = {} /\ owed = {} /\ down = FALSE

\* a call is made; when the connection is gone nobody will answer it
Ask(x) ==
  /\ x \notin asked
  /\ asked' = asked \cup {x}
  /\ owed' \in {owed, owed \cup {x}}
  /\ UNCHANGED <<box, down>>

Post(x) ==
  /\ x \in owed \cup Events
  /\ box' = [box EXCEPT ![KindOf(x)] = Append(@, x)]
  /\ owed' = owed \ {x}
  /\ UNCHANGED <<asked, down>>

Take(k) ==
  /\ ~down
  /\ box[k] # <<>>
  /\ box' = [box EXCEPT ![k] = Tail(@)]
  /\ UNCHANGED <<asked, owed, down>>

GoDown ==
  /\ down' = TRUE
  /\ UNCHANGED <<box, asked, owed>>

Next ==
  \/ \E x \in Calls : Ask(x)
  \/ \E x \in Calls \cup Events : Post(x)
  \/ \E k \in Kinds : Take(k)
  \/ GoDown

Spec == Init /\ [][Next]_vars /\ \A k \in Kinds : WF_vars(Take(k))
=============================================================================
