------------------------------ MODULE Promise ------------------------------
(***************************************************************************)
(* The promises of the robot's scripts, promise.lua.                       *)
(*                                                                         *)
(* A promise has a list of functions to call one after the other (thens),  *)
(* each with a function that takes an error (or none), and handlers that   *)
(* are called when the list is through (dones) or an error was thrown      *)
(* (fails).  A function that returns a promise makes the rest of the list  *)
(* wait for it.  resolve(p) runs until there is nothing left to call or a  *)
(* promise to wait for; one step is one turn of its loops.  What the       *)
(* functions do is up to the module that extends this one: it calls        *)
(* Returned, Promised and Threw (or, for a handler, Ran or Aborted) with    *)
(* the outcome.                                                            *)
(*                                                                         *)
(* promise.all and promise.any, and with them ignore_error, are not        *)
(* modelled: main.lua replaces promiseWithTimeOut, their only user.        *)
(***************************************************************************)
EXTENDS Naturals, Sequences

CONSTANTS Promises, None

VARIABLES
  prom,   \* the fields of each promise
  eng,    \* what the engine is doing, for which promise, with what still to call
  over    \* the promises that are through (history)

engine == <<prom, eng, over>>

\* what an entry of thens is: next(success_func, failed_func)
Then(f, g) == [success |-> f, failed |-> g]
Next1(f) == Then(f, None)

NoPromise == [state |-> "none", result |-> None,
              thens |-> <<>>, dones |-> <<>>, fails |-> <<>>, next_promises |-> <<>>]

\* promise.new, and the next, done and fail that follow it
NewPromise(ts, ds, fs) ==
  [state |-> "pending", result |-> None,
   thens |-> ts, dones |-> ds, fails |-> fs, next_promises |-> <<>>]

Idle == [at |-> "idle", p |-> None, arg |-> None, todo |-> <<>>]
At(where, p, arg) == [at |-> where, p |-> p, arg |-> arg, todo |-> <<>>]

EngineIdle == eng.at = "idle"

\* promise:resolve(data), which asserts that p is pending
Resolve(p, data) ==
  /\ EngineIdle /\ prom[p].state = "pending"
  /\ prom' = [prom EXCEPT ![p].state = "resolved", ![p].result = data]
  /\ eng' = At("then", p, None)
  /\ UNCHANGED over
-----------------------------------------------------------------------------
(* repeat_resolve *)

HasThen == eng.at = "then" /\ prom[eng.p].thens # <<>>
Entry == Head(prom[eng.p].thens)

\* pop_head(p.thens), the promises made by the function being in ps
Popped(ps) == [ps EXCEPT ![eng.p].thens = Tail(@)]

\* the function returned a value
Returned(v) ==
  /\ prom' = [Popped(prom) EXCEPT ![eng.p].result = v]
  /\ UNCHANGED <<eng, over>>

\* FAULT: the rest of the list does not wait for the promise
NoWait(q, new) ==
  /\ prom' = [Popped(prom) EXCEPT ![q] = [new EXCEPT !.next_promises = <<>>]]
  /\ over' = over \ {q}
  /\ UNCHANGED eng

\* the function returned a promise it has made: the list goes on when that is through
Promised(q, new) ==
  /\ prom' = [Popped(prom) EXCEPT ![q] = [new EXCEPT !.next_promises = <<eng.p>>]]
  /\ over' = over \ {q}
  /\ eng' = Idle

\* the function threw an error; its own failed_func is called with the global err, which is nil
Threw(e) ==
  /\ prom' = [Popped(prom) EXCEPT ![eng.p].state = "rejected", ![eng.p].result = e]
  /\ eng' = IF Entry.failed = None THEN At("failed", eng.p, e)
                                   ELSE [At("handler", eng.p, None) EXCEPT !.todo = <<Entry.failed>>]
  /\ UNCHANGED over

\* is_complete: nothing is left to call
ThensDone ==
  /\ eng.at = "then" /\ prom[eng.p].thens = <<>>
  /\ eng' = [eng EXCEPT !.at = "settled",
       !.todo = IF prom[eng.p].state = "rejected" THEN prom[eng.p].fails ELSE prom[eng.p].dones]
  /\ UNCHANGED <<prom, over>>
-----------------------------------------------------------------------------
(* handle_next_failed *)

Catchers == {i \in 1..Len(prom[eng.p].thens) : prom[eng.p].thens[i].failed # None}

\* FAULT: the entries before the one that takes the error are called later
KeepsSkipped(i) == [j \in 1..(Len(prom[eng.p].thens) - 1) |->
                      prom[eng.p].thens[IF j < i THEN j ELSE j + 1]]

\* what is left after the entries up to the one that takes the error
AfterCatcher(i) == SubSeq(prom[eng.p].thens, i + 1, Len(prom[eng.p].thens))

\* the error goes to the first failed_func in the list
Catch ==
  /\ eng.at = "failed" /\ Catchers # {}
  /\ LET i == CHOOSE i \in Catchers : \A j \in Catchers : i <= j
     IN /\ prom' = [prom EXCEPT ![eng.p].thens = AfterCatcher(i)]
        /\ eng' = [eng EXCEPT !.at = "handler", !.todo = <<prom[eng.p].thens[i].failed>>]
  /\ UNCHANGED over

\* or, if there is none, the promise is over, and so are those that wait for it
NoCatch ==
  /\ eng.at = "failed" /\ Catchers = {}
  /\ prom' = [prom EXCEPT ![eng.p].thens = <<>>]
  /\ eng' = [eng EXCEPT !.at = "given_up",
       !.todo = IF prom[eng.p].state = "rejected" THEN prom[eng.p].fails ELSE prom[eng.p].dones]
  /\ UNCHANGED over

\* the failed_func returned a value, and the list goes on
Handled(v) ==
  /\ prom' = [prom EXCEPT ![eng.p].result = v]
  /\ eng' = At("then", eng.p, None)
  /\ UNCHANGED over

HandlerThrew(e) ==
  /\ prom' = [prom EXCEPT ![eng.p].result = e]
  /\ eng' = At("failed", eng.p, e)
  /\ UNCHANGED over
-----------------------------------------------------------------------------
(* complete_and_pop_promise: the handlers are called without protection *)

Finishing == eng.at \in {"settled", "given_up"}
HasHandler == Finishing /\ eng.todo # <<>>

\* the handler returned
Ran ==
  /\ eng' = [eng EXCEPT !.todo = Tail(@)]
  /\ UNCHANGED <<prom, over>>

\* the handler threw: the error leaves resolve, and with it the callback
Aborted ==
  /\ eng' = Idle
  /\ UNCHANGED <<prom, over>>

\* and so does a handler that has made promises, new, which nothing waits for
Making(new) ==
  /\ prom' = [p \in Promises |-> IF p \in DOMAIN new THEN new[p] ELSE prom[p]]
  /\ over' = over \ DOMAIN new

RanMaking(new) == Making(new) /\ eng' = [eng EXCEPT !.todo = Tail(@)]
AbortedMaking(new) == Making(new) /\ eng' = Idle

Waiting == prom[eng.p].next_promises

\* done_promise and fail_promise forget the handlers, pop_head takes the first one waiting
Cleared ==
  [prom EXCEPT ![eng.p].dones = IF prom[eng.p].state = "rejected" THEN @ ELSE <<>>,
               ![eng.p].fails = IF prom[eng.p].state = "rejected" THEN <<>> ELSE @,
               ![eng.p].next_promises = IF @ = <<>> THEN @ ELSE Tail(@)]

\* FAULT: the promise that waits is not told
ForgetsWaiting ==
  /\ eng.at = "settled" /\ eng.todo = <<>>
  /\ eng' = Idle /\ prom' = Cleared /\ over' = over \cup {eng.p}

\* the result goes to the promise that waits
Settle ==
  /\ eng.at = "settled" /\ eng.todo = <<>>
  /\ over' = over \cup {eng.p}
  /\ IF Waiting = <<>>
       THEN eng' = Idle /\ prom' = Cleared
       ELSE /\ prom' = [Cleared EXCEPT ![Head(Waiting)].result = prom[eng.p].result]
            /\ eng' = At("then", Head(Waiting), None)

\* the error goes to the promise that waits
PassError ==
  /\ eng.at = "given_up" /\ eng.todo = <<>> /\ Waiting # <<>>
  /\ prom' = [Cleared EXCEPT ![Head(Waiting)].state = "rejected"]
  /\ eng' = At("failed", Head(Waiting), eng.arg)
  /\ over' = over \cup {eng.p}

\* nobody took the error: the assertion of handle_next_failed fails
Uncaught ==
  /\ eng.at = "given_up" /\ eng.todo = <<>> /\ Waiting = <<>>
  /\ prom' = Cleared
  /\ eng' = Idle
  /\ over' = over \cup {eng.p}

\* the steps that call nothing
EngineStep == ThensDone \/ Catch \/ NoCatch \/ Settle \/ PassError
-----------------------------------------------------------------------------
EngineTypeOK ==
  /\ \A p \in Promises :
       /\ prom[p].state \in {"none", "pending", "resolved", "rejected"}
       /\ prom[p].next_promises \in Seq(Promises)
  /\ eng.at \in {"idle", "then", "failed", "handler", "settled", "given_up"}
  /\ eng.p \in Promises \cup {None}

\* p was made and is not through
Unsettled(p) == prom[p].state # "none" /\ p \notin over

\* p waits for q
WaitsFor(p, q) == \E i \in 1..Len(prom[q].next_promises) : prom[q].next_promises[i] = p
=============================================================================
