--------------------------- MODULE RobotProofs ---------------------------
(***************************************************************************)
(* Theorems about Robot: the promises of the scripts and the stages of the *)
(* robot's life, for any promises, groups of functions and faults.         *)
(***************************************************************************)
EXTENDS Robot, SequenceTheorems, TLAPS

Started(p) == prom[p].state \in {"resolved", "rejected"}
Left(p) == Len(prom[p].thens)
Names == Calls \cup Asked
Scripts == {"send", "init"} \cup Awaited \cup Asides

\* what a function of the scripts waits for, the second request of a chain aside
Heads == Awaited \ {"api2"}

\* the promises that a function of another promise makes and returns
Subs == {"entry", "logic", "init", "send", "api2"}
Parent(q) == IF q \in {"entry", "logic"} THEN "run" ELSE IF q = "api2" THEN "api" ELSE "login"

\* the function that p calls with k left to call, and the handlers
ThenAt(p, k, f) ==
  \/ p = "run" /\ <<k, f>> \in {<<4, "check">>, <<3, "events">>, <<2, "ask_entry">>, <<1, "ask_logic">>}
  \/ p = "logic" /\ <<k, f>> \in {<<2, "check">>, <<1, "events">>}
  \/ p = "login" /\ \/ <<k, f>> \in {<<9, "check">>, <<8, "enter">>, <<7, "init">>, <<1, "empty">>}
                    \/ k \in 2..6 /\ f = "send"
  \/ p \in {"entry", "init", "send"} \cup Awaited \cup Asides /\ k = 1 /\ f = "check"
  \/ p = "api" /\ <<k, f>> \in {<<2, "check">>, <<1, "star">>}

DoneAt(p, k, h) ==
  \/ p = "run" /\ k = 1 /\ h = "could_login"
  \/ p = "entry" /\ k = 1 /\ h = "leave"
  \/ p \in {"init", "api2"} \cup Asides /\ k = 1 /\ h = "player"
  \/ p = "aside" /\ k = 1 /\ h = "chat"
  \/ p = "aside2" /\ k = 1 /\ h = "apply"
  \/ p \in Fetches /\ k = 1 /\ h = "join"
  \/ p = "join" /\ <<k, h>> \in {<<2, "player">>, <<1, "set_run">>}
  \/ p = "api" /\ \/ k = 3 /\ h = "player"
                  \/ k = 2 /\ h \in {"player", "enter", "buy"}
                  \/ k = 1 /\ h = "set_run"

FailAt(p, k, h) == p \in {"api", "join"} /\ k = 1 /\ h = "set_run"

\* only the login takes errors, with the last function of its list
TakesAt(p, k) == IF p = "login" /\ k = 1 THEN "dump" ELSE None

Functions == {"check", "events", "ask_entry", "ask_logic", "enter", "init", "send", "empty", "star"}
Handlers == {"could_login", "leave", "player", "set_run", "dump", "enter", "buy", "chat", "apply", "join"}
Entries == [success : Functions, failed : {None, "dump"}]

IsThens(p, s) ==
  /\ s \in Seq(Entries)
  /\ \A i \in 1..Len(s) : ThenAt(p, Len(s) - i + 1, s[i].success)
                          /\ s[i].failed = TakesAt(p, Len(s) - i + 1)
IsDones(p, s) == s \in Seq(Handlers) /\ \A i \in 1..Len(s) : DoneAt(p, Len(s) - i + 1, s[i])
IsFails(p, s) == s \in Seq(Handlers) /\ \A i \in 1..Len(s) : FailAt(p, Len(s) - i + 1, s[i])

Results == {None, "ok", "bad", "lost", "error"}

PromiseType ==
  [state : {"none", "pending", "resolved", "rejected"}, result : Results,
   thens : Seq(Entries), dones : Seq(Handlers), fails : Seq(Handlers), next_promises : Seq(Promises)]

EngineTypes ==
  /\ prom \in [Promises -> PromiseType]
  /\ eng \in [at : {"idle", "then", "failed", "handler", "settled", "given_up"},
              p : Promises \cup {None}, arg : {None, "error"}, todo : Seq(Handlers)]
  /\ over \subseteq Promises

AppTypes ==
  /\ running \in BOOLEAN /\ couldLogin \in BOOLEAN /\ user \in BOOLEAN /\ timer \in BOOLEAN
  /\ api_index \in 1..GroupSize
  /\ net_state \in BOOLEAN /\ logic_host \in BOOLEAN
  /\ conn \in {"none", "connecting", "up", "lost"} /\ host \in {"gate", "logic"}
  /\ owed \subseteq Names /\ uncaught \subseteq Promises

\* what a promise has left to call is the end of the lists it was made with
ListsInv ==
  \A p \in Promises :
    /\ IsThens(p, prom[p].thens) /\ IsDones(p, prom[p].dones) /\ IsFails(p, prom[p].fails)
    /\ prom[p].state # "none" => p \in Names
    /\ p = "entry" /\ Unsettled(p) => Len(prom[p].dones) = 1

\* what the engine runs is a promise that was resolved, and is not through
EngineInv ==
  /\ eng.at # "idle" => eng.p \in Promises /\ Started(eng.p) /\ eng.p \notin over
  /\ eng.at = "then" => prom[eng.p].state = "resolved" \/ (eng.p = "login" /\ Left("login") = 0)
  /\ eng.at \in {"failed", "handler", "given_up"} => prom[eng.p].state = "rejected" /\ eng.arg = "error"
  /\ eng.at = "failed" /\ eng.p = "login" => Left("login") >= 1
  /\ eng.at = "handler" => eng.p = "login"
  /\ eng.at \in {"handler", "settled", "given_up"} => Left(eng.p) = 0
  /\ eng.at = "settled" /\ prom[eng.p].state = "rejected" => eng.p = "login"
  /\ eng.at = "given_up" => eng.p # "login" /\ IsFails(eng.p, eng.todo)
  /\ eng.at = "settled" => IsDones(eng.p, eng.todo)

\* a promise made by a function is waited for by the one that called it, which waits for no other
WaitInv ==
  /\ \A p \in over : Started(p) /\ prom[p].next_promises = <<>>
  /\ \A p \in Promises :
       prom[p].next_promises = IF p \in Subs /\ Unsettled(p) THEN <<Parent(p)>> ELSE <<>>
  /\ \A q \in Subs : Unsettled(q) =>
       /\ prom[Parent(q)].state = "resolved" /\ Parent(q) \notin over
       /\ eng.at # "idle" => eng.p # Parent(q)
       /\ \A r \in Subs : Unsettled(r) /\ Parent(r) = Parent(q) => r = q
       /\ q \in {"init", "send"} => Left("login") \in 1..6

\* the engine and the promises, whatever the functions do
Core == EngineTypes /\ ListsInv /\ EngineInv /\ WaitInv

\* an answer is owed to a promise that was not resolved yet
OwedInv == \A p \in owed : prom[p].state = "pending"

\* the way to the logic server
RunInv ==
  /\ prom["run"].state # "none"
  /\ prom["run"].state = "pending" => Left("run") = 4
  /\ Left("run") >= 2 => prom["entry"].state = "none"
  /\ Left("run") >= 1 => prom["logic"].state = "none"
  /\ Left("run") >= 1 => host = "gate"
  /\ Unsettled("entry") => Left("run") = 1
  /\ prom["run"].state = "resolved" /\ Left("run") <= 1 => prom["entry"].state # "none"
  /\ prom["run"].state = "resolved" /\ Left("run") = 0 => prom["logic"].state # "none"
  /\ prom["run"].state = "resolved" /\ "entry" \in over => logic_host
  /\ eng.at = "settled" /\ eng.p = "entry" /\ eng.todo = <<>> => logic_host
  /\ prom["logic"].state # "none" => host = "logic"
  /\ host = "logic" => "entry" \in over /\ logic_host

\* the login comes after it, once
LoginInv ==
  /\ couldLogin \/ prom["login"].state # "none" =>
       /\ prom["run"].state = "resolved" /\ Left("run") = 0
       /\ "run" \in over \/ (eng.at = "settled" /\ eng.p = "run" /\ eng.todo = <<>>)
  /\ couldLogin => prom["login"].state = "none"
  /\ prom["login"].state = "pending" => Left("login") = 9
  /\ Left("login") >= 8 => ~user
  /\ user => Started("login")
  /\ prom["login"].state = "resolved" /\ Left("login") <= 7 => user
  /\ timer = user

\* all that is left to do for p is to leave it
Ends(p) == eng.p = p /\ eng.at \in {"settled", "given_up"} /\ eng.todo = <<>>

\* and then the functions of the scripts, one at a time
ScriptInv ==
  /\ \A p \in Scripts : prom[p].state # "none" => user
  /\ \A p \in Heads : Unsettled(p) /\ running => Ends(p)
  /\ \A p, q \in Heads : Unsettled(p) /\ Unsettled(q) => p = q \/ Ends(p) \/ Ends(q)

\* as long as nothing went wrong, there is a reason for each promise to go on
GoingInv ==
  harm = {} =>
    /\ conn # "lost"
    /\ \A p \in Promises : prom[p].state = "pending" => p \in owed
    /\ \A p \in Promises \ Asides : Started(p) /\ p \notin over =>
         \/ eng.at # "idle" /\ eng.p = p
         \/ \E q \in Subs : Unsettled(q) /\ Parent(q) = p
    /\ Started("run") /\ prom["entry"].state = "none" => Working
    /\ Started("logic") => Working

IInv ==
  /\ Core /\ AppTypes /\ OwedInv
  /\ RunInv /\ LoginInv /\ ScriptInv /\ GoingInv /\ LoginErrorsTaken
-----------------------------------------------------------------------------
(* The lists of a promise *)

LEMMA NamesArePromises ==
  /\ Names \subseteq Promises
  /\ {"run", "logic", "entry", "login", "init", "send", "api", "api2"} \subseteq Promises
  /\ Scripts \subseteq Promises /\ Heads \subseteq Promises
  /\ Subs \subseteq Promises /\ \A q \in Subs : Parent(q) \in Promises /\ Parent(q) \notin Subs
  /\ None # "error" /\ None # "dump"
  BY RobotAssumption DEF Names, Calls, Asked, Subs, Parent, Scripts, Heads, Awaited, Asides, Fetches

LEMMA TailOfThens ==
  ASSUME NEW p, NEW s, IsThens(p, s), s # <<>>
  PROVE  /\ IsThens(p, Tail(s)) /\ Len(Tail(s)) = Len(s) - 1 /\ Len(s) \in Nat \ {0}
         /\ Tail(s) \in Seq(Entries)
         /\ ThenAt(p, Len(s), Head(s).success) /\ Head(s).failed = TakesAt(p, Len(s))
<1>1. s \in Seq(Entries) /\ Len(s) \in Nat /\ Len(s) # 0
  BY EmptySeq, LenProperties DEF IsThens
<1>2. /\ Tail(s) \in Seq(Entries) /\ Len(Tail(s)) = Len(s) - 1
      /\ \A i \in 1..(Len(s) - 1) : Tail(s)[i] = s[i + 1]
      /\ Head(s) = s[1]
  BY <1>1, HeadTailProperties
<1>3. ASSUME NEW i \in 1..Len(Tail(s))
      PROVE  /\ ThenAt(p, Len(Tail(s)) - i + 1, Tail(s)[i].success)
             /\ Tail(s)[i].failed = TakesAt(p, Len(Tail(s)) - i + 1)
  <2>1. i \in 1..(Len(s) - 1) /\ i + 1 \in 1..Len(s) /\ Len(s) - (i + 1) + 1 = Len(Tail(s)) - i + 1
    BY <1>1, <1>2
  <2> QED
    BY <1>2, <2>1 DEF IsThens
<1>4. ThenAt(p, Len(s), s[1].success) /\ s[1].failed = TakesAt(p, Len(s))
  <2>1. 1 \in 1..Len(s) /\ Len(s) - 1 + 1 = Len(s)
    BY <1>1
  <2> QED
    BY <2>1 DEF IsThens
<1> QED
  BY <1>1, <1>2, <1>3, <1>4 DEF IsThens

LEMMA TailOfDones ==
  ASSUME NEW p, NEW s, IsDones(p, s), s # <<>>
  PROVE  /\ IsDones(p, Tail(s)) /\ Len(Tail(s)) = Len(s) - 1 /\ Len(s) \in Nat \ {0}
         /\ Tail(s) \in Seq(Handlers) /\ DoneAt(p, Len(s), Head(s))
         /\ Len(s) = 1 => Tail(s) = <<>>
<1>1. s \in Seq(Handlers) /\ Len(s) \in Nat /\ Len(s) # 0
  BY EmptySeq, LenProperties DEF IsDones
<1>2. /\ Tail(s) \in Seq(Handlers) /\ Len(Tail(s)) = Len(s) - 1
      /\ \A i \in 1..(Len(s) - 1) : Tail(s)[i] = s[i + 1]
      /\ Head(s) = s[1]
  BY <1>1, HeadTailProperties
<1>3. ASSUME NEW i \in 1..Len(Tail(s)) PROVE DoneAt(p, Len(Tail(s)) - i + 1, Tail(s)[i])
  <2>1. i \in 1..(Len(s) - 1) /\ i + 1 \in 1..Len(s) /\ Len(s) - (i + 1) + 1 = Len(Tail(s)) - i + 1
    BY <1>1, <1>2
  <2> QED
    BY <1>2, <2>1 DEF IsDones
<1>4. DoneAt(p, Len(s), s[1])
  <2>1. 1 \in 1..Len(s) /\ Len(s) - 1 + 1 = Len(s)
    BY <1>1
  <2> QED
    BY <2>1 DEF IsDones
<1>5. ASSUME Len(s) = 1 PROVE Tail(s) = <<>>
  <2>1. Len(Tail(s)) = 0 /\ Tail(s) \in Seq(Handlers)
    BY <1>1, <1>2, <1>5
  <2> QED
    BY <2>1, EmptySeq
<1> QED
  BY <1>1, <1>2, <1>3, <1>4, <1>5 DEF IsDones

LEMMA TailOfFails ==
  ASSUME NEW p, NEW s, IsFails(p, s), s # <<>>
  PROVE  /\ IsFails(p, Tail(s)) /\ Tail(s) \in Seq(Handlers) /\ Head(s) = "set_run"
         /\ p \in {"api", "join"}
         /\ Tail(s) = <<>>
<1>1. s \in Seq(Handlers) /\ Len(s) \in Nat /\ Len(s) # 0
  BY EmptySeq, LenProperties DEF IsFails
<1>2. p \in {"api", "join"} /\ Len(s) = 1 /\ s[1] = "set_run"
  <2>1. 1 \in 1..Len(s) /\ Len(s) - 1 + 1 = Len(s)
    BY <1>1
  <2> QED
    BY <2>1 DEF IsFails, FailAt
<1>3. /\ Tail(s) \in Seq(Handlers) /\ Len(Tail(s)) = 0 /\ Head(s) = s[1]
  BY <1>1, <1>2, HeadTailProperties
<1>4. Tail(s) = <<>>
  BY <1>3, EmptySeq
<1>5. IsFails(p, Tail(s))
  BY <1>3 DEF IsFails
<1> QED
  BY <1>2, <1>3, <1>4, <1>5

LEMMA NothingLeft ==
  /\ \A p : IsThens(p, <<>>) /\ IsDones(p, <<>>) /\ IsFails(p, <<>>)
  /\ <<>> \in Seq(Entries) /\ <<>> \in Seq(Handlers) /\ <<>> \in Seq(Promises) /\ Len(<<>>) = 0
  BY DEF IsThens, IsDones, IsFails
-----------------------------------------------------------------------------
(* The promises that are made *)

IsNew(p, r) ==
  /\ r \in PromiseType /\ r.state = "pending" /\ r.next_promises = <<>>
  /\ IsThens(p, r.thens) /\ IsDones(p, r.dones) /\ IsFails(p, r.fails)
  /\ p = "entry" => Len(r.dones) = 1
  /\ p = "run" => Len(r.thens) = 4
  /\ p = "login" => Len(r.thens) = 9

LEMMA NewThens ==
  /\ \A p \in {"entry", "init", "send"} \cup Awaited \cup Asides : IsThens(p, Check)
  /\ IsThens("api", <<Next1("check"), Next1("star")>>)
  /\ IsThens("logic", <<Next1("check"), Next1("events")>>)
  /\ IsThens("run", RunPromise.thens) /\ Len(RunPromise.thens) = 4
  /\ IsThens("login", LoginPromise.thens) /\ Len(LoginPromise.thens) = 9
<1>1. \A f \in Functions : Next1(f) \in Entries /\ Next1(f).success = f /\ Next1(f).failed = None
  BY DEF Next1, Then, Entries, Functions
<1>2. /\ Then("empty", "dump") \in Entries
      /\ Then("empty", "dump").success = "empty" /\ Then("empty", "dump").failed = "dump"
  BY DEF Then, Entries, Functions
<1> USE DEF IsThens, ThenAt, TakesAt, Functions, Awaited, Asides, Fetches
<1>3. ASSUME NEW p \in {"entry", "init", "send"} \cup Awaited \cup Asides PROVE IsThens(p, Check)
  BY <1>1, <1>3 DEF Check
<1>4. IsThens("api", <<Next1("check"), Next1("star")>>)
  BY <1>1
<1>5. IsThens("logic", <<Next1("check"), Next1("events")>>)
  BY <1>1
<1>6. IsThens("run", RunPromise.thens) /\ Len(RunPromise.thens) = 4
  BY <1>1 DEF RunPromise, NewPromise
<1>7. IsThens("login", LoginPromise.thens) /\ Len(LoginPromise.thens) = 9
  BY <1>1, <1>2 DEF LoginPromise, NewPromise
<1> QED
  BY <1>3, <1>4, <1>5, <1>6, <1>7

LEMMA NewPromises ==
  /\ IsNew("run", RunPromise) /\ IsNew("login", LoginPromise)
  /\ IsNew("entry", NewPromise(Check, <<"leave">>, <<>>))
  /\ IsNew("logic", NewPromise(<<Next1("check"), Next1("events")>>, <<>>, <<>>))
  /\ IsNew("init", PlayerRequest(<<>>, <<>>)) /\ IsNew("api2", PlayerRequest(<<>>, <<>>))
  /\ IsNew("send", NewPromise(Check, <<>>, <<>>))
  /\ IsNew("api", PlayerRequest(<<"set_run">>, AlwaysFails))
  /\ IsNew("api", NewPromise(<<Next1("check"), Next1("star")>>, <<"player", "set_run">>, AlwaysFails))
  /\ IsNew("api", NewPromise(Check, <<"enter", "set_run">>, AlwaysFails))
  /\ IsNew("api", PlayerRequest(<<"buy", "set_run">>, AlwaysFails))
  /\ IsNew("join", PlayerRequest(<<"set_run">>, AlwaysFails))
  /\ \A p \in Fetches : IsNew(p, NewPromise(Check, <<"join">>, <<>>))
  /\ \A p \in Asides : /\ IsNew(p, NewPromise(Check, <<>>, <<>>))
                       /\ IsNew(p, NewPromise(Check, <<"player">>, <<>>))
                       /\ IsNew(p, PlayerRequest(<<>>, <<>>))
  /\ IsNew("aside", NewPromise(Check, <<"chat">>, <<>>))
  /\ IsNew("aside2", NewPromise(Check, <<"apply">>, <<>>))
<1> DEFINE ok(p, t, d, f) ==
      /\ IsThens(p, t) /\ IsDones(p, d) /\ IsFails(p, f)
      /\ p = "entry" => Len(d) = 1
      /\ p = "run" => Len(t) = 4
      /\ p = "login" => Len(t) = 9
<1>1. ASSUME NEW p, NEW t, NEW d, NEW f, ok(p, t, d, f) PROVE IsNew(p, NewPromise(t, d, f))
  <2>1. t \in Seq(Entries) /\ d \in Seq(Handlers) /\ f \in Seq(Handlers)
    BY <1>1 DEF IsThens, IsDones, IsFails
  <2>2. NewPromise(t, d, f) \in PromiseType
    BY <2>1, SMTT(60) DEF NewPromise, PromiseType, Results
  <2> QED
    BY <1>1, <2>2 DEF IsNew, NewPromise
<1>2. \A p : IsDones(p, <<>>) /\ IsFails(p, <<>>)
  BY NothingLeft
<1>3. /\ IsDones("run", <<"could_login">>) /\ IsDones("entry", <<"leave">>) /\ Len(<<"leave">>) = 1
      /\ IsDones("init", <<"player">>) /\ IsDones("api2", <<"player">>)
      /\ IsDones("api", <<"player", "set_run">>) /\ IsFails("api", <<"set_run">>)
      /\ IsDones("api", <<"enter", "set_run">>) /\ IsDones("api", <<"player">> \o <<"buy", "set_run">>)
      /\ IsDones("api", <<"player">> \o <<"set_run">>)
      /\ IsDones("join", <<"player">> \o <<"set_run">>) /\ IsFails("join", <<"set_run">>)
  <2> USE DEF IsDones, DoneAt, IsFails, FailAt, Handlers
  <2>1. IsDones("run", <<"could_login">>) /\ IsDones("entry", <<"leave">>) /\ Len(<<"leave">>) = 1
    OBVIOUS
  <2>2. IsDones("init", <<"player">>) /\ IsDones("api2", <<"player">>)
    OBVIOUS
  <2>3. IsDones("api", <<"player", "set_run">>) /\ IsFails("api", <<"set_run">>)
    OBVIOUS
  <2>4. IsDones("api", <<"enter", "set_run">>) /\ IsDones("api", <<"player">> \o <<"buy", "set_run">>)
    OBVIOUS
  <2>5. IsDones("api", <<"player">> \o <<"set_run">>) /\ IsDones("join", <<"player">> \o <<"set_run">>)
    OBVIOUS
  <2>6. IsFails("join", <<"set_run">>)
    OBVIOUS
  <2> QED
    BY <2>1, <2>2, <2>3, <2>4, <2>5, <2>6
<1>8. /\ \A p \in Fetches : IsDones(p, <<"join">>)
      /\ \A p \in Asides : IsDones(p, <<"player">>)
      /\ IsDones("aside", <<"chat">>) /\ IsDones("aside2", <<"apply">>)
  <2> USE DEF IsDones, DoneAt, Handlers
  <2>1. \A p \in Fetches : IsDones(p, <<"join">>)
    OBVIOUS
  <2>2. \A p \in Asides : IsDones(p, <<"player">>)
    OBVIOUS
  <2>3. IsDones("aside", <<"chat">>) /\ IsDones("aside2", <<"apply">>)
    OBVIOUS
  <2> QED
    BY <2>1, <2>2, <2>3
<1>4. <<"player">> \o <<>> = <<"player">>
  OBVIOUS
<1>5. /\ ok("run", RunPromise.thens, <<"could_login">>, <<>>) /\ ok("login", LoginPromise.thens, <<>>, <<>>)
      /\ ok("entry", Check, <<"leave">>, <<>>)
      /\ ok("logic", <<Next1("check"), Next1("events")>>, <<>>, <<>>)
      /\ ok("init", Check, <<"player">>, <<>>) /\ ok("api2", Check, <<"player">>, <<>>)
      /\ ok("send", Check, <<>>, <<>>)
      /\ ok("api", <<Next1("check"), Next1("star")>>, <<"player", "set_run">>, <<"set_run">>)
  BY NewThens, <1>2, <1>3 DEF Awaited
<1>9. \A p \in Awaited \cup Asides : p # "entry" /\ p # "run" /\ p # "login" /\ IsThens(p, Check)
  BY NewThens DEF Awaited, Fetches, Asides
<1>10. /\ ok("api", Check, <<"player">> \o <<"set_run">>, <<"set_run">>)
       /\ ok("api", Check, <<"enter", "set_run">>, <<"set_run">>)
       /\ ok("api", Check, <<"player">> \o <<"buy", "set_run">>, <<"set_run">>)
       /\ ok("join", Check, <<"player">> \o <<"set_run">>, <<"set_run">>)
  BY <1>3, <1>9 DEF Awaited
<1>11. /\ \A p \in Fetches : ok(p, Check, <<"join">>, <<>>)
       /\ \A p \in Asides : ok(p, Check, <<>>, <<>>) /\ ok(p, Check, <<"player">>, <<>>)
       /\ ok("aside", Check, <<"chat">>, <<>>) /\ ok("aside2", Check, <<"apply">>, <<>>)
  BY <1>2, <1>8, <1>9 DEF Awaited, Asides
<1> HIDE DEF ok
<1>6. /\ RunPromise = NewPromise(RunPromise.thens, <<"could_login">>, <<>>)
      /\ LoginPromise = NewPromise(LoginPromise.thens, <<>>, <<>>)
  BY DEF RunPromise, LoginPromise, NewPromise
<1>7. /\ PlayerRequest(<<>>, <<>>) = NewPromise(Check, <<"player">>, <<>>)
      /\ PlayerRequest(<<"set_run">>, AlwaysFails)
           = NewPromise(Check, <<"player">> \o <<"set_run">>, <<"set_run">>)
      /\ PlayerRequest(<<"buy", "set_run">>, AlwaysFails)
           = NewPromise(Check, <<"player">> \o <<"buy", "set_run">>, <<"set_run">>)
  BY <1>4 DEF PlayerRequest, AlwaysFails
<1> QED
  BY <1>1, <1>5, <1>6, <1>7, <1>10, <1>11 DEF AlwaysFails
-----------------------------------------------------------------------------
(* The steps of the engine *)

\* what is there to call, and for whom
LEMMA TheEntry ==
  ASSUME Core, HasThen, NEW p, p = eng.p
  PROVE  /\ p \in Promises /\ p \in Names /\ prom[p].state = "resolved" /\ p \notin over
         /\ eng.at = "then" /\ Left(p) \in Nat \ {0}
         /\ ThenAt(p, Left(p), Entry.success) /\ Entry.failed = TakesAt(p, Left(p))
         /\ IsThens(p, Tail(prom[p].thens)) /\ Len(Tail(prom[p].thens)) = Left(p) - 1
         /\ Tail(prom[p].thens) \in Seq(Entries)
<1>1. p \in Promises /\ Started(p) /\ p \notin over /\ eng.at = "then" /\ prom[p].thens # <<>>
  BY DEF Core, EngineInv, HasThen
<1>2. IsThens(p, prom[p].thens) /\ p \in Names
  BY <1>1 DEF Core, ListsInv, Started
<1>3. /\ Left(p) \in Nat \ {0}
      /\ ThenAt(p, Left(p), Entry.success) /\ Entry.failed = TakesAt(p, Left(p))
      /\ IsThens(p, Tail(prom[p].thens)) /\ Len(Tail(prom[p].thens)) = Left(p) - 1
      /\ Tail(prom[p].thens) \in Seq(Entries)
  BY <1>1, <1>2, TailOfThens DEF Left, Entry
<1>4. prom[p].state = "resolved"
  BY <1>1, <1>3 DEF Core, EngineInv
<1> QED
  BY <1>1, <1>2, <1>3, <1>4

LEMMA LeftIsNat ==
  ASSUME Core, NEW p \in Promises
  PROVE  Left(p) \in Nat /\ (Left(p) = 0 <=> prom[p].thens = <<>>)
  BY EmptySeq, LenProperties DEF Core, EngineTypes, PromiseType, Left

\* a step that changes one promise
LEMMA OnePromise ==
  ASSUME Core, NEW p \in Promises, NEW r \in PromiseType, prom' = [prom EXCEPT ![p] = r]
  PROVE  /\ prom' \in [Promises -> PromiseType] /\ prom'[p] = r
         /\ \A x \in Promises \ {p} : prom'[x] = prom[x]
  BY DEF Core, EngineTypes

LEMMA Fields ==
  ASSUME NEW r \in PromiseType
  PROVE  /\ \A s \in Seq(Entries) :
              LET n == [r EXCEPT !.thens = s]
              IN /\ n \in PromiseType /\ n.thens = s /\ n.state = r.state /\ n.result = r.result
                 /\ n.dones = r.dones /\ n.fails = r.fails /\ n.next_promises = r.next_promises
         /\ \A v \in Results :
              LET n == [r EXCEPT !.result = v]
              IN /\ n \in PromiseType /\ n.result = v /\ n.state = r.state /\ n.thens = r.thens
                 /\ n.dones = r.dones /\ n.fails = r.fails /\ n.next_promises = r.next_promises
         /\ \A v \in {"none", "pending", "resolved", "rejected"} :
              LET n == [r EXCEPT !.state = v]
              IN /\ n \in PromiseType /\ n.state = v /\ n.result = r.result /\ n.thens = r.thens
                 /\ n.dones = r.dones /\ n.fails = r.fails /\ n.next_promises = r.next_promises
         /\ \A s \in Seq(Promises) :
              LET n == [r EXCEPT !.next_promises = s]
              IN /\ n \in PromiseType /\ n.next_promises = s /\ n.state = r.state /\ n.result = r.result
                 /\ n.thens = r.thens /\ n.dones = r.dones /\ n.fails = r.fails
  BY DEF PromiseType

LEMMA ListsKept ==
  ASSUME Core, NEW p \in Promises, \A x \in Promises \ {p} : prom'[x] = prom[x],
         IsThens(p, prom'[p].thens), IsDones(p, prom'[p].dones), IsFails(p, prom'[p].fails),
         prom'[p].state # "none" => p \in Names,
         over \subseteq over' \cup {p},
         p = "entry" /\ prom'[p].state # "none" /\ p \notin over' => Len(prom'[p].dones) = 1
  PROVE  ListsInv'
<1> SUFFICES ASSUME NEW x \in Promises
             PROVE  /\ IsThens(x, prom'[x].thens) /\ IsDones(x, prom'[x].dones)
                    /\ IsFails(x, prom'[x].fails)
                    /\ prom'[x].state # "none" => x \in Names
                    /\ x = "entry" /\ Unsettled(x)' => Len(prom'[x].dones) = 1
  BY DEF ListsInv
<1>1. CASE x = p
  BY <1>1 DEF Unsettled
<1>2. CASE x # p
  <2>1. prom'[x] = prom[x] /\ (Unsettled(x)' => Unsettled(x))
    BY <1>2 DEF Unsettled
  <2> QED
    BY <2>1 DEF Core, ListsInv
<1> QED
  BY <1>1, <1>2

\* a step that changes no state of a promise, and lets no other one run
LEMMA WaitKept ==
  ASSUME Core, over' = over,
         \A x \in Promises : /\ prom'[x].state = prom[x].state
                             /\ prom'[x].next_promises = prom[x].next_promises,
         eng'.at # "idle" => eng.at # "idle" /\ eng'.p = eng.p,
         Left("login")' = Left("login") \/ (eng.at # "idle" /\ eng.p = "login")
  PROVE  WaitInv'
<1>1. /\ \A x \in Promises : (Unsettled(x)' <=> Unsettled(x)) /\ (Started(x)' <=> Started(x))
      /\ over \subseteq Promises
  BY DEF Unsettled, Started, Core, EngineTypes
<1>2. /\ \A p \in over' : Started(p)' /\ prom'[p].next_promises = <<>>
      /\ \A p \in Promises :
           prom'[p].next_promises = IF p \in Subs /\ Unsettled(p)' THEN <<Parent(p)>> ELSE <<>>
  BY <1>1 DEF Core, WaitInv
<1>3. ASSUME NEW q \in Subs, Unsettled(q)'
      PROVE  /\ prom'[Parent(q)].state = "resolved" /\ Parent(q) \notin over'
             /\ eng'.at # "idle" => eng'.p # Parent(q)
             /\ \A r \in Subs : Unsettled(r)' /\ Parent(r) = Parent(q) => r = q
             /\ q \in {"init", "send"} => Left("login")' \in 1..6
  <2>1. q \in Promises /\ Parent(q) \in Promises /\ Subs \subseteq Promises /\ Unsettled(q)
    BY <1>1, <1>3, NamesArePromises
  <2>2. /\ prom[Parent(q)].state = "resolved" /\ Parent(q) \notin over
        /\ eng.at # "idle" => eng.p # Parent(q)
        /\ \A r \in Subs : Unsettled(r) /\ Parent(r) = Parent(q) => r = q
        /\ q \in {"init", "send"} => Left("login") \in 1..6
    BY <2>1 DEF Core, WaitInv
  <2>3. q \in {"init", "send"} => Parent(q) = "login"
    BY DEF Parent
  <2> QED
    BY <1>1, <2>1, <2>2, <2>3
<1> QED
  BY <1>2, <1>3 DEF WaitInv

LEMMA ReturnedStep ==
  ASSUME Core, HasThen, NEW v \in Results, Returned(v), NEW p, p = eng.p
  PROVE  /\ Core'
         /\ p \in Promises /\ prom[p].state = "resolved" /\ p \notin over /\ Left(p) \in Nat \ {0}
         /\ prom'[p].state = "resolved" /\ Left(p)' = Left(p) - 1
         /\ \A x \in Promises \ {p} : prom'[x] = prom[x]
         /\ eng' = eng /\ eng.at = "then" /\ over' = over
<1>1. /\ p \in Promises /\ prom[p].state = "resolved" /\ p \notin over /\ Left(p) \in Nat \ {0}
      /\ IsThens(p, Tail(prom[p].thens)) /\ Len(Tail(prom[p].thens)) = Left(p) - 1
      /\ Tail(prom[p].thens) \in Seq(Entries) /\ eng.at = "then"
  BY TheEntry
<1>2. eng' = eng /\ over' = over
  BY DEF Returned
<1>3. /\ prom'[p] = [prom[p] EXCEPT !.thens = Tail(@), !.result = v]
      /\ \A x \in Promises \ {p} : prom'[x] = prom[x]
      /\ prom' \in [Promises -> PromiseType]
  <2> DEFINE r == [[prom[p] EXCEPT !.thens = Tail(@)] EXCEPT !.result = v]
  <2>1. r \in PromiseType /\ r = [prom[p] EXCEPT !.thens = Tail(@), !.result = v]
    BY <1>1, Fields DEF Core, EngineTypes
  <2>2. prom' = [prom EXCEPT ![p] = r]
    BY DEF Returned, Popped, Core, EngineTypes
  <2> QED
    BY <1>1, <2>1, <2>2, OnePromise
<1>4. /\ prom'[p].state = prom[p].state /\ prom'[p].next_promises = prom[p].next_promises
      /\ prom'[p].dones = prom[p].dones /\ prom'[p].fails = prom[p].fails
      /\ prom'[p].thens = Tail(prom[p].thens)
  BY <1>1, <1>3 DEF Core, EngineTypes, PromiseType
<1>5. Left(p)' = Left(p) - 1 /\ \A x \in Promises \ {p} : Left(x)' = Left(x)
  BY <1>1, <1>3, <1>4 DEF Left
<1>6. EngineTypes'
  BY <1>2, <1>3 DEF Core, EngineTypes
<1>7. ListsInv'
  <2>1. prom'[p].state # "none" /\ p \notin over' => Unsettled(p)
    BY <1>2, <1>4 DEF Unsettled
  <2>2. /\ IsDones(p, prom[p].dones) /\ IsFails(p, prom[p].fails)
        /\ p \in Names /\ (p = "entry" /\ Unsettled(p) => Len(prom[p].dones) = 1)
    BY <1>1, TheEntry DEF Core, ListsInv
  <2>3. IsThens(p, prom'[p].thens)
    BY <1>1, <1>4
  <2>4. IsDones(p, prom'[p].dones) /\ IsFails(p, prom'[p].fails)
    BY <1>4, <2>2
  <2>5. over \subseteq over' \cup {p}
    BY <1>2
  <2>6. p = "entry" /\ prom'[p].state # "none" /\ p \notin over' => Len(prom'[p].dones) = 1
    BY <1>4, <2>1, <2>2
  <2> QED
    BY <1>1, <1>3, <2>2, <2>3, <2>4, <2>5, <2>6, ListsKept
<1>8. EngineInv'
  BY <1>1, <1>2, <1>3, <1>4, <1>5 DEF Core, EngineInv, Started
<1>9. WaitInv'
  <2>1. Left("login")' = Left("login") \/ p = "login"
    BY <1>5, NamesArePromises
  <2> QED
    BY <1>1, <1>2, <1>3, <1>4, <2>1, WaitKept
<1> QED
  BY <1>1, <1>2, <1>3, <1>4, <1>5, <1>6, <1>7, <1>8, <1>9 DEF Core

\* a step of the engine that changes no promise
LEMMA EngineOnly ==
  ASSUME Core, UNCHANGED <<prom, over>>, eng' \in [at : {"idle", "then", "settled", "given_up"},
           p : Promises \cup {None}, arg : {None, "error"}, todo : Seq(Handlers)],
         eng.at # "idle", eng'.at # "idle" => eng'.p = eng.p
  PROVE  EngineTypes' /\ ListsInv' /\ WaitInv'
<1>1. EngineTypes'
  BY DEF Core, EngineTypes
<1>2. ListsInv'
  BY DEF Core, ListsInv, Unsettled
<1>3. Left("login")' = Left("login")
  BY DEF Left
<1>4. WaitInv'
  BY <1>3, WaitKept
<1> QED
  BY <1>1, <1>2, <1>4

LEMMA ThensDoneStep ==
  ASSUME Core, ThensDone, NEW p, p = eng.p
  PROVE  /\ Core' /\ UNCHANGED <<prom, over>>
         /\ p \in Promises /\ p \notin over /\ Started(p) /\ eng.at = "then" /\ Left(p) = 0
         /\ eng'.at = "settled" /\ eng'.p = p
         /\ prom[p].state = "resolved" => eng'.todo = prom[p].dones
<1>1. /\ UNCHANGED <<prom, over>> /\ eng.at = "then" /\ p \in Promises /\ p \notin over /\ Started(p)
      /\ prom[p].thens = <<>> /\ Left(p) = 0
  <2>1. p \in Promises
    BY DEF Core, EngineInv, ThensDone
  <2> QED
    BY <2>1, LeftIsNat DEF ThensDone, Core, EngineInv
<1>2. /\ eng' = [eng EXCEPT !.at = "settled",
                   !.todo = IF prom[p].state = "rejected" THEN prom[p].fails ELSE prom[p].dones]
      /\ prom[p].fails \in Seq(Handlers) /\ prom[p].dones \in Seq(Handlers)
  BY <1>1 DEF ThensDone, Core, EngineTypes, PromiseType
<1>3. /\ eng'.at = "settled" /\ eng'.p = p /\ eng'.arg = eng.arg
      /\ eng'.todo = IF prom[p].state = "rejected" THEN prom[p].fails ELSE prom[p].dones
      /\ eng' \in [at : {"idle", "then", "settled", "given_up"},
           p : Promises \cup {None}, arg : {None, "error"}, todo : Seq(Handlers)]
  BY <1>2 DEF Core, EngineTypes
<1>4. EngineTypes' /\ ListsInv' /\ WaitInv'
  BY <1>1, <1>3, EngineOnly
<1>5. prom[p].state = "rejected" => p = "login"
  BY <1>1 DEF Core, EngineInv
<1>6. IsDones(p, eng'.todo)
  <2>1. CASE prom[p].state # "rejected"
    BY <1>1, <1>3, <2>1 DEF Core, ListsInv
  <2>2. CASE prom[p].state = "rejected"
    <3>1. IsFails("login", prom["login"].fails) /\ p = "login"
      BY <1>1, <1>5, <2>2 DEF Core, ListsInv
    <3>2. prom["login"].fails = <<>>
      BY <3>1, TailOfFails
    <3> QED
      BY <1>3, <2>2, <3>1, <3>2, NothingLeft
  <2> QED
    BY <2>1, <2>2
<1>7. EngineInv'
  BY <1>1, <1>3, <1>5, <1>6 DEF EngineInv, Started, Left
<1> QED
  BY <1>1, <1>3, <1>4, <1>7 DEF Core, Started

\* a handler that was called
LEMMA HandlerOf ==
  ASSUME Core, HasHandler, NEW p, p = eng.p
  PROVE  /\ p \in Promises /\ p \notin over /\ Started(p) /\ eng.at \in {"settled", "given_up"}
         /\ Left(p) = 0 /\ Tail(eng.todo) \in Seq(Handlers)
         /\ eng.at = "settled" => /\ DoneAt(p, Len(eng.todo), Head(eng.todo)) /\ IsDones(p, Tail(eng.todo))
                                  /\ Len(eng.todo) = 1 => Tail(eng.todo) = <<>>
                                  /\ p # "login"
         /\ eng.at = "given_up" => /\ p \in {"api", "join"} /\ Head(eng.todo) = "set_run" /\ Tail(eng.todo) = <<>>
                                   /\ IsFails(p, Tail(eng.todo))
<1>1. /\ eng.at \in {"settled", "given_up"} /\ eng.todo # <<>>
      /\ p \in Promises /\ p \notin over /\ Started(p) /\ Left(p) = 0
  BY DEF HasHandler, Finishing, Core, EngineInv
<1>2. CASE eng.at = "settled"
  <2>1. IsDones(p, eng.todo)
    BY <1>2 DEF Core, EngineInv
  <2>2. /\ IsDones(p, Tail(eng.todo)) /\ Tail(eng.todo) \in Seq(Handlers)
        /\ DoneAt(p, Len(eng.todo), Head(eng.todo)) /\ (Len(eng.todo) = 1 => Tail(eng.todo) = <<>>)
    BY <1>1, <2>1, TailOfDones
  <2>3. p # "login"
    BY <2>2 DEF DoneAt, Asides, Fetches
  <2> QED
    BY <1>1, <1>2, <2>2, <2>3
<1>3. CASE eng.at = "given_up"
  <2>1. IsFails(p, eng.todo)
    BY <1>3 DEF Core, EngineInv
  <2>2. /\ p \in {"api", "join"} /\ Head(eng.todo) = "set_run" /\ Tail(eng.todo) = <<>>
        /\ IsFails(p, Tail(eng.todo)) /\ Tail(eng.todo) \in Seq(Handlers)
    BY <1>1, <2>1, TailOfFails
  <2> QED
    BY <1>1, <1>3, <2>2
<1> QED
  BY <1>1, <1>2, <1>3

LEMMA RanStep ==
  ASSUME Core, HasHandler, Ran
  PROVE  /\ Core' /\ UNCHANGED <<prom, over>>
         /\ eng'.at = eng.at /\ eng'.p = eng.p /\ eng'.todo = Tail(eng.todo)
<1>1. /\ eng.p \in Promises /\ eng.p \notin over /\ Started(eng.p) /\ eng.at \in {"settled", "given_up"}
      /\ Left(eng.p) = 0 /\ Tail(eng.todo) \in Seq(Handlers)
      /\ eng.at = "settled" => IsDones(eng.p, Tail(eng.todo))
      /\ eng.at = "given_up" => IsFails(eng.p, Tail(eng.todo))
  BY HandlerOf
<1>2. eng' = [eng EXCEPT !.todo = Tail(eng.todo)] /\ UNCHANGED <<prom, over>>
  BY DEF Ran
<1>3. /\ eng'.at = eng.at /\ eng'.p = eng.p /\ eng'.todo = Tail(eng.todo) /\ eng'.arg = eng.arg
      /\ eng' \in [at : {"idle", "then", "settled", "given_up"},
           p : Promises \cup {None}, arg : {None, "error"}, todo : Seq(Handlers)]
  BY <1>1, <1>2 DEF Core, EngineTypes
<1>4. EngineTypes' /\ ListsInv' /\ WaitInv'
  BY <1>1, <1>2, <1>3, EngineOnly
<1>5. EngineInv'
  BY <1>1, <1>2, <1>3 DEF Core, EngineInv, Started, Left
<1> QED
  BY <1>2, <1>3, <1>4, <1>5 DEF Core

LEMMA AbortedStep ==
  ASSUME Core, HasHandler, Aborted
  PROVE  Core' /\ UNCHANGED <<prom, over>> /\ eng' = Idle /\ eng'.at = "idle"
<1>1. UNCHANGED <<prom, over>> /\ eng' = Idle /\ eng'.at = "idle"
  BY DEF Aborted, Idle
<1>2. eng.at # "idle"
  BY DEF HasHandler, Finishing
<1>3. Idle \in [at : {"idle", "then", "settled", "given_up"},
           p : Promises \cup {None}, arg : {None, "error"}, todo : Seq(Handlers)]
  BY NothingLeft DEF Idle
<1>4. EngineTypes' /\ ListsInv' /\ WaitInv'
  BY <1>1, <1>2, <1>3, EngineOnly
<1>5. EngineInv'
  BY <1>1 DEF EngineInv
<1> QED
  BY <1>1, <1>4, <1>5 DEF Core

LEMMA WhereTypes ==
  /\ \A w \in {"then", "failed", "handler"}, p \in Promises, a \in {None, "error"} :
       /\ At(w, p, a) \in [at : {"idle", "then", "failed", "handler", "settled", "given_up"},
                           p : Promises \cup {None}, arg : {None, "error"}, todo : Seq(Handlers)]
       /\ At(w, p, a).at = w /\ At(w, p, a).p = p /\ At(w, p, a).arg = a /\ At(w, p, a).todo = <<>>
  /\ Idle \in [at : {"idle", "then", "failed", "handler", "settled", "given_up"},
               p : Promises \cup {None}, arg : {None, "error"}, todo : Seq(Handlers)]
  /\ Idle.at = "idle"
  BY NothingLeft DEF At, Idle

\* an error that a check throws: no entry of the list that calls it takes errors
LEMMA ThrewStep ==
  ASSUME Core, Calling("check"), Threw("error"), NEW p, p = eng.p
  PROVE  /\ Core'
         /\ p \in Promises /\ prom[p].state = "resolved" /\ p \notin over /\ Left(p) \in Nat \ {0}
         /\ prom'[p].state = "rejected" /\ Left(p)' = Left(p) - 1
         /\ ThenAt(p, Left(p), "check")
         /\ \A x \in Promises \ {p} : prom'[x] = prom[x]
         /\ eng.at = "then" /\ eng'.at = "failed" /\ eng'.p = p /\ over' = over
<1>1. /\ p \in Promises /\ prom[p].state = "resolved" /\ p \notin over /\ Left(p) \in Nat \ {0}
      /\ IsThens(p, Tail(prom[p].thens)) /\ Len(Tail(prom[p].thens)) = Left(p) - 1
      /\ Tail(prom[p].thens) \in Seq(Entries) /\ eng.at = "then"
      /\ ThenAt(p, Left(p), "check") /\ Entry.failed = TakesAt(p, Left(p)) /\ p \in Names
  BY TheEntry DEF Calling
<1>2. Entry.failed = None /\ (p = "login" => Left(p) = 9)
  BY <1>1 DEF ThenAt, TakesAt, Awaited, Asides, Fetches
<1>3. eng' = At("failed", p, "error") /\ over' = over
  BY <1>2 DEF Threw
<1>4. /\ eng'.at = "failed" /\ eng'.p = p /\ eng'.arg = "error"
      /\ eng' \in [at : {"idle", "then", "failed", "handler", "settled", "given_up"},
               p : Promises \cup {None}, arg : {None, "error"}, todo : Seq(Handlers)]
  BY <1>1, <1>3, WhereTypes
<1>5. /\ prom' \in [Promises -> PromiseType]
      /\ \A x \in Promises \ {p} : prom'[x] = prom[x]
      /\ prom'[p].state = "rejected" /\ prom'[p].next_promises = prom[p].next_promises
      /\ prom'[p].dones = prom[p].dones /\ prom'[p].fails = prom[p].fails
      /\ prom'[p].thens = Tail(prom[p].thens)
  <2> DEFINE r1 == [prom[p] EXCEPT !.thens = Tail(@)]
             r2 == [r1 EXCEPT !.state = "rejected"]
             r3 == [r2 EXCEPT !.result = "error"]
  <2>1. prom[p] \in PromiseType
    BY <1>1 DEF Core, EngineTypes
  <2>2. /\ r1 \in PromiseType /\ r1.thens = Tail(prom[p].thens) /\ r1.next_promises = prom[p].next_promises
        /\ r1.dones = prom[p].dones /\ r1.fails = prom[p].fails
    BY <1>1, <2>1 DEF PromiseType
  <2>3. /\ r2 \in PromiseType /\ r2.state = "rejected" /\ r2.thens = r1.thens
        /\ r2.next_promises = r1.next_promises /\ r2.dones = r1.dones /\ r2.fails = r1.fails
    BY <2>2, Fields
  <2>4. /\ r3 \in PromiseType /\ r3.state = r2.state /\ r3.thens = r2.thens
        /\ r3.next_promises = r2.next_promises /\ r3.dones = r2.dones /\ r3.fails = r2.fails
    BY <2>3, Fields DEF Results
  <2>5. prom' = [prom EXCEPT ![p] = r3]
    BY DEF Threw, Popped, Core, EngineTypes
  <2> HIDE DEF r1, r2, r3
  <2>6. /\ prom' \in [Promises -> PromiseType] /\ prom'[p] = r3
        /\ \A x \in Promises \ {p} : prom'[x] = prom[x]
    BY <1>1, <2>4, <2>5, OnePromise
  <2> QED
    BY <2>2, <2>3, <2>4, <2>6
<1>6. Left(p)' = Left(p) - 1
  BY <1>1, <1>5 DEF Left
<1>7. EngineTypes'
  BY <1>3, <1>4, <1>5 DEF Core, EngineTypes
<1>8. ListsInv'
  <2>1. prom'[p].state # "none" /\ p \notin over' => Unsettled(p)
    BY <1>1, <1>3 DEF Unsettled
  <2>2. /\ IsDones(p, prom[p].dones) /\ IsFails(p, prom[p].fails)
        /\ (p = "entry" /\ Unsettled(p) => Len(prom[p].dones) = 1)
    BY <1>1 DEF Core, ListsInv
  <2>3. IsThens(p, prom'[p].thens) /\ IsDones(p, prom'[p].dones) /\ IsFails(p, prom'[p].fails)
    BY <1>1, <1>5, <2>2
  <2>5. over \subseteq over' \cup {p}
    BY <1>3
  <2>6. p = "entry" /\ prom'[p].state # "none" /\ p \notin over' => Len(prom'[p].dones) = 1
    BY <1>5, <2>1, <2>2
  <2> QED
    BY <1>1, <1>5, <2>3, <2>5, <2>6, ListsKept
<1>9. EngineInv'
  <2>1. p = "login" => Left("login")' >= 1
    BY <1>2, <1>6
  <2> QED
    BY <1>1, <1>3, <1>4, <1>5, <2>1 DEF EngineInv, Started
<1>10. WaitInv'
  <2>1. \A x \in Promises : /\ Unsettled(x)' <=> Unsettled(x)
                            /\ Started(x)' <=> Started(x)
                            /\ x # p => prom'[x].state = prom[x].state /\ Left(x)' = Left(x)
                            /\ prom'[x].next_promises = prom[x].next_promises
    BY <1>1, <1>3, <1>5 DEF Unsettled, Started, Left
  <2>2. \A q \in Subs : Unsettled(q) => Parent(q) # p
    BY <1>1 DEF Core, WaitInv
  <2>3. ASSUME NEW q \in Subs, Unsettled(q)'
        PROVE  /\ prom'[Parent(q)].state = "resolved" /\ Parent(q) \notin over'
               /\ eng'.p # Parent(q)
               /\ \A r \in Subs : Unsettled(r)' /\ Parent(r) = Parent(q) => r = q
               /\ q \in {"init", "send"} => Left("login")' \in 1..6
    <3>1. q \in Promises /\ Parent(q) \in Promises /\ Subs \subseteq Promises /\ Unsettled(q)
      BY <2>1, <2>3, NamesArePromises
    <3>2. /\ prom[Parent(q)].state = "resolved" /\ Parent(q) \notin over
          /\ \A r \in Subs : Unsettled(r) /\ Parent(r) = Parent(q) => r = q
          /\ q \in {"init", "send"} => Left("login") \in 1..6
      BY <3>1 DEF Core, WaitInv
    <3>3. q \in {"init", "send"} => Parent(q) = "login"
      BY DEF Parent
    <3> QED
      BY <1>3, <1>4, <2>1, <2>2, <3>1, <3>2, <3>3
  <2>4. over \subseteq Promises
    BY DEF Core, EngineTypes
  <2>5. /\ \A x \in over' : Started(x)' /\ prom'[x].next_promises = <<>>
        /\ \A x \in Promises :
             prom'[x].next_promises = IF x \in Subs /\ Unsettled(x)' THEN <<Parent(x)>> ELSE <<>>
    BY <1>3, <2>1, <2>4 DEF Core, WaitInv
  <2> QED
    BY <2>3, <2>5 DEF WaitInv
<1> QED
  BY <1>1, <1>3, <1>4, <1>5, <1>6, <1>7, <1>8, <1>9, <1>10 DEF Core

\* the error goes to a function that takes it: the last of the login
LEMMA CatchStep ==
  ASSUME Core, Catch, NEW p, p = eng.p
  PROVE  /\ Core' /\ over' = over
         /\ p = "login" /\ prom[p].state = "rejected" /\ prom'[p].state = "rejected" /\ p \notin over
         /\ Left(p)' = 0 /\ eng.at = "failed" /\ eng'.at = "handler" /\ eng'.p = p
         /\ \A x \in Promises \ {p} : prom'[x] = prom[x]
<1> DEFINE s == prom[p].thens
           i == CHOOSE j \in Catchers : \A k \in Catchers : j <= k
<1>1. /\ p \in Promises /\ p \notin over /\ eng.at = "failed" /\ prom[p].state = "rejected"
      /\ eng.arg = "error" /\ over' = over
  BY DEF Core, EngineInv, Catch
<1>2. IsThens(p, s) /\ Len(s) \in Nat /\ p \in Names
  BY <1>1, LeftIsNat DEF Core, ListsInv, Left
<1>3. \A j \in Catchers : j = Len(s) /\ p = "login" /\ s[j].failed = "dump"
  <2> SUFFICES ASSUME NEW j \in Catchers PROVE j = Len(s) /\ p = "login" /\ s[j].failed = "dump"
    OBVIOUS
  <2>1. j \in 1..Len(s) /\ s[j].failed # None
    BY DEF Catchers
  <2>2. s[j].failed = TakesAt(p, Len(s) - j + 1)
    BY <1>2, <2>1 DEF IsThens
  <2> QED
    BY <1>2, <2>1, <2>2 DEF TakesAt
<1>4. Len(s) \in Catchers /\ Catchers = {Len(s)}
  BY <1>3 DEF Catch
<1>5. i = Len(s) /\ i \in Catchers
  <2>1. \E j \in Catchers : \A k \in Catchers : j <= k
    BY <1>2, <1>4
  <2> QED
    BY <1>4, <2>1
<1>6. p = "login" /\ s[i].failed = "dump"
  BY <1>3, <1>5
<1>7. AfterCatcher(i) = <<>>
  <2>1. s \in Seq(Entries)
    BY <1>2 DEF IsThens
  <2>2. Len(SubSeq(s, Len(s) + 1, Len(s))) = 0 /\ SubSeq(s, Len(s) + 1, Len(s)) \in Seq(Entries)
    BY <1>2, <2>1
  <2>3. SubSeq(s, Len(s) + 1, Len(s)) = <<>>
    BY <2>2, EmptySeq
  <2> QED
    BY <1>5, <2>3 DEF AfterCatcher
<1>8. /\ prom' = [prom EXCEPT ![p].thens = <<>>]
      /\ eng' = [eng EXCEPT !.at = "handler", !.todo = <<"dump">>]
  BY <1>6, <1>7 DEF Catch
<1> HIDE DEF i, s
<1>9. /\ eng'.at = "handler" /\ eng'.p = p /\ eng'.arg = "error"
      /\ eng' \in [at : {"idle", "then", "failed", "handler", "settled", "given_up"},
               p : Promises \cup {None}, arg : {None, "error"}, todo : Seq(Handlers)]
  <2>1. <<"dump">> \in Seq(Handlers)
    BY DEF Handlers
  <2> QED
    BY <1>1, <1>8, <2>1 DEF Core, EngineTypes
<1>10. /\ prom' \in [Promises -> PromiseType]
       /\ \A x \in Promises \ {p} : prom'[x] = prom[x]
       /\ prom'[p].state = prom[p].state /\ prom'[p].next_promises = prom[p].next_promises
       /\ prom'[p].dones = prom[p].dones /\ prom'[p].fails = prom[p].fails
       /\ prom'[p].thens = <<>>
  <2> DEFINE r == [prom[p] EXCEPT !.thens = <<>>]
  <2>1. /\ r \in PromiseType /\ r.thens = <<>> /\ r.next_promises = prom[p].next_promises
        /\ r.dones = prom[p].dones /\ r.fails = prom[p].fails /\ r.state = prom[p].state
    BY <1>1, NothingLeft DEF Core, EngineTypes, PromiseType
  <2>2. prom' = [prom EXCEPT ![p] = r]
    BY <1>8
  <2> HIDE DEF r
  <2> QED
    BY <1>1, <2>1, <2>2, OnePromise
<1>11. Left(p)' = 0
  BY <1>10, NothingLeft DEF Left
<1>12. EngineTypes'
  BY <1>1, <1>9, <1>10 DEF Core, EngineTypes
<1>13. ListsInv'
  <2>1. IsDones(p, prom[p].dones) /\ IsFails(p, prom[p].fails)
    BY <1>1 DEF Core, ListsInv
  <2>2. IsThens(p, prom'[p].thens) /\ IsDones(p, prom'[p].dones) /\ IsFails(p, prom'[p].fails)
    BY <1>10, <2>1, NothingLeft
  <2>3. over \subseteq over' \cup {p}
    BY <1>1
  <2>4. p # "entry"
    BY <1>6
  <2> QED
    BY <1>1, <1>2, <1>10, <2>2, <2>3, <2>4, ListsKept
<1>14. EngineInv'
  BY <1>1, <1>6, <1>9, <1>10, <1>11 DEF EngineInv, Started, Core
<1>15. WaitInv'
  <2>1. \A x \in Promises : /\ prom'[x].state = prom[x].state
                            /\ prom'[x].next_promises = prom[x].next_promises
    BY <1>10
  <2> QED
    BY <1>1, <1>6, <1>9, <2>1, WaitKept
<1> QED
  BY <1>1, <1>6, <1>9, <1>10, <1>11, <1>12, <1>13, <1>14, <1>15 DEF Core

\* an error that nothing takes, which is not one of the login
LEMMA NoCatchStep ==
  ASSUME Core, NoCatch, NEW p, p = eng.p
  PROVE  /\ Core' /\ over' = over
         /\ p \in Promises /\ p # "login" /\ prom[p].state = "rejected" /\ p \notin over
         /\ prom'[p].state = "rejected"
         /\ Left(p)' = 0 /\ eng.at = "failed" /\ eng'.at = "given_up" /\ eng'.p = p
         /\ \A x \in Promises \ {p} : prom'[x] = prom[x]
<1>1. /\ p \in Promises /\ p \notin over /\ eng.at = "failed" /\ prom[p].state = "rejected"
      /\ eng.arg = "error" /\ over' = over
  BY DEF Core, EngineInv, NoCatch
<1>2. IsThens(p, prom[p].thens) /\ Left(p) \in Nat /\ p \in Names
  BY <1>1, LeftIsNat DEF Core, ListsInv
<1>3. p # "login"
  <2> SUFFICES ASSUME p = "login" PROVE FALSE
    OBVIOUS
  <2>1. Left(p) >= 1
    BY <1>1 DEF Core, EngineInv
  <2>2. Left(p) \in 1..Left(p) /\ Left(p) - Left(p) + 1 = 1
    BY <1>2, <2>1
  <2>3. prom[p].thens[Left(p)].failed = "dump"
    BY <1>2, <2>2 DEF IsThens, TakesAt, Left
  <2> QED
    BY <2>2, <2>3, NamesArePromises DEF NoCatch, Catchers, Left
<1>4. /\ prom' = [prom EXCEPT ![p].thens = <<>>]
      /\ eng' = [eng EXCEPT !.at = "given_up", !.todo = prom[p].fails]
      /\ prom[p].fails \in Seq(Handlers)
  BY <1>1 DEF NoCatch, Core, EngineTypes, PromiseType
<1>5. /\ eng'.at = "given_up" /\ eng'.p = p /\ eng'.arg = "error" /\ eng'.todo = prom[p].fails
      /\ eng' \in [at : {"idle", "then", "failed", "handler", "settled", "given_up"},
               p : Promises \cup {None}, arg : {None, "error"}, todo : Seq(Handlers)]
  BY <1>1, <1>4 DEF Core, EngineTypes
<1>6. /\ prom' \in [Promises -> PromiseType]
      /\ \A x \in Promises \ {p} : prom'[x] = prom[x]
      /\ prom'[p].state = prom[p].state /\ prom'[p].next_promises = prom[p].next_promises
      /\ prom'[p].dones = prom[p].dones /\ prom'[p].fails = prom[p].fails
      /\ prom'[p].thens = <<>>
  <2> DEFINE r == [prom[p] EXCEPT !.thens = <<>>]
  <2>1. /\ r \in PromiseType /\ r.thens = <<>> /\ r.next_promises = prom[p].next_promises
        /\ r.dones = prom[p].dones /\ r.fails = prom[p].fails /\ r.state = prom[p].state
    BY <1>1, NothingLeft DEF Core, EngineTypes, PromiseType
  <2>2. prom' = [prom EXCEPT ![p] = r]
    BY <1>4
  <2> HIDE DEF r
  <2> QED
    BY <1>1, <2>1, <2>2, OnePromise
<1>7. Left(p)' = 0
  BY <1>6, NothingLeft DEF Left
<1>8. EngineTypes'
  BY <1>1, <1>5, <1>6 DEF Core, EngineTypes
<1>9. IsDones(p, prom[p].dones) /\ IsFails(p, prom[p].fails)
      /\ (p = "entry" /\ Unsettled(p) => Len(prom[p].dones) = 1)
  BY <1>1 DEF Core, ListsInv
<1>10. ListsInv'
  <2>1. IsThens(p, prom'[p].thens) /\ IsDones(p, prom'[p].dones) /\ IsFails(p, prom'[p].fails)
    BY <1>6, <1>9, NothingLeft
  <2>2. over \subseteq over' \cup {p}
    BY <1>1
  <2>3. p = "entry" /\ prom'[p].state # "none" /\ p \notin over' => Len(prom'[p].dones) = 1
    BY <1>1, <1>6, <1>9 DEF Unsettled
  <2> QED
    BY <1>1, <1>2, <1>6, <2>1, <2>2, <2>3, ListsKept
<1>11. EngineInv'
  BY <1>1, <1>3, <1>5, <1>6, <1>7, <1>9 DEF EngineInv, Started
<1>12. WaitInv'
  <2>1. \A x \in Promises : /\ prom'[x].state = prom[x].state
                            /\ prom'[x].next_promises = prom[x].next_promises
    BY <1>6
  <2>2. Left("login")' = Left("login")
    BY <1>3, <1>6, NamesArePromises DEF Left
  <2> QED
    BY <1>1, <1>5, <2>1, <2>2, WaitKept
<1> QED
  BY <1>1, <1>3, <1>5, <1>6, <1>7, <1>8, <1>10, <1>11, <1>12 DEF Core

\* the error was taken
LEMMA HandledStep ==
  ASSUME Core, eng.at = "handler", Handled(None)
  PROVE  /\ Core' /\ over' = over
         /\ eng.p = "login" /\ eng'.p = "login" /\ eng'.at = "then" /\ "login" \notin over
         /\ Left("login")' = 0 /\ Left("login") = 0
         /\ prom'["login"].state = "rejected" /\ prom["login"].state = "rejected"
         /\ \A x \in Promises \ {"login"} : prom'[x] = prom[x]
<1> DEFINE p == "login"
<1>1. /\ p \in Promises /\ p \notin over /\ eng.p = p /\ prom[p].state = "rejected" /\ Left(p) = 0
      /\ eng.arg = "error" /\ over' = over
  BY NamesArePromises DEF Core, EngineInv, Handled
<1>2. eng' = At("then", p, None)
  BY <1>1 DEF Handled
<1>3. /\ eng'.at = "then" /\ eng'.p = p
      /\ eng' \in [at : {"idle", "then", "failed", "handler", "settled", "given_up"},
               p : Promises \cup {None}, arg : {None, "error"}, todo : Seq(Handlers)]
  BY <1>1, <1>2, WhereTypes
<1>4. /\ prom' \in [Promises -> PromiseType]
      /\ \A x \in Promises \ {p} : prom'[x] = prom[x]
      /\ prom'[p].state = prom[p].state /\ prom'[p].next_promises = prom[p].next_promises
      /\ prom'[p].dones = prom[p].dones /\ prom'[p].fails = prom[p].fails
      /\ prom'[p].thens = prom[p].thens
  <2> DEFINE r == [prom[p] EXCEPT !.result = None]
  <2>1. /\ r \in PromiseType /\ r.thens = prom[p].thens /\ r.next_promises = prom[p].next_promises
        /\ r.dones = prom[p].dones /\ r.fails = prom[p].fails /\ r.state = prom[p].state
    BY <1>1 DEF Core, EngineTypes, PromiseType, Results
  <2>2. prom' = [prom EXCEPT ![p] = r]
    BY <1>1 DEF Handled
  <2> HIDE DEF r
  <2> QED
    BY <1>1, <2>1, <2>2, OnePromise
<1>5. Left(p)' = 0
  BY <1>1, <1>4 DEF Left
<1>6. EngineTypes'
  BY <1>1, <1>3, <1>4 DEF Core, EngineTypes
<1>7. ListsInv'
  <2>1. /\ IsThens(p, prom[p].thens) /\ IsDones(p, prom[p].dones) /\ IsFails(p, prom[p].fails)
        /\ p \in Names
    BY <1>1 DEF Core, ListsInv
  <2>2. IsThens(p, prom'[p].thens) /\ IsDones(p, prom'[p].dones) /\ IsFails(p, prom'[p].fails)
    BY <1>4, <2>1
  <2>3. over \subseteq over' \cup {p} /\ p # "entry"
    BY <1>1
  <2> HIDE DEF p
  <2> QED
    BY <1>1, <1>4, <2>1, <2>2, <2>3, ListsKept
<1>8. EngineInv'
  BY <1>1, <1>3, <1>4, <1>5 DEF EngineInv, Started
<1>9. WaitInv'
  <2>1. \A x \in Promises : /\ prom'[x].state = prom[x].state
                            /\ prom'[x].next_promises = prom[x].next_promises
    BY <1>4
  <2> QED
    BY <1>1, <1>3, <2>1, WaitKept
<1> QED
  BY <1>1, <1>3, <1>4, <1>5, <1>6, <1>7, <1>8, <1>9 DEF Core
-----------------------------------------------------------------------------
(* The end of a promise *)

LEMMA TheEnd ==
  ASSUME Core, eng.at \in {"settled", "given_up"}, NEW p, p = eng.p
  PROVE  /\ p \in Promises /\ p \notin over /\ Started(p) /\ p \in Names /\ Left(p) = 0
         /\ Waiting = IF p \in Subs THEN <<Parent(p)>> ELSE <<>>
         /\ p \in Subs => /\ Waiting # <<>> /\ Head(Waiting) = Parent(p) /\ Parent(p) \in Promises
                          /\ Parent(p) # p /\ Parent(p) \notin Subs
                          /\ prom[Parent(p)].state = "resolved" /\ Parent(p) \notin over
                          /\ \A r \in Subs : Unsettled(r) /\ Parent(r) = Parent(p) => r = p
         /\ \A q \in Subs : Unsettled(q) => Parent(q) # p
<1>1. p \in Promises /\ p \notin over /\ Started(p) /\ p \in Names /\ Left(p) = 0
  BY DEF Core, EngineInv, ListsInv, Started
<1>2. Unsettled(p)
  BY <1>1 DEF Unsettled, Started
<1>3. Waiting = IF p \in Subs THEN <<Parent(p)>> ELSE <<>>
  BY <1>1, <1>2 DEF Waiting, Core, WaitInv
<1>4. p \in Subs => Waiting # <<>> /\ Head(Waiting) = Parent(p)
  BY <1>3
<1>5. p \in Subs => Parent(p) \in Promises /\ Parent(p) # p /\ Parent(p) \notin Subs
  BY NamesArePromises
<1>6. p \in Subs => /\ prom[Parent(p)].state = "resolved" /\ Parent(p) \notin over
                    /\ \A r \in Subs : Unsettled(r) /\ Parent(r) = Parent(p) => r = p
  BY <1>2 DEF Core, WaitInv
<1>7. \A q \in Subs : Unsettled(q) => Parent(q) # p
  BY DEF Core, WaitInv
<1> QED
  BY <1>1, <1>3, <1>4, <1>5, <1>6, <1>7

LEMMA ClearedIs ==
  ASSUME Core, eng.at \in {"settled", "given_up"}, NEW p, p = eng.p
  PROVE  /\ Cleared \in [Promises -> PromiseType]
         /\ \A x \in Promises \ {p} : Cleared[x] = prom[x]
         /\ Cleared[p].state = prom[p].state /\ Cleared[p].thens = prom[p].thens
         /\ IsDones(p, Cleared[p].dones) /\ IsFails(p, Cleared[p].fails)
         /\ Cleared[p].next_promises = <<>>
<1>1. /\ p \in Promises /\ prom[p] \in PromiseType /\ prom \in [Promises -> PromiseType]
      /\ prom[p].dones \in Seq(Handlers) /\ prom[p].fails \in Seq(Handlers)
      /\ prom[p].next_promises = IF p \in Subs THEN <<Parent(p)>> ELSE <<>>
      /\ prom[p].state \in {"resolved", "rejected"}
  BY TheEnd DEF Core, EngineTypes, PromiseType, Waiting, Started
<1> DEFINE d == IF prom[p].state = "rejected" THEN prom[p].dones ELSE <<>>
           f == IF prom[p].state = "rejected" THEN <<>> ELSE prom[p].fails
           n == IF prom[p].next_promises = <<>> THEN prom[p].next_promises ELSE Tail(prom[p].next_promises)
           r == [prom[p] EXCEPT !.dones = d, !.fails = f, !.next_promises = n]
<1>2. n = <<>>
  <2>1. CASE p \in Subs
    <3>1. <<Parent(p)>> \in Seq(Promises) /\ Len(Tail(<<Parent(p)>>)) = 0 /\ Tail(<<Parent(p)>>) \in Seq(Promises)
      BY <2>1, NamesArePromises
    <3>2. Tail(<<Parent(p)>>) = <<>>
      BY <3>1, EmptySeq
    <3> QED
      BY <1>1, <2>1, <3>2
  <2>2. CASE p \notin Subs
    BY <1>1, <2>2
  <2> QED
    BY <2>1, <2>2
<1>3. /\ d \in Seq(Handlers) /\ f \in Seq(Handlers) /\ n \in Seq(Promises)
      /\ IsDones(p, d) /\ IsFails(p, f)
  <2>1. IsDones(p, prom[p].dones) /\ IsFails(p, prom[p].fails)
    BY <1>1 DEF Core, ListsInv
  <2> QED
    BY <1>1, <1>2, <2>1, NothingLeft
<1>4. Cleared = [prom EXCEPT ![p] = r]
  BY <1>1 DEF Cleared
<1> HIDE DEF d, f, n
<1>5. /\ r \in PromiseType /\ r.state = prom[p].state /\ r.thens = prom[p].thens
      /\ r.dones = d /\ r.fails = f /\ r.next_promises = n
  BY <1>1, <1>3 DEF PromiseType
<1> HIDE DEF r
<1>6. Cleared \in [Promises -> PromiseType] /\ Cleared[p] = r /\ \A x \in Promises \ {p} : Cleared[x] = prom[x]
  BY <1>1, <1>4, <1>5
<1> QED
  BY <1>2, <1>3, <1>5, <1>6

\* what becomes of the promises when p is over: its parent w goes on, if it has one
LEMMA OverStep ==
  ASSUME Core, NEW p \in Promises, p \notin over, Started(p), p \in Names,
         NEW w, w = (IF p \in Subs THEN Parent(p) ELSE p),
         \A q \in Subs : Unsettled(q) => Parent(q) # p,
         p \in Subs => /\ prom[w].state = "resolved" /\ w \notin over
                       /\ \A r \in Subs : Unsettled(r) /\ Parent(r) = w => r = p,
         over' = over \cup {p}, prom' \in [Promises -> PromiseType],
         \A x \in Promises \ {p, w} : prom'[x] = prom[x],
         prom'[p].state = prom[p].state, prom'[p].thens = prom[p].thens,
         IsDones(p, prom'[p].dones), IsFails(p, prom'[p].fails), prom'[p].next_promises = <<>>,
         w # p => /\ prom'[w].thens = prom[w].thens /\ prom'[w].dones = prom[w].dones
                  /\ prom'[w].fails = prom[w].fails /\ prom'[w].next_promises = prom[w].next_promises
                  /\ prom'[w].state \in {"resolved", "rejected"},
         eng'.at # "idle" => w # p /\ eng'.p = w
  PROVE  ListsInv' /\ WaitInv' /\ (\A x \in Promises : Left(x)' = Left(x))
<1>1. w \in Promises /\ (w # p <=> p \in Subs) /\ w \notin Subs \ {p} /\ Subs \subseteq Promises
      /\ (p \in Subs => w = Parent(p))
  BY NamesArePromises
<1>2. \A x \in Promises : /\ Unsettled(x)' <=> Unsettled(x) /\ x # p
                          /\ Started(x) => Started(x)'
                          /\ x # w => prom'[x].state = prom[x].state
                          /\ Left(x)' = Left(x)
                          /\ x # p => prom'[x].next_promises = prom[x].next_promises
  BY <1>1 DEF Unsettled, Started, Left
<1>3. ListsInv'
  <2> SUFFICES ASSUME NEW x \in Promises
               PROVE  /\ IsThens(x, prom'[x].thens) /\ IsDones(x, prom'[x].dones)
                      /\ IsFails(x, prom'[x].fails)
                      /\ prom'[x].state # "none" => x \in Names
                      /\ x = "entry" /\ Unsettled(x)' => Len(prom'[x].dones) = 1
    BY DEF ListsInv
  <2>1. /\ IsThens(x, prom[x].thens) /\ IsDones(x, prom[x].dones) /\ IsFails(x, prom[x].fails)
        /\ prom[x].state # "none" => x \in Names
        /\ x = "entry" /\ Unsettled(x) => Len(prom[x].dones) = 1
    BY DEF Core, ListsInv
  <2>2. prom'[x].thens = prom[x].thens /\ (x # p => prom'[x].dones = prom[x].dones /\ prom'[x].fails = prom[x].fails)
    BY <1>1
  <2>3. p \in Subs => w \in Names
    BY <1>1 DEF Core, ListsInv
  <2>4. prom'[x].state # "none" => x \in Names
    BY <1>1, <1>2, <2>1, <2>3
  <2>5. IsDones(x, prom'[x].dones) /\ IsFails(x, prom'[x].fails)
    BY <2>1, <2>2
  <2>6. x = "entry" /\ Unsettled(x)' => Len(prom'[x].dones) = 1
    BY <1>2, <2>1, <2>2
  <2> QED
    BY <2>1, <2>2, <2>4, <2>5, <2>6
<1>4. \A x \in over' : Started(x)' /\ prom'[x].next_promises = <<>>
  BY <1>2 DEF Core, WaitInv, EngineTypes
<1>5. \A x \in Promises :
        prom'[x].next_promises = IF x \in Subs /\ Unsettled(x)' THEN <<Parent(x)>> ELSE <<>>
  BY <1>2 DEF Core, WaitInv
<1>6. ASSUME NEW q \in Subs, Unsettled(q)'
      PROVE  /\ prom'[Parent(q)].state = "resolved" /\ Parent(q) \notin over'
             /\ eng'.at # "idle" => eng'.p # Parent(q)
             /\ \A r \in Subs : Unsettled(r)' /\ Parent(r) = Parent(q) => r = q
             /\ q \in {"init", "send"} => Left("login")' \in 1..6
  <2>1. q \in Promises /\ Unsettled(q) /\ q # p /\ Parent(q) \in Promises /\ "login" \in Promises
    BY <1>1, <1>2, <1>6, NamesArePromises
  <2>2. Parent(q) # p /\ Parent(q) # w
    BY <1>1, <2>1
  <2>3. /\ prom[Parent(q)].state = "resolved" /\ Parent(q) \notin over
        /\ \A r \in Subs : Unsettled(r) /\ Parent(r) = Parent(q) => r = q
        /\ q \in {"init", "send"} => Left("login") \in 1..6
    BY <2>1 DEF Core, WaitInv
  <2> QED
    BY <1>1, <1>2, <2>1, <2>2, <2>3
<1> QED
  BY <1>2, <1>3, <1>4, <1>5, <1>6 DEF WaitInv

LEMMA SettleStep ==
  ASSUME Core, Settle, NEW p, p = eng.p
  PROVE  /\ Core' /\ over' = over \cup {p}
         /\ p \in Promises /\ p \notin over /\ Started(p) /\ eng.at = "settled" /\ eng.todo = <<>>
         /\ prom[p].state = "rejected" => p = "login"
         /\ \A x \in Promises : prom'[x].state = prom[x].state /\ Left(x)' = Left(x)
         /\ p \in Subs => eng'.at = "then" /\ eng'.p = Parent(p)
         /\ p \notin Subs => eng'.at = "idle"
         /\ eng'.at # "settled" /\ eng'.at # "given_up"
<1>1. /\ p \in Promises /\ p \notin over /\ Started(p) /\ p \in Names /\ Left(p) = 0
      /\ eng.at = "settled" /\ eng.todo = <<>> /\ over' = over \cup {p}
      /\ \A q \in Subs : Unsettled(q) => Parent(q) # p
  BY TheEnd DEF Settle
<1>2. /\ Cleared \in [Promises -> PromiseType]
      /\ \A x \in Promises \ {p} : Cleared[x] = prom[x]
      /\ Cleared[p].state = prom[p].state /\ Cleared[p].thens = prom[p].thens
      /\ IsDones(p, Cleared[p].dones) /\ IsFails(p, Cleared[p].fails)
      /\ Cleared[p].next_promises = <<>>
  BY <1>1, ClearedIs
<1>3. CASE p \notin Subs
  <2>1. eng' = Idle /\ prom' = Cleared
    BY <1>1, <1>3, TheEnd DEF Settle
  <2>2. eng'.at = "idle" /\ EngineTypes'
    BY <1>1, <1>2, <2>1, WhereTypes DEF Core, EngineTypes
  <2>3. ListsInv' /\ WaitInv' /\ (\A x \in Promises : Left(x)' = Left(x))
    <3> DEFINE w == p
    <3>1. w = (IF p \in Subs THEN Parent(p) ELSE p)
      BY <1>3
    <3> QED
      BY <1>1, <1>2, <1>3, <2>1, <2>2, <3>1, OverStep
  <2>4. EngineInv'
    BY <2>2 DEF EngineInv
  <2> QED
    BY <1>1, <1>2, <1>3, <2>1, <2>2, <2>3, <2>4 DEF Core, EngineInv
<1>4. CASE p \in Subs
  <2> DEFINE w == Parent(p)
  <2>1. /\ Waiting # <<>> /\ Head(Waiting) = w /\ w \in Promises /\ w # p /\ w \notin Subs
        /\ prom[w].state = "resolved" /\ w \notin over
        /\ \A r \in Subs : Unsettled(r) /\ Parent(r) = w => r = p
    BY <1>1, <1>4, TheEnd
  <2>2. eng' = At("then", w, None) /\ prom' = [Cleared EXCEPT ![w].result = prom[p].result]
    BY <1>1, <2>1 DEF Settle
  <2>3. /\ prom[w] \in PromiseType /\ prom[p].result \in Results
    BY <1>1, <2>1 DEF Core, EngineTypes, PromiseType
  <2> HIDE DEF w
  <2> DEFINE r == [prom[w] EXCEPT !.result = prom[p].result]
  <2>4. /\ r \in PromiseType /\ r.state = prom[w].state /\ r.thens = prom[w].thens
        /\ r.dones = prom[w].dones /\ r.fails = prom[w].fails /\ r.next_promises = prom[w].next_promises
    BY <2>3 DEF PromiseType
  <2>5. prom' = [Cleared EXCEPT ![w] = r]
    BY <1>2, <2>1, <2>2
  <2> HIDE DEF r
  <2>6. /\ prom' \in [Promises -> PromiseType] /\ prom'[w] = r /\ prom'[p] = Cleared[p]
        /\ \A x \in Promises \ {p, w} : prom'[x] = prom[x]
    BY <1>1, <1>2, <2>1, <2>4, <2>5
  <2>7. eng'.at = "then" /\ eng'.p = w /\ EngineTypes'
    BY <1>1, <2>1, <2>2, <2>6, WhereTypes DEF Core, EngineTypes
  <2>8. ListsInv' /\ WaitInv' /\ (\A x \in Promises : Left(x)' = Left(x))
    <3>1. w = (IF p \in Subs THEN Parent(p) ELSE p)
      BY <1>4 DEF w
    <3>2. /\ prom'[p].state = prom[p].state /\ prom'[p].thens = prom[p].thens
          /\ IsDones(p, prom'[p].dones) /\ IsFails(p, prom'[p].fails) /\ prom'[p].next_promises = <<>>
      BY <1>2, <2>6
    <3>3. /\ prom'[w].thens = prom[w].thens /\ prom'[w].dones = prom[w].dones
          /\ prom'[w].fails = prom[w].fails /\ prom'[w].next_promises = prom[w].next_promises
          /\ prom'[w].state \in {"resolved", "rejected"}
      BY <2>1, <2>4, <2>6
    <3> QED
      BY <1>1, <2>1, <2>6, <2>7, <3>1, <3>2, <3>3, OverStep
  <2>9. prom'[w].state = "resolved" /\ w \notin over'
    BY <1>1, <2>1, <2>4, <2>6
  <2>10. EngineInv'
    BY <2>1, <2>7, <2>9 DEF EngineInv, Started
  <2>11. \A x \in Promises : prom'[x].state = prom[x].state
    BY <1>2, <2>4, <2>6
  <2> QED
    BY <1>1, <1>4, <2>7, <2>8, <2>10, <2>11 DEF Core, EngineInv, w
<1> QED
  BY <1>3, <1>4

LEMMA PassErrorStep ==
  ASSUME Core, PassError, NEW p, p = eng.p
  PROVE  /\ Core' /\ over' = over \cup {p}
         /\ p \in Promises /\ p \notin over /\ prom[p].state = "rejected" /\ eng.at = "given_up"
         /\ p \in Subs /\ Parent(p) # p /\ prom[Parent(p)].state = "resolved"
         /\ prom'[Parent(p)].state = "rejected" /\ Parent(p) \notin over
         /\ \A x \in Promises : /\ Left(x)' = Left(x)
                                /\ x # Parent(p) => prom'[x].state = prom[x].state
         /\ eng'.at = "failed" /\ eng'.p = Parent(p)
<1>1. /\ p \in Promises /\ p \notin over /\ Started(p) /\ p \in Names /\ Left(p) = 0
      /\ eng.at = "given_up" /\ over' = over \cup {p} /\ p \in Subs
      /\ \A q \in Subs : Unsettled(q) => Parent(q) # p
      /\ prom[p].state = "rejected" /\ eng.arg = "error"
  BY TheEnd DEF PassError, Core, EngineInv
<1>2. /\ Cleared \in [Promises -> PromiseType]
      /\ \A x \in Promises \ {p} : Cleared[x] = prom[x]
      /\ Cleared[p].state = prom[p].state /\ Cleared[p].thens = prom[p].thens
      /\ IsDones(p, Cleared[p].dones) /\ IsFails(p, Cleared[p].fails)
      /\ Cleared[p].next_promises = <<>>
  BY <1>1, ClearedIs
<1> DEFINE w == Parent(p)
<1>3. /\ Head(Waiting) = w /\ w \in Promises /\ w # p /\ w \notin Subs
      /\ prom[w].state = "resolved" /\ w \notin over
      /\ \A r \in Subs : Unsettled(r) /\ Parent(r) = w => r = p
  BY <1>1, TheEnd
<1>4. eng' = At("failed", w, "error") /\ prom' = [Cleared EXCEPT ![w].state = "rejected"]
  BY <1>1, <1>3 DEF PassError
<1>5. prom[w] \in PromiseType
  BY <1>1, <1>3 DEF Core, EngineTypes
<1>6. w = "login" => Left(w) >= 1
  <2>1. w = "login" => p \in {"init", "send"}
    BY <1>1 DEF Parent, Subs
  <2>2. Unsettled(p)
    BY <1>1 DEF Unsettled
  <2> QED
    BY <1>1, <2>1, <2>2 DEF Core, WaitInv
<1>7. w = (IF p \in Subs THEN Parent(p) ELSE p)
  BY <1>1
<1> HIDE DEF w
<1> DEFINE r == [prom[w] EXCEPT !.state = "rejected"]
<1>8. /\ r \in PromiseType /\ r.state = "rejected" /\ r.thens = prom[w].thens
      /\ r.dones = prom[w].dones /\ r.fails = prom[w].fails /\ r.next_promises = prom[w].next_promises
  BY <1>5 DEF PromiseType
<1>9. prom' = [Cleared EXCEPT ![w] = r]
  BY <1>2, <1>3, <1>4
<1> HIDE DEF r
<1>10. /\ prom' \in [Promises -> PromiseType] /\ prom'[w] = r /\ prom'[p] = Cleared[p]
       /\ \A x \in Promises \ {p, w} : prom'[x] = prom[x]
  BY <1>1, <1>2, <1>3, <1>8, <1>9
<1>11. eng'.at = "failed" /\ eng'.p = w /\ eng'.arg = "error" /\ EngineTypes'
  BY <1>1, <1>3, <1>4, <1>10, WhereTypes DEF Core, EngineTypes
<1>12. ListsInv' /\ WaitInv' /\ (\A x \in Promises : Left(x)' = Left(x))
  <2>2. /\ prom'[p].state = prom[p].state /\ prom'[p].thens = prom[p].thens
        /\ IsDones(p, prom'[p].dones) /\ IsFails(p, prom'[p].fails) /\ prom'[p].next_promises = <<>>
    BY <1>2, <1>10
  <2>3. /\ prom'[w].thens = prom[w].thens /\ prom'[w].dones = prom[w].dones
        /\ prom'[w].fails = prom[w].fails /\ prom'[w].next_promises = prom[w].next_promises
        /\ prom'[w].state \in {"resolved", "rejected"}
    BY <1>8, <1>10
  <2> QED
    BY <1>1, <1>3, <1>7, <1>10, <1>11, <2>2, <2>3, OverStep
<1>13. prom'[w].state = "rejected" /\ w \notin over'
  BY <1>1, <1>3, <1>8, <1>10
<1>14. EngineInv'
  BY <1>3, <1>6, <1>11, <1>12, <1>13 DEF EngineInv, Started
<1>15. \A x \in Promises : x # w => prom'[x].state = prom[x].state
  BY <1>2, <1>10
<1> QED
  BY <1>1, <1>3, <1>11, <1>12, <1>13, <1>14, <1>15 DEF Core, w

LEMMA UncaughtStep ==
  ASSUME Core, Uncaught, NEW p, p = eng.p
  PROVE  /\ Core' /\ over' = over \cup {p}
         /\ p \in Promises /\ p \notin over /\ prom[p].state = "rejected" /\ eng.at = "given_up"
         /\ p \notin Subs /\ p # "login"
         /\ \A x \in Promises : prom'[x].state = prom[x].state /\ Left(x)' = Left(x)
         /\ eng'.at = "idle"
<1>1. /\ p \in Promises /\ p \notin over /\ Started(p) /\ p \in Names /\ Left(p) = 0
      /\ eng.at = "given_up" /\ over' = over \cup {p} /\ p \notin Subs
      /\ \A q \in Subs : Unsettled(q) => Parent(q) # p
      /\ prom[p].state = "rejected" /\ p # "login"
  BY TheEnd DEF Uncaught, Core, EngineInv
<1>2. /\ Cleared \in [Promises -> PromiseType]
      /\ \A x \in Promises \ {p} : Cleared[x] = prom[x]
      /\ Cleared[p].state = prom[p].state /\ Cleared[p].thens = prom[p].thens
      /\ IsDones(p, Cleared[p].dones) /\ IsFails(p, Cleared[p].fails)
      /\ Cleared[p].next_promises = <<>>
  BY <1>1, ClearedIs
<1>3. eng' = Idle /\ prom' = Cleared
  BY DEF Uncaught
<1>4. eng'.at = "idle" /\ EngineTypes'
  BY <1>1, <1>2, <1>3, WhereTypes DEF Core, EngineTypes
<1>5. ListsInv' /\ WaitInv' /\ (\A x \in Promises : Left(x)' = Left(x))
  <2> DEFINE w == p
  <2>1. w = (IF p \in Subs THEN Parent(p) ELSE p)
    BY <1>1
  <2> QED
    BY <1>1, <1>2, <1>3, <1>4, <2>1, OverStep
<1>6. EngineInv'
  BY <1>4 DEF EngineInv
<1> QED
  BY <1>1, <1>2, <1>3, <1>4, <1>5, <1>6 DEF Core
-----------------------------------------------------------------------------
(* A promise begins *)

\* a promise is resolved by its callback
LEMMA ResolveStep ==
  ASSUME Core, NEW p \in Names, NEW v \in Results, Resolve(p, v)
  PROVE  /\ Core' /\ over' = over /\ p \notin over /\ p \in Promises
         /\ prom[p].state = "pending" /\ prom'[p].state = "resolved"
         /\ \A x \in Promises : Left(x)' = Left(x)
         /\ \A x \in Promises \ {p} : prom'[x] = prom[x]
         /\ eng.at = "idle" /\ eng'.at = "then" /\ eng'.p = p
<1>1. /\ p \in Promises /\ prom[p].state = "pending" /\ eng.at = "idle" /\ over' = over
      /\ p \notin over
  BY NamesArePromises DEF Resolve, EngineIdle, Core, WaitInv, Started
<1>2. eng' = At("then", p, None)
  BY DEF Resolve
<1>3. eng'.at = "then" /\ eng'.p = p
  BY <1>1, <1>2, WhereTypes
<1>4. /\ prom' \in [Promises -> PromiseType]
      /\ \A x \in Promises \ {p} : prom'[x] = prom[x]
      /\ prom'[p].state = "resolved" /\ prom'[p].next_promises = prom[p].next_promises
      /\ prom'[p].dones = prom[p].dones /\ prom'[p].fails = prom[p].fails
      /\ prom'[p].thens = prom[p].thens
  <2> DEFINE r == [[prom[p] EXCEPT !.state = "resolved"] EXCEPT !.result = v]
  <2>1. /\ r \in PromiseType /\ r.thens = prom[p].thens /\ r.next_promises = prom[p].next_promises
        /\ r.dones = prom[p].dones /\ r.fails = prom[p].fails /\ r.state = "resolved"
    BY <1>1 DEF Core, EngineTypes, PromiseType
  <2>2. prom' = [prom EXCEPT ![p] = r]
    BY <1>1 DEF Resolve
  <2> HIDE DEF r
  <2> QED
    BY <1>1, <2>1, <2>2, OnePromise
<1>5. \A x \in Promises : Left(x)' = Left(x)
  BY <1>4 DEF Left
<1>6. EngineTypes'
  BY <1>1, <1>2, <1>4, WhereTypes DEF Core, EngineTypes
<1>7. ListsInv'
  <2>1. /\ IsThens(p, prom[p].thens) /\ IsDones(p, prom[p].dones) /\ IsFails(p, prom[p].fails)
        /\ (p = "entry" /\ Unsettled(p) => Len(prom[p].dones) = 1)
    BY <1>1 DEF Core, ListsInv
  <2>2. IsThens(p, prom'[p].thens) /\ IsDones(p, prom'[p].dones) /\ IsFails(p, prom'[p].fails)
    BY <1>4, <2>1
  <2>3. over \subseteq over' \cup {p}
    BY <1>1
  <2>4. p = "entry" /\ prom'[p].state # "none" /\ p \notin over' => Len(prom'[p].dones) = 1
    BY <1>1, <1>4, <2>1 DEF Unsettled
  <2> QED
    BY <1>1, <1>4, <2>2, <2>3, <2>4, ListsKept
<1>8. EngineInv'
  BY <1>1, <1>3, <1>4 DEF EngineInv, Started
<1>9. WaitInv'
  <2>1. \A x \in Promises : /\ Unsettled(x)' <=> Unsettled(x)
                            /\ Started(x) => Started(x)'
                            /\ prom'[x].next_promises = prom[x].next_promises
    BY <1>1, <1>4 DEF Unsettled, Started
  <2>2. ASSUME NEW q \in Subs, Unsettled(q)'
        PROVE  /\ prom'[Parent(q)].state = "resolved" /\ Parent(q) \notin over'
               /\ eng'.p # Parent(q)
               /\ \A r \in Subs : Unsettled(r)' /\ Parent(r) = Parent(q) => r = q
               /\ q \in {"init", "send"} => Left("login")' \in 1..6
    <3>1. q \in Promises /\ Parent(q) \in Promises /\ Subs \subseteq Promises /\ Unsettled(q)
          /\ "login" \in Promises
      BY <2>1, <2>2, NamesArePromises
    <3>2. /\ prom[Parent(q)].state = "resolved" /\ Parent(q) \notin over
          /\ \A r \in Subs : Unsettled(r) /\ Parent(r) = Parent(q) => r = q
          /\ q \in {"init", "send"} => Left("login") \in 1..6
      BY <3>1 DEF Core, WaitInv
    <3> QED
      BY <1>1, <1>3, <1>4, <1>5, <2>1, <3>1, <3>2
  <2>3. over \subseteq Promises
    BY DEF Core, EngineTypes
  <2>4. /\ \A x \in over' : Started(x)' /\ prom'[x].next_promises = <<>>
        /\ \A x \in Promises :
             prom'[x].next_promises = IF x \in Subs /\ Unsettled(x)' THEN <<Parent(x)>> ELSE <<>>
    BY <1>1, <2>1, <2>3 DEF Core, WaitInv
  <2> QED
    BY <2>2, <2>4 DEF WaitInv
<1> QED
  BY <1>1, <1>3, <1>4, <1>5, <1>6, <1>7, <1>8, <1>9 DEF Core

\* a promise is made that nothing waits for
LEMMA MadeStep ==
  ASSUME Core, eng.at = "idle", NEW p, p = "login", ~Unsettled(p), NEW new, IsNew(p, new),
         prom' = [prom EXCEPT ![p] = new], over' = over \ {p}, eng' = eng
  PROVE  /\ Core' /\ p \in Promises /\ p \notin over'
         /\ prom'[p].state = "pending" /\ Left(p)' = Len(new.thens)
         /\ \A x \in Promises \ {p} : prom'[x] = prom[x]
<1>1. p \in Promises /\ p \notin Subs /\ p \notin over' /\ p \in Names
  BY NamesArePromises DEF Subs, Names, Asked, Calls, Awaited
<1>2. /\ prom' \in [Promises -> PromiseType] /\ prom'[p] = new /\ prom'[p].state = "pending"
      /\ \A x \in Promises \ {p} : prom'[x] = prom[x]
      /\ prom'[p].next_promises = <<>>
  BY <1>1, OnePromise DEF IsNew
<1>3. Left(p)' = Len(new.thens)
  BY <1>2 DEF Left
<1>4. EngineTypes'
  BY <1>2 DEF Core, EngineTypes
<1>5. ListsInv'
  <2>1. IsThens(p, prom'[p].thens) /\ IsDones(p, prom'[p].dones) /\ IsFails(p, prom'[p].fails)
    BY <1>2 DEF IsNew
  <2>2. over \subseteq over' \cup {p} /\ p # "entry"
    OBVIOUS
  <2> QED
    BY <1>1, <1>2, <2>1, <2>2, ListsKept
<1>6. EngineInv'
  BY DEF EngineInv
<1>7. WaitInv'
  <2>1. \A q \in Subs : Unsettled(q) => Parent(q) # p
    BY DEF Core, WaitInv, Unsettled
  <2>2. \A x \in Promises : /\ x # p => (Unsettled(x)' <=> Unsettled(x)) /\ (Started(x) => Started(x)')
                                         /\ Left(x)' = Left(x)
                                         /\ prom'[x].next_promises = prom[x].next_promises
    BY <1>2 DEF Unsettled, Started, Left
  <2>3. ASSUME NEW q \in Subs, Unsettled(q)'
        PROVE  /\ prom'[Parent(q)].state = "resolved" /\ Parent(q) \notin over'
               /\ \A r \in Subs : Unsettled(r)' /\ Parent(r) = Parent(q) => r = q
               /\ q \in {"init", "send"} => Left("login")' \in 1..6
    <3>1. q \in Promises /\ Parent(q) \in Promises /\ Subs \subseteq Promises /\ Unsettled(q)
          /\ "login" \in Promises /\ Parent(q) # p
      BY <1>1, <2>1, <2>2, <2>3, NamesArePromises
    <3>2. /\ prom[Parent(q)].state = "resolved" /\ Parent(q) \notin over
          /\ \A r \in Subs : Unsettled(r) /\ Parent(r) = Parent(q) => r = q
          /\ q \in {"init", "send"} => Left("login") \in 1..6
      BY <3>1 DEF Core, WaitInv
    <3>3. q \in {"init", "send"} => Parent(q) = "login"
      BY DEF Parent
    <3> QED
      BY <1>1, <1>2, <2>2, <3>1, <3>2, <3>3
  <2>4. over \subseteq Promises
    BY DEF Core, EngineTypes
  <2>5. \A x \in over' : Started(x)' /\ prom'[x].next_promises = <<>>
    BY <2>2, <2>4 DEF Core, WaitInv
  <2>6. \A x \in Promises :
          prom'[x].next_promises = IF x \in Subs /\ Unsettled(x)' THEN <<Parent(x)>> ELSE <<>>
    BY <1>1, <1>2, <2>2 DEF Core, WaitInv
  <2> QED
    BY <2>3, <2>5, <2>6 DEF WaitInv
<1> QED
  BY <1>1, <1>2, <1>3, <1>4, <1>5, <1>6, <1>7 DEF Core

\* a function makes a promise q and returns it
LEMMA PromisedStep ==
  ASSUME Core, HasThen, NEW p, p = eng.p, NEW q \in Subs, Parent(q) = p, NEW new, IsNew(q, new),
         q \in {"init", "send"} => Left(p) \in 2..7, Promised(q, new)
  PROVE  /\ Core' /\ p \in Promises /\ q \in Promises /\ q # p
         /\ prom[p].state = "resolved" /\ prom'[p].state = "resolved" /\ p \notin over
         /\ over' = over \ {q} /\ ~Unsettled(q)
         /\ Left(p) \in Nat \ {0} /\ Left(p)' = Left(p) - 1
         /\ prom'[q].state = "pending" /\ Left(q)' = Len(new.thens)
         /\ \A x \in Promises \ {p, q} : prom'[x] = prom[x]
         /\ \A r \in Subs : Unsettled(r) => Parent(r) # p
         /\ eng.at = "then" /\ eng'.at = "idle"
<1>1. /\ p \in Promises /\ prom[p].state = "resolved" /\ p \notin over /\ Left(p) \in Nat \ {0}
      /\ IsThens(p, Tail(prom[p].thens)) /\ Len(Tail(prom[p].thens)) = Left(p) - 1
      /\ Tail(prom[p].thens) \in Seq(Entries) /\ eng.at = "then" /\ p \in Names
  BY TheEntry
<1>2. q \in Promises /\ q # p /\ q \in Names /\ p \notin Subs
  BY NamesArePromises DEF Subs, Names, Asked, Calls, Awaited
<1>3. \A r \in Subs : Unsettled(r) => Parent(r) # p
  BY <1>1 DEF Core, WaitInv
<1>4. eng' = Idle /\ over' = over \ {q} /\ eng'.at = "idle"
  BY WhereTypes DEF Promised
<1> DEFINE r1 == [prom[p] EXCEPT !.thens = Tail(@)]
           r2 == [new EXCEPT !.next_promises = <<p>>]
<1>5. /\ r1 \in PromiseType /\ r1.thens = Tail(prom[p].thens) /\ r1.next_promises = prom[p].next_promises
      /\ r1.dones = prom[p].dones /\ r1.fails = prom[p].fails /\ r1.state = "resolved"
  BY <1>1 DEF Core, EngineTypes, PromiseType
<1>6. /\ r2 \in PromiseType /\ r2.thens = new.thens /\ r2.next_promises = <<p>>
      /\ r2.dones = new.dones /\ r2.fails = new.fails /\ r2.state = "pending"
  <2>1. new \in PromiseType /\ new.state = "pending" /\ <<p>> \in Seq(Promises)
    BY <1>1 DEF IsNew
  <2> QED
    BY <2>1 DEF PromiseType
<1>7. prom' = [[prom EXCEPT ![p] = r1] EXCEPT ![q] = r2]
  BY DEF Promised, Popped
<1> HIDE DEF r1, r2
<1>8. /\ prom' \in [Promises -> PromiseType] /\ prom'[p] = r1 /\ prom'[q] = r2
      /\ \A x \in Promises \ {p, q} : prom'[x] = prom[x]
  BY <1>1, <1>2, <1>5, <1>6, <1>7 DEF Core, EngineTypes
<1>9. Left(p)' = Left(p) - 1 /\ Left(q)' = Len(new.thens)
  BY <1>1, <1>5, <1>6, <1>8 DEF Left
<1>10. EngineTypes'
  BY <1>4, <1>8, WhereTypes DEF Core, EngineTypes
<1>11. EngineInv'
  BY <1>4 DEF EngineInv
<1>12. ListsInv'
  <2> SUFFICES ASSUME NEW x \in Promises
               PROVE  /\ IsThens(x, prom'[x].thens) /\ IsDones(x, prom'[x].dones)
                      /\ IsFails(x, prom'[x].fails)
                      /\ prom'[x].state # "none" => x \in Names
                      /\ x = "entry" /\ Unsettled(x)' => Len(prom'[x].dones) = 1
    BY DEF ListsInv
  <2>1. /\ IsThens(x, prom[x].thens) /\ IsDones(x, prom[x].dones) /\ IsFails(x, prom[x].fails)
        /\ prom[x].state # "none" => x \in Names
        /\ x = "entry" /\ Unsettled(x) => Len(prom[x].dones) = 1
    BY DEF Core, ListsInv
  <2>2. CASE x = q
    BY <1>2, <1>6, <1>8, <2>2 DEF IsNew
  <2>3. CASE x = p
    BY <1>1, <1>2, <1>4, <1>5, <1>8, <2>1, <2>3 DEF Unsettled
  <2>4. CASE x # p /\ x # q
    <3>1. prom'[x] = prom[x] /\ (Unsettled(x)' => Unsettled(x))
      BY <1>4, <1>8, <2>4 DEF Unsettled
    <3> QED
      BY <2>1, <3>1
  <2> QED
    BY <2>2, <2>3, <2>4
<1>13. WaitInv'
  <2>1. \A x \in Promises : x # q =>
          /\ Unsettled(x)' <=> Unsettled(x)
          /\ Started(x) => Started(x)'
          /\ prom'[x].state = prom[x].state
          /\ x # p => Left(x)' = Left(x)
          /\ prom'[x].next_promises = prom[x].next_promises
    BY <1>1, <1>4, <1>5, <1>8 DEF Unsettled, Started, Left
  <2>2. Unsettled(q)' /\ prom'[q].next_promises = <<Parent(q)>> /\ ~Unsettled(q)
    BY <1>3, <1>4, <1>6, <1>8 DEF Unsettled
  <2>3. \A x \in over' : Started(x)' /\ prom'[x].next_promises = <<>>
    BY <1>4, <2>1 DEF Core, WaitInv, EngineTypes
  <2>4. \A x \in Promises :
          prom'[x].next_promises = IF x \in Subs /\ Unsettled(x)' THEN <<Parent(x)>> ELSE <<>>
    BY <2>1, <2>2 DEF Core, WaitInv
  <2>5. ASSUME NEW x \in Subs, Unsettled(x)'
        PROVE  /\ prom'[Parent(x)].state = "resolved" /\ Parent(x) \notin over'
               /\ \A r \in Subs : Unsettled(r)' /\ Parent(r) = Parent(x) => r = x
               /\ x \in {"init", "send"} => Left("login")' \in 1..6
    <3>1. x \in Promises /\ Parent(x) \in Promises /\ Parent(x) # q /\ Subs \subseteq Promises
          /\ "login" \in Promises /\ (x \in {"init", "send"} => Parent(x) = "login")
      BY NamesArePromises DEF Parent
    <3>2. CASE x = q
      BY <1>1, <1>2, <1>3, <1>4, <1>9, <2>1, <3>1, <3>2
    <3>3. CASE x # q
      <4>1. Unsettled(x)
        BY <2>1, <2>5, <3>1, <3>3
      <4>2. /\ prom[Parent(x)].state = "resolved" /\ Parent(x) \notin over /\ Parent(x) # p
            /\ \A r \in Subs : Unsettled(r) /\ Parent(r) = Parent(x) => r = x
            /\ x \in {"init", "send"} => Left("login") \in 1..6
        BY <1>3, <4>1 DEF Core, WaitInv
      <4> QED
        BY <1>4, <2>1, <3>1, <4>2
    <3> QED
      BY <3>2, <3>3
  <2> QED
    BY <1>4, <2>3, <2>4, <2>5 DEF WaitInv
<1> QED
  BY <1>1, <1>2, <1>3, <1>4, <1>5, <1>6, <1>8, <1>9, <1>10, <1>11, <1>12, <1>13 DEF Core, Unsettled

\* the promises that a function of the scripts makes, and the names that it takes back
IsMade(new) ==
  /\ DOMAIN new \subseteq Awaited \cup Asides
  /\ \A x \in DOMAIN new : (IsNew(x, new[x]) /\ x # "api2") \/ new[x] = NoPromise
  /\ "api" \in DOMAIN new <=> "api2" \in DOMAIN new

LEMMA MakingStep ==
  ASSUME Core, NEW new, IsMade(new), Making(new),
         eng'.at # "idle" => eng.at # "idle" /\ eng'.p = eng.p /\ eng.p \notin DOMAIN new
  PROVE  /\ prom' \in [Promises -> PromiseType] /\ over' \subseteq Promises /\ ListsInv' /\ WaitInv'
         /\ DOMAIN new \subseteq Promises /\ DOMAIN new \subseteq Scripts
         /\ \A x \in Promises \ DOMAIN new :
              /\ prom'[x] = prom[x] /\ (x \in over' <=> x \in over)
              /\ Unsettled(x)' <=> Unsettled(x)
              /\ Started(x)' <=> Started(x)
              /\ Left(x)' = Left(x)
         /\ \A x \in DOMAIN new : prom'[x] = new[x] /\ x \notin over' /\ ~Started(x)'
<1>1. DOMAIN new \subseteq Promises /\ DOMAIN new \subseteq Scripts /\ DOMAIN new \subseteq Names
  BY NamesArePromises DEF IsMade, Scripts, Names, Asked
<1>2. /\ \A x \in Promises \ DOMAIN new : prom'[x] = prom[x] /\ (x \in over' <=> x \in over)
      /\ \A x \in DOMAIN new : prom'[x] = new[x] /\ x \notin over'
      /\ over' \subseteq over /\ over' \subseteq Promises
  BY <1>1 DEF Making, Core, EngineTypes
<1>3. NoPromise \in PromiseType /\ NoPromise.state = "none" /\ NoPromise.next_promises = <<>>
  BY NothingLeft DEF NoPromise, PromiseType, Results
<1>4. \A x \in DOMAIN new : /\ new[x] \in PromiseType /\ new[x].next_promises = <<>>
                            /\ new[x].state \in {"none", "pending"}
                            /\ x = "api2" => new[x].state = "none"
  BY <1>3 DEF IsMade, IsNew
<1>5. prom' \in [Promises -> PromiseType]
  <2>1. \A x \in Promises : prom'[x] \in PromiseType
    BY <1>2, <1>4 DEF Core, EngineTypes
  <2> QED
    BY <2>1 DEF Making
<1>6. /\ \A x \in Promises \ DOMAIN new : /\ Unsettled(x)' <=> Unsettled(x)
                                          /\ Started(x)' <=> Started(x)
                                          /\ Left(x)' = Left(x)
      /\ \A x \in DOMAIN new : ~Started(x)'
  BY <1>2, <1>4 DEF Unsettled, Started, Left
<1>7. ListsInv'
  <2> SUFFICES ASSUME NEW x \in Promises
               PROVE  /\ IsThens(x, prom'[x].thens) /\ IsDones(x, prom'[x].dones)
                      /\ IsFails(x, prom'[x].fails)
                      /\ prom'[x].state # "none" => x \in Names
                      /\ x = "entry" /\ Unsettled(x)' => Len(prom'[x].dones) = 1
    BY DEF ListsInv
  <2>1. CASE x \notin DOMAIN new
    BY <1>2, <1>6, <2>1 DEF Core, ListsInv
  <2>2. CASE x \in DOMAIN new
    <3>1. x # "entry"
      BY <2>2 DEF IsMade, Awaited, Asides, Fetches
    <3>2. CASE new[x] = NoPromise
      BY <1>1, <1>2, <2>2, <3>1, <3>2, NothingLeft DEF NoPromise
    <3>3. CASE IsNew(x, new[x])
      BY <1>1, <1>2, <2>2, <3>1, <3>3 DEF IsNew
    <3> QED
      BY <2>2, <3>2, <3>3 DEF IsMade
  <2> QED
    BY <2>1, <2>2
<1>8. WaitInv'
  <2>1. \A x \in over' : Started(x)' /\ prom'[x].next_promises = <<>>
    BY <1>2, <1>6 DEF Core, WaitInv
  <2>2. \A q \in Subs \cap DOMAIN new : q = "api2" /\ ~Unsettled(q)'
    <3>1. \A q \in Subs \cap DOMAIN new : q = "api2"
      BY DEF Subs, IsMade, Awaited, Asides, Fetches
    <3> QED
      BY <1>2, <1>4, <3>1 DEF Unsettled
  <2>3. \A x \in Promises :
          prom'[x].next_promises = IF x \in Subs /\ Unsettled(x)' THEN <<Parent(x)>> ELSE <<>>
    BY <1>2, <1>4, <1>6, <2>2 DEF Core, WaitInv
  <2>4. ASSUME NEW q \in Subs, Unsettled(q)'
        PROVE  /\ prom'[Parent(q)].state = "resolved" /\ Parent(q) \notin over'
               /\ eng'.at # "idle" => eng'.p # Parent(q)
               /\ \A r \in Subs : Unsettled(r)' /\ Parent(r) = Parent(q) => r = q
               /\ q \in {"init", "send"} => Left("login")' \in 1..6
    <3>1. q \in Promises \ DOMAIN new /\ Subs \subseteq Promises /\ Unsettled(q)
      BY <1>6, <2>2, <2>4, NamesArePromises
    <3>2. Parent(q) \in Promises \ DOMAIN new
      <4>1. Parent(q) \in DOMAIN new => q = "api2" /\ Parent(q) = "api"
        BY DEF Subs, Parent, IsMade, Awaited, Asides, Fetches
      <4> QED
        BY <3>1, <4>1, NamesArePromises DEF IsMade
    <3>3. /\ prom[Parent(q)].state = "resolved" /\ Parent(q) \notin over
          /\ eng.at # "idle" => eng.p # Parent(q)
          /\ \A r \in Subs : Unsettled(r) /\ Parent(r) = Parent(q) => r = q
          /\ q \in {"init", "send"} => Left("login") \in 1..6
      BY <3>1 DEF Core, WaitInv
    <3>4. \A r \in Subs : Unsettled(r)' => Unsettled(r)
      BY <1>6, <2>2, <3>1
    <3>5. q \in {"init", "send"} => Parent(q) = "login"
      BY DEF Parent
    <3> QED
      BY <1>2, <1>6, <3>2, <3>3, <3>4, <3>5
  <2> QED
    BY <2>1, <2>3, <2>4 DEF WaitInv
<1> QED
  BY <1>1, <1>2, <1>5, <1>6, <1>7, <1>8

\* and the engine goes on with the handlers, or gives up
LEMMA HandlerMakes ==
  ASSUME Core, HasHandler, NEW new, IsMade(new), eng.p \notin DOMAIN new,
         RanMaking(new) \/ AbortedMaking(new)
  PROVE  /\ Core'
         /\ RanMaking(new) => eng'.at = eng.at /\ eng'.p = eng.p /\ eng'.todo = Tail(eng.todo)
         /\ AbortedMaking(new) => eng'.at = "idle"
<1>1. /\ eng.p \in Promises /\ eng.p \notin over /\ Started(eng.p) /\ eng.at \in {"settled", "given_up"}
      /\ Left(eng.p) = 0 /\ Tail(eng.todo) \in Seq(Handlers)
      /\ eng.at = "settled" => IsDones(eng.p, Tail(eng.todo))
      /\ eng.at = "given_up" => IsFails(eng.p, Tail(eng.todo))
  BY HandlerOf
<1>2. CASE RanMaking(new)
  <2>1. Making(new) /\ eng' = [eng EXCEPT !.todo = Tail(eng.todo)]
    BY <1>2 DEF RanMaking
  <2>2. /\ eng'.at = eng.at /\ eng'.p = eng.p /\ eng'.todo = Tail(eng.todo) /\ eng'.arg = eng.arg
        /\ eng' \in [at : {"idle", "then", "failed", "handler", "settled", "given_up"},
               p : Promises \cup {None}, arg : {None, "error"}, todo : Seq(Handlers)]
    BY <1>1, <2>1 DEF Core, EngineTypes
  <2>3. /\ prom' \in [Promises -> PromiseType] /\ over' \subseteq Promises /\ ListsInv' /\ WaitInv'
        /\ prom'[eng.p] = prom[eng.p] /\ eng.p \notin over' /\ Started(eng.p)' /\ Left(eng.p)' = 0
    <3>1. eng'.at # "idle" => eng.at # "idle" /\ eng'.p = eng.p /\ eng.p \notin DOMAIN new
      BY <2>2
    <3>2. /\ prom' \in [Promises -> PromiseType] /\ over' \subseteq Promises /\ ListsInv' /\ WaitInv'
          /\ \A x \in Promises \ DOMAIN new :
               /\ prom'[x] = prom[x] /\ (x \in over' <=> x \in over)
               /\ Started(x)' <=> Started(x)
               /\ Left(x)' = Left(x)
      BY <2>1, <3>1, MakingStep
    <3>3. PICK p : p = eng.p
      OBVIOUS
    <3>4. p \in Promises \ DOMAIN new /\ p \notin over /\ Started(p) /\ Left(p) = 0
      BY <1>1, <3>3
    <3>5. prom'[p] = prom[p] /\ p \notin over' /\ prom'[p].state \in {"resolved", "rejected"} /\ Len(prom'[p].thens) = 0
      BY <3>2, <3>4 DEF Started, Left
    <3> QED
      BY <2>2, <3>2, <3>3, <3>5 DEF Started, Left
  <2>4. EngineTypes'
    BY <2>2, <2>3 DEF EngineTypes
  <2>5. EngineInv'
    BY <1>1, <2>2, <2>3 DEF Core, EngineInv, Started, Left
  <2> QED
    BY <2>2, <2>3, <2>4, <2>5, <1>1 DEF Core, AbortedMaking, Idle
<1>3. CASE AbortedMaking(new)
  <2>1. Making(new) /\ eng' = Idle /\ eng'.at = "idle"
    BY <1>3, WhereTypes DEF AbortedMaking
  <2>2. /\ prom' \in [Promises -> PromiseType] /\ over' \subseteq Promises /\ ListsInv' /\ WaitInv'
    BY <2>1, MakingStep
  <2>3. EngineTypes' /\ EngineInv'
    BY <2>1, <2>2, WhereTypes DEF EngineTypes, EngineInv
  <2>4. ~RanMaking(new)
    BY <1>1, <2>1 DEF RanMaking, Core, EngineTypes
  <2> QED
    BY <2>1, <2>2, <2>3, <2>4 DEF Core
<1> QED
  BY <1>2, <1>3

-----------------------------------------------------------------------------
(* The functions *)

\* the invariants of the robot, which the engine keeps or a function does
AppInv == AppTypes /\ OwedInv /\ RunInv /\ LoginInv /\ ScriptInv /\ GoingInv /\ LoginErrorsTaken

LEMMA Callers ==
  ASSUME Core, NEW p, p = eng.p
  PROVE  /\ Calling("check") => (p = "run" => Left(p) = 4) /\ (p = "login" => Left(p) = 9)
         /\ Calling("events") => (p = "run" /\ Left(p) = 3) \/ (p = "logic" /\ Left(p) = 1)
         /\ Calling("empty") => p = "login" /\ Left(p) = 1
         /\ Calling("ask_entry") => p = "run" /\ Left(p) = 2
         /\ Calling("ask_logic") => p = "run" /\ Left(p) = 1
         /\ Calling("enter") => p = "login" /\ Left(p) = 8
         /\ Calling("init") => p = "login" /\ Left(p) = 7
         /\ Calling("send") => p = "login" /\ Left(p) \in 2..6
         /\ Calling("star") => p = "api" /\ Left(p) = 1
<1> SUFFICES ASSUME HasThen PROVE
         /\ Calling("check") => (p = "run" => Left(p) = 4) /\ (p = "login" => Left(p) = 9)
         /\ Calling("events") => (p = "run" /\ Left(p) = 3) \/ (p = "logic" /\ Left(p) = 1)
         /\ Calling("empty") => p = "login" /\ Left(p) = 1
         /\ Calling("ask_entry") => p = "run" /\ Left(p) = 2
         /\ Calling("ask_logic") => p = "run" /\ Left(p) = 1
         /\ Calling("enter") => p = "login" /\ Left(p) = 8
         /\ Calling("init") => p = "login" /\ Left(p) = 7
         /\ Calling("send") => p = "login" /\ Left(p) \in 2..6
         /\ Calling("star") => p = "api" /\ Left(p) = 1
  BY DEF Calling
<1>1. ThenAt(p, Left(p), Entry.success) /\ Left(p) \in Nat
  BY TheEntry
<1> QED
  BY <1>1 DEF Calling, ThenAt, Awaited, Asides, Fetches

\* the functions of the scripts, when the engine leaves no promise and nothing begins
LEMMA ScriptsKept ==
  ASSUME ScriptInv, \A x \in Heads : Unsettled(x)' => Unsettled(x) /\ ~Ends(x),
         \A x \in Scripts : prom'[x].state # "none" => prom[x].state # "none" \/ user,
         user => user', running' => running
  PROVE  ScriptInv'
  BY DEF ScriptInv

LEMMA NotEnding ==
  ASSUME eng.at \notin {"settled", "given_up"} \/ eng.todo # <<>>
  PROVE  \A x : ~Ends(x)
  BY DEF Ends

\* what the invariants of the robot look at, when only the list of p gets shorter
LEMMA ShorterList ==
  ASSUME Core, AppInv, NEW p \in Promises, p = eng.p, eng.at = "then", p \notin over,
         prom[p].state = "resolved", prom'[p].state \in {"resolved", "rejected"},
         Left(p) \in Nat \ {0}, Left(p)' = Left(p) - 1,
         \A x \in Promises \ {p} : prom'[x] = prom[x],
         over' = over, eng'.at \in {"then", "failed"}, eng'.p = p,
         UNCHANGED <<app, net, past>>,
         p = "run" => Left(p) >= 3, p = "login" => Left(p) # 8
  PROVE  AppInv'
<1>1. /\ \A x \in Promises : /\ Unsettled(x)' <=> Unsettled(x)
                             /\ Started(x)' <=> Started(x)
                             /\ (prom'[x].state = "none" <=> prom[x].state = "none")
                             /\ (prom'[x].state = "pending" <=> prom[x].state = "pending")
                             /\ x # p => prom'[x].state = prom[x].state /\ Left(x)' = Left(x)
      /\ {"run", "logic", "entry", "login", "init", "send", "api", "api2"} \subseteq Promises
      /\ Scripts \subseteq Promises /\ Heads \subseteq Promises
      /\ Subs \subseteq Promises /\ Left("run") \in Nat /\ Left("login") \in Nat /\ owed \subseteq Promises
  BY NamesArePromises, LeftIsNat DEF Unsettled, Started, Left, AppInv, AppTypes
<1> USE DEF AppInv, app, net, past
<1>2. AppTypes'
  BY DEF AppTypes
<1>3. OwedInv'
  BY <1>1 DEF OwedInv
<1>4. RunInv'
  BY <1>1 DEF RunInv
<1>5. LoginInv'
  BY <1>1 DEF LoginInv
<1>6. ScriptInv'
  BY <1>1, NotEnding, ScriptsKept
<1>7. GoingInv'
  BY <1>1 DEF GoingInv, Working
<1>8. LoginErrorsTaken'
  BY DEF LoginErrorsTaken
<1> QED
  BY <1>2, <1>3, <1>4, <1>5, <1>6, <1>7, <1>8

LEMMA CheckRequestStep ==
  ASSUME Core, AppInv, CheckRequest
  PROVE  Core' /\ AppInv'
<1>0. PICK p : p = eng.p
  OBVIOUS
<1>1. p = eng.p /\ Calling("check") /\ HasThen /\ UNCHANGED <<app, net, past>>
  BY <1>0 DEF CheckRequest, Calling
<1>2. p = "run" => Left(p) >= 3
  BY <1>1, Callers
<1>3. p = "login" => Left(p) # 8
  BY <1>1, Callers
<1>4. CASE Returned("ok")
  <2>1. "ok" \in Results
    BY DEF Results
  <2>2. /\ Core'
        /\ p \in Promises /\ prom[p].state = "resolved" /\ p \notin over /\ Left(p) \in Nat \ {0}
        /\ prom'[p].state = "resolved" /\ Left(p)' = Left(p) - 1
        /\ \A x \in Promises \ {p} : prom'[x] = prom[x]
        /\ eng' = eng /\ eng.at = "then" /\ over' = over
    BY <1>1, <1>4, <2>1, ReturnedStep
  <2>3. prom'[p].state \in {"resolved", "rejected"} /\ eng'.at \in {"then", "failed"} /\ eng'.p = p
    BY <1>1, <2>2
  <2>4. AppInv'
    BY <1>1, <1>2, <1>3, <2>2, <2>3, ShorterList
  <2> QED
    BY <2>2, <2>4
<1>5. CASE Threw("error")
  <2>2. /\ Core'
        /\ p \in Promises /\ prom[p].state = "resolved" /\ p \notin over /\ Left(p) \in Nat \ {0}
        /\ prom'[p].state = "rejected" /\ Left(p)' = Left(p) - 1
        /\ \A x \in Promises \ {p} : prom'[x] = prom[x]
        /\ eng.at = "then" /\ eng'.at = "failed" /\ eng'.p = p /\ over' = over
    BY <1>1, <1>5, ThrewStep
  <2>3. prom'[p].state \in {"resolved", "rejected"} /\ eng'.at \in {"then", "failed"} /\ eng'.p = p
    BY <2>2
  <2>4. AppInv'
    BY <1>1, <1>2, <1>3, <2>2, <2>3, ShorterList
  <2> QED
    BY <2>2, <2>4
<1> QED
  BY <1>4, <1>5 DEF CheckRequest

LEMMA PassesStep ==
  ASSUME Core, AppInv, Passes
  PROVE  Core' /\ AppInv'
<1>0. PICK p : p = eng.p
  OBVIOUS
<1>1. p = eng.p /\ HasThen /\ UNCHANGED <<app, net, past>> /\ Returned("ok")
  BY <1>0 DEF Passes, Calling
<1>2. (p = "run" => Left(p) >= 3) /\ (p = "login" => Left(p) # 8)
  <2>1. Calling("events") \/ Calling("empty")
    BY DEF Passes
  <2> QED
    BY <1>1, <2>1, Callers
<1>3. "ok" \in Results
  BY DEF Results
<1>4. /\ Core'
      /\ p \in Promises /\ prom[p].state = "resolved" /\ p \notin over /\ Left(p) \in Nat \ {0}
      /\ prom'[p].state = "resolved" /\ Left(p)' = Left(p) - 1
      /\ \A x \in Promises \ {p} : prom'[x] = prom[x]
      /\ eng' = eng /\ eng.at = "then" /\ over' = over
  BY <1>1, <1>3, ReturnedStep
<1>5. prom'[p].state \in {"resolved", "rejected"} /\ eng'.at \in {"then", "failed"} /\ eng'.p = p
  BY <1>1, <1>4
<1>6. AppInv'
  BY <1>1, <1>2, <1>4, <1>5, ShorterList
<1> QED
  BY <1>4, <1>6

LEMMA EnterStep ==
  ASSUME Core, AppInv, Enter
  PROVE  Core' /\ AppInv'
<1>0. PICK p : p = eng.p
  OBVIOUS
<1>1. /\ p = eng.p /\ HasThen /\ Calling("enter") /\ Returned("ok") /\ "ok" \in Results
      /\ user' = TRUE /\ timer' = TRUE /\ running' = (running \/ ~timer)
      /\ UNCHANGED <<couldLogin, api_index, net, past>>
  BY <1>0 DEF Enter, Calling, Results, TimerStart
<1>2. p = "login" /\ Left("login") = 8
  BY <1>1, Callers
<1>3. /\ Core'
      /\ prom["login"].state = "resolved" /\ "login" \notin over
      /\ prom'["login"].state = "resolved" /\ Left("login")' = 7
      /\ \A x \in Promises \ {"login"} : prom'[x] = prom[x]
      /\ eng' = eng /\ eng.at = "then" /\ eng.p = "login" /\ over' = over
  BY <1>1, <1>2, ReturnedStep
<1>4. /\ \A x \in Promises : /\ Unsettled(x)' <=> Unsettled(x)
                             /\ Started(x)' <=> Started(x)
                             /\ prom'[x].state = prom[x].state
                             /\ x # "login" => Left(x)' = Left(x)
      /\ {"run", "logic", "entry", "login", "init", "send", "api", "api2"} \subseteq Promises
      /\ Scripts \subseteq Promises /\ Heads \subseteq Promises
      /\ Subs \subseteq Promises /\ owed \subseteq Promises
      /\ ~user
  BY <1>2, <1>3, NamesArePromises DEF Unsettled, Started, Left, AppInv, AppTypes, LoginInv
<1> USE DEF AppInv, net, past
<1>5. AppTypes'
  BY <1>1 DEF AppTypes
<1>6. OwedInv'
  BY <1>1, <1>4 DEF OwedInv
<1>7. RunInv'
  BY <1>1, <1>3, <1>4 DEF RunInv
<1>8. LoginInv'
  BY <1>1, <1>3, <1>4 DEF LoginInv, Started
<1>9. ScriptInv'
  <2>1. \A x \in Scripts : prom[x].state = "none"
    BY <1>4 DEF ScriptInv
  <2>2. \A x \in Heads : ~Unsettled(x)'
    BY <1>4, <2>1 DEF Heads, Scripts, Unsettled
  <2> QED
    BY <1>1, <1>4, <2>1, <2>2 DEF ScriptInv
<1>10. GoingInv'
  BY <1>1, <1>3, <1>4 DEF GoingInv, Working
<1>11. LoginErrorsTaken'
  BY <1>1 DEF LoginErrorsTaken
<1> QED
  BY <1>3, <1>5, <1>6, <1>7, <1>8, <1>9, <1>10, <1>11

LEMMA Known ==
  ASSUME Core, AppInv
  PROVE  /\ {"run", "logic", "entry", "login", "init", "send", "api", "api2"} \subseteq Promises
         /\ Scripts \subseteq Promises /\ Heads \subseteq Promises
         /\ Subs \subseteq Promises /\ owed \subseteq Promises
         /\ \A p \in Promises : Left(p) \in Nat
  BY NamesArePromises, LeftIsNat DEF AppInv, AppTypes

\* once the login may begin the logic server is connected
LEMMA Connected ==
  ASSUME Core, AppInv, couldLogin \/ prom["login"].state # "none"
  PROVE  /\ "logic" \in over /\ prom["logic"].state # "none" /\ Started("logic")
         /\ host = "logic" /\ logic_host /\ "entry" \in over
         /\ harm = {} => Working
<1>1. /\ prom["run"].state = "resolved" /\ Left("run") = 0
      /\ "run" \in over \/ (eng.at = "settled" /\ eng.p = "run")
  BY DEF AppInv, LoginInv
<1>2. prom["logic"].state # "none"
  BY <1>1 DEF AppInv, RunInv
<1>3. ~Unsettled("logic")
  <2>1. "logic" \in Subs /\ Parent("logic") = "run"
    BY DEF Subs, Parent
  <2> QED
    BY <1>1, <2>1 DEF Core, WaitInv
<1>4. "logic" \in over /\ Started("logic")
  BY <1>2, <1>3 DEF Unsettled, Core, WaitInv
<1> QED
  BY <1>2, <1>4 DEF AppInv, RunInv, GoingInv

\* a function of the login or of a script has asked the server
LEMMA AskedStep ==
  ASSUME Core, AppInv, NEW p, p = eng.p, NEW q \in {"init", "send", "api2"}, p = Parent(q),
         eng.at = "then", p \notin over, prom[p].state = "resolved", prom'[p].state = "resolved",
         Left(p) \in Nat \ {0}, Left(p)' = Left(p) - 1, ~Unsettled(q),
         prom'[q].state = "pending", \A x \in Promises \ {p, q} : prom'[x] = prom[x],
         over' = over \ {q}, eng'.at = "idle", p = "login" => Left(p) <= 7,
         Request(q), UNCHANGED <<app, past, net_state, logic_host, conn, host>>
  PROVE  AppInv'
<1>0. /\ q \in Subs /\ q \in Names /\ q \in Promises /\ p \in {"login", "api"} /\ p # q /\ p \in Promises
      /\ \A r \in Subs : r # p
  BY NamesArePromises DEF Subs, Parent, Names, Calls, Asked, Awaited
<1>1. /\ {"run", "logic", "entry", "login", "init", "send", "api", "api2"} \subseteq Promises
      /\ Scripts \subseteq Promises /\ Heads \subseteq Promises
      /\ Subs \subseteq Promises /\ owed \subseteq Promises
      /\ \A x \in Promises : Left(x) \in Nat
  BY Known
<1>2. /\ \A x \in Promises \ {q} : /\ Unsettled(x)' <=> Unsettled(x)
                                   /\ Started(x)' <=> Started(x)
                                   /\ prom'[x].state = prom[x].state
                                   /\ x # p => Left(x)' = Left(x)
      /\ Unsettled(q)' /\ Unsettled(p) /\ ~Started(q)'
  BY <1>0 DEF Unsettled, Started, Left
<1>3. user /\ prom["login"].state # "none"
  <2>1. p = "api" => p \in Scripts
    BY DEF Scripts, Awaited
  <2> QED
    BY <1>0, <2>1 DEF AppInv, LoginInv, ScriptInv, Started
<1>4. q \notin Heads
  BY DEF Heads, Awaited, Fetches
<1>5. harm = {} => Working
  BY <1>3, Connected
<1>6. q \in owed' \/ ~Working
  BY DEF Request, Requests
<1>7. owed \subseteq owed' /\ owed' \subseteq owed \cup {q}
  BY DEF Request, Requests
<1> USE DEF AppInv, app, past
<1>8. AppTypes'
  BY <1>0, <1>7 DEF AppTypes
<1>9. OwedInv'
  BY <1>0, <1>1, <1>2, <1>7 DEF OwedInv
<1>10. RunInv'
  BY <1>0, <1>1, <1>2 DEF RunInv
<1>11. LoginInv'
  BY <1>0, <1>1, <1>2, <1>3 DEF LoginInv
<1>12. ScriptInv'
  BY <1>1, <1>2, <1>3, <1>4, NotEnding, ScriptsKept
<1>13. GoingInv'
  <2> SUFFICES ASSUME harm = {} PROVE GoingInv'
    BY DEF GoingInv
  <2>1. Working /\ Working'
    BY <1>5 DEF Working
  <2>2. \A x \in Promises : prom'[x].state = "pending" => x \in owed'
    BY <1>2, <1>6, <1>7, <2>1 DEF GoingInv
  <2>3. ASSUME NEW x \in Promises \ Asides, Started(x)', x \notin over'
        PROVE  \E r \in Subs : Unsettled(r)' /\ Parent(r) = x
    <3>1. CASE x = p
      BY <1>0, <1>2, <3>1
    <3>2. CASE x # p
      <4>1. x # q /\ Started(x) /\ x \notin over
        BY <1>2, <2>3
      <4>2. PICK r \in Subs : Unsettled(r) /\ Parent(r) = x
        BY <3>2, <4>1 DEF GoingInv
      <4>3. r \in Promises /\ Unsettled(r)'
        BY <1>0, <1>1, <1>2, <4>2
      <4> QED
        BY <4>2, <4>3
    <3> QED
      BY <3>1, <3>2
  <2> QED
    BY <2>1, <2>2, <2>3, <1>0, <1>1, <1>2 DEF GoingInv, Working
<1>14. LoginErrorsTaken'
  BY DEF LoginErrorsTaken
<1> QED
  BY <1>8, <1>9, <1>10, <1>11, <1>12, <1>13, <1>14

LEMMA InitPlayerStep ==
  ASSUME Core, AppInv, InitPlayer
  PROVE  Core' /\ AppInv'
<1>0. PICK p : p = eng.p
  OBVIOUS
<1>1. /\ HasThen /\ Calling("init")
      /\ UNCHANGED <<app, past, net_state, logic_host, conn, host>>
  BY DEF InitPlayer, Calling
<1>2. p = "login" /\ Left("login") = 7
  BY <1>0, <1>1, Callers
<1>3. CASE Promised("init", PlayerRequest(<<>>, <<>>)) /\ Request("init")
  <2>1. /\ "init" \in Subs /\ Parent("init") = p /\ IsNew("init", PlayerRequest(<<>>, <<>>))
        /\ "init" \in {"init", "send"} => Left(p) \in 2..7
        /\ "init" \in {"init", "send", "api2"} /\ p = Parent("init")
        /\ p = "login" => Left(p) <= 7
    BY <1>2, NewPromises DEF Subs, Parent
  <2>2. PICK q : q = "init"
    OBVIOUS
  <2>3. /\ Core' /\ p \in Promises /\ q \in Promises /\ q # p
        /\ prom[p].state = "resolved" /\ prom'[p].state = "resolved" /\ p \notin over
        /\ over' = over \ {q} /\ ~Unsettled(q)
        /\ Left(p) \in Nat \ {0} /\ Left(p)' = Left(p) - 1
        /\ prom'[q].state = "pending"
        /\ \A x \in Promises \ {p, q} : prom'[x] = prom[x]
        /\ eng.at = "then" /\ eng'.at = "idle"
    BY <1>0, <1>1, <1>3, <2>1, <2>2, PromisedStep
  <2>4. AppInv'
    BY <1>0, <1>1, <1>3, <2>1, <2>2, <2>3, AskedStep
  <2> QED
    BY <2>3, <2>4
<1>4. CASE Returned(None) /\ UNCHANGED owed
  <2>1. None \in Results
    BY DEF Results
  <2>2. /\ Core'
        /\ p \in Promises /\ prom[p].state = "resolved" /\ p \notin over /\ Left(p) \in Nat \ {0}
        /\ prom'[p].state = "resolved" /\ Left(p)' = Left(p) - 1
        /\ \A x \in Promises \ {p} : prom'[x] = prom[x]
        /\ eng' = eng /\ eng.at = "then" /\ over' = over
    BY <1>0, <1>1, <1>4, <2>1, ReturnedStep
  <2>3. /\ prom'[p].state \in {"resolved", "rejected"} /\ eng'.at \in {"then", "failed"} /\ eng'.p = p
    BY <1>0, <2>2
  <2>6. /\ p = "run" => Left(p) >= 3
        /\ p = "login" => Left(p) # 8
    BY <1>2
  <2>5. UNCHANGED <<app, net, past>>
    BY <1>1, <1>4 DEF net
  <2>4. AppInv'
    BY <1>0, <2>2, <2>3, <2>5, <2>6, ShorterList
  <2> QED
    BY <2>2, <2>4
<1> QED
  BY <1>1, <1>3, <1>4 DEF InitPlayer

LEMMA SendGlobalMsgStep ==
  ASSUME Core, AppInv, SendGlobalMsg
  PROVE  Core' /\ AppInv'
<1>0. PICK p : p = eng.p
  OBVIOUS
<1>1. PICK q : q = "send"
  OBVIOUS
<1>2. /\ HasThen /\ Calling("send") /\ Promised(q, NewPromise(Check, <<>>, <<>>)) /\ Request(q)
      /\ UNCHANGED <<app, past, net_state, logic_host, conn, host>>
  BY <1>1 DEF SendGlobalMsg, Calling
<1>3. /\ p = "login" /\ Left(p) \in 2..6 /\ q \in Subs /\ Parent(q) = p
      /\ IsNew(q, NewPromise(Check, <<>>, <<>>))
      /\ q \in {"init", "send"} => Left(p) \in 2..7
      /\ q \in {"init", "send", "api2"} /\ p = Parent(q)
      /\ p = "login" => Left(p) <= 7
  BY <1>0, <1>1, <1>2, Callers, NewPromises DEF Subs, Parent
<1>4. /\ Core' /\ p \in Promises /\ q \in Promises /\ q # p
      /\ prom[p].state = "resolved" /\ prom'[p].state = "resolved" /\ p \notin over
      /\ over' = over \ {q} /\ ~Unsettled(q)
      /\ Left(p) \in Nat \ {0} /\ Left(p)' = Left(p) - 1
      /\ prom'[q].state = "pending"
      /\ \A x \in Promises \ {p, q} : prom'[x] = prom[x]
      /\ eng.at = "then" /\ eng'.at = "idle"
  BY <1>0, <1>2, <1>3, PromisedStep
<1>5. AppInv'
  BY <1>0, <1>2, <1>3, <1>4, AskedStep
<1> QED
  BY <1>4, <1>5

LEMMA StartDailyQuestStep ==
  ASSUME Core, AppInv, StartDailyQuest
  PROVE  Core' /\ AppInv'
<1>0. PICK p : p = eng.p
  OBVIOUS
<1>1. PICK q : q = "api2"
  OBVIOUS
<1>2. /\ HasThen /\ Calling("star") /\ Promised(q, PlayerRequest(<<>>, <<>>)) /\ Request(q)
      /\ UNCHANGED <<app, past, net_state, logic_host, conn, host>>
  BY <1>1 DEF StartDailyQuest, Calling
<1>3. /\ p = "api" /\ q \in Subs /\ Parent(q) = p
      /\ IsNew(q, PlayerRequest(<<>>, <<>>))
      /\ q \in {"init", "send"} => Left(p) \in 2..7
      /\ q \in {"init", "send", "api2"} /\ p = Parent(q)
      /\ p = "login" => Left(p) <= 7
  BY <1>0, <1>1, <1>2, Callers, NewPromises DEF Subs, Parent
<1>4. /\ Core' /\ p \in Promises /\ q \in Promises /\ q # p
      /\ prom[p].state = "resolved" /\ prom'[p].state = "resolved" /\ p \notin over
      /\ over' = over \ {q} /\ ~Unsettled(q)
      /\ Left(p) \in Nat \ {0} /\ Left(p)' = Left(p) - 1
      /\ prom'[q].state = "pending"
      /\ \A x \in Promises \ {p, q} : prom'[x] = prom[x]
      /\ eng.at = "then" /\ eng'.at = "idle"
  BY <1>0, <1>2, <1>3, PromisedStep
<1>5. AppInv'
  BY <1>0, <1>2, <1>3, <1>4, AskedStep
<1> QED
  BY <1>4, <1>5

LEMMA AskEntryStep ==
  ASSUME Core, AppInv, AskEntry
  PROVE  Core' /\ AppInv'
<1>0. PICK p : p = eng.p
  OBVIOUS
<1>1. PICK q : q = "entry"
  OBVIOUS
<1>2. /\ HasThen /\ Calling("ask_entry") /\ Promised(q, NewPromise(Check, <<"leave">>, <<>>)) /\ Request(q)
      /\ UNCHANGED <<app, past, net_state, logic_host, conn, host>>
  BY <1>1 DEF AskEntry, Calling
<1>3. /\ p = "run" /\ Left(p) = 2 /\ q \in Subs /\ Parent(q) = p
      /\ IsNew(q, NewPromise(Check, <<"leave">>, <<>>))
      /\ q \in {"init", "send"} => Left(p) \in 2..7
  BY <1>0, <1>1, <1>2, Callers, NewPromises DEF Subs, Parent
<1>4. /\ Core' /\ p \in Promises /\ q \in Promises /\ q # p
      /\ prom[p].state = "resolved" /\ prom'[p].state = "resolved" /\ p \notin over
      /\ over' = over \ {q} /\ ~Unsettled(q)
      /\ Left(p)' = Left(p) - 1
      /\ prom'[q].state = "pending"
      /\ \A x \in Promises \ {p, q} : prom'[x] = prom[x]
      /\ \A r \in Subs : Unsettled(r) => Parent(r) # p
      /\ eng.at = "then" /\ eng'.at = "idle"
  BY <1>0, <1>2, <1>3, PromisedStep
<1>5. /\ {"run", "logic", "entry", "login", "init", "send", "api", "api2"} \subseteq Promises
      /\ Scripts \subseteq Promises /\ Heads \subseteq Promises
      /\ Subs \subseteq Promises /\ owed \subseteq Promises
      /\ \A x \in Promises : Left(x) \in Nat
  BY Known
<1>6. /\ \A x \in Promises \ {q} : /\ Unsettled(x)' <=> Unsettled(x)
                                   /\ Started(x)' <=> Started(x)
                                   /\ prom'[x].state = prom[x].state
                                   /\ x # p => Left(x)' = Left(x)
      /\ Unsettled(q)' /\ Unsettled(p) /\ ~Started(q)'
  BY <1>4 DEF Unsettled, Started, Left
<1>7. /\ Left("run") = 2 /\ Left("run")' = 1 /\ prom["run"].state = "resolved"
      /\ prom'["run"].state = "resolved" /\ "run" \notin over /\ "run" \notin over'
      /\ eng.p = "run" /\ eng.at = "then"
      /\ prom'["entry"].state = "pending" /\ "entry" \notin over'
  BY <1>0, <1>1, <1>3, <1>4
<1>8. /\ prom["entry"].state = "none" /\ prom["logic"].state = "none" /\ host = "gate"
      /\ ~couldLogin /\ prom["login"].state = "none"
      /\ harm = {} => Working
  BY <1>7 DEF AppInv, RunInv, LoginInv, GoingInv, Started
<1>9. /\ owed \subseteq owed' /\ owed' \subseteq owed \cup {q} /\ (Working => q \in owed')
      /\ q \in Names
  BY <1>1, <1>2 DEF Request, Requests, Names, Asked
<1> USE DEF AppInv, app, past
<1>10. AppTypes'
  BY <1>2, <1>9 DEF AppTypes
<1>11. OwedInv'
  BY <1>4, <1>5, <1>6, <1>9 DEF OwedInv
<1>12. RunInv'
  BY <1>1, <1>2, <1>4, <1>5, <1>6, <1>7, <1>8 DEF RunInv
<1>13. LoginInv'
  BY <1>1, <1>2, <1>3, <1>5, <1>6, <1>7, <1>8 DEF LoginInv
<1>14. ScriptInv'
  <2>1. q \notin Scripts /\ q \notin Heads
    BY <1>1 DEF Scripts, Heads, Awaited, Asides, Fetches
  <2> QED
    BY <1>2, <1>4, <1>5, <1>6, <2>1, NotEnding, ScriptsKept
<1>15. GoingInv'
  <2> SUFFICES ASSUME harm = {} PROVE GoingInv'
    BY <1>2 DEF GoingInv
  <2>1. Working /\ Working'
    BY <1>2, <1>8 DEF Working
  <2>2. \A x \in Promises : prom'[x].state = "pending" => x \in owed'
    BY <1>6, <1>9, <2>1 DEF GoingInv
  <2>3. ASSUME NEW x \in Promises \ Asides, Started(x)', x \notin over'
        PROVE  \E r \in Subs : Unsettled(r)' /\ Parent(r) = x
    <3>1. CASE x = p
      BY <1>3, <1>6, <3>1
    <3>2. CASE x # p
      <4>1. x # q /\ Started(x) /\ x \notin over
        BY <1>4, <1>6, <2>3
      <4>2. PICK r \in Subs : Unsettled(r) /\ Parent(r) = x
        BY <1>0, <3>2, <4>1 DEF GoingInv
      <4>3. r \in Promises /\ Unsettled(r)'
        BY <1>4, <1>5, <1>6, <4>2
      <4> QED
        BY <4>2, <4>3
    <3> QED
      BY <3>1, <3>2
  <2>4. conn' # "lost"
    BY <2>1 DEF Working
  <2> QED
    BY <2>1, <2>2, <2>3, <2>4 DEF GoingInv
<1>16. LoginErrorsTaken'
  BY <1>2 DEF LoginErrorsTaken
<1> QED
  BY <1>4, <1>10, <1>11, <1>12, <1>13, <1>14, <1>15, <1>16

LEMMA AskLogicStep ==
  ASSUME Core, AppInv, AskLogic
  PROVE  Core' /\ AppInv'
<1>0. PICK p : p = eng.p
  OBVIOUS
<1>1. PICK q : q = "logic"
  OBVIOUS
<1>2. /\ HasThen /\ Calling("ask_logic") /\ Connect(q, "logic")
      /\ Promised(q, NewPromise(<<Next1("check"), Next1("events")>>, <<>>, <<>>))
      /\ UNCHANGED <<app, past, net_state, logic_host>>
  BY <1>1 DEF AskLogic, Calling
<1>3. /\ p = "run" /\ Left(p) = 1 /\ q \in Subs /\ Parent(q) = p
      /\ IsNew(q, NewPromise(<<Next1("check"), Next1("events")>>, <<>>, <<>>))
      /\ q \in {"init", "send"} => Left(p) \in 2..7
  BY <1>0, <1>1, <1>2, Callers, NewPromises DEF Subs, Parent
<1>4. /\ Core' /\ p \in Promises /\ q \in Promises /\ q # p
      /\ prom[p].state = "resolved" /\ prom'[p].state = "resolved" /\ p \notin over
      /\ over' = over \ {q} /\ ~Unsettled(q)
      /\ Left(p)' = Left(p) - 1
      /\ prom'[q].state = "pending"
      /\ \A x \in Promises \ {p, q} : prom'[x] = prom[x]
      /\ \A r \in Subs : Unsettled(r) => Parent(r) # p
      /\ eng.at = "then" /\ eng'.at = "idle"
  BY <1>0, <1>2, <1>3, PromisedStep
<1>5. /\ {"run", "logic", "entry", "login", "init", "send", "api", "api2"} \subseteq Promises
      /\ Scripts \subseteq Promises /\ Heads \subseteq Promises
      /\ Subs \subseteq Promises /\ owed \subseteq Promises
      /\ \A x \in Promises : Left(x) \in Nat
  BY Known
<1>6. /\ \A x \in Promises \ {q} : /\ Unsettled(x)' <=> Unsettled(x)
                                   /\ Started(x)' <=> Started(x)
                                   /\ prom'[x].state = prom[x].state
                                   /\ x # p => Left(x)' = Left(x)
      /\ Unsettled(q)' /\ Unsettled(p) /\ ~Started(q)'
  BY <1>4 DEF Unsettled, Started, Left
<1>7. /\ Left("run") = 1 /\ Left("run")' = 0 /\ prom["run"].state = "resolved"
      /\ prom'["run"].state = "resolved" /\ "run" \notin over /\ "run" \notin over'
      /\ eng.p = "run" /\ eng.at = "then"
      /\ prom'["logic"].state = "pending" /\ "logic" \notin over'
  BY <1>0, <1>1, <1>3, <1>4
<1>8. /\ prom["entry"].state # "none" /\ prom["logic"].state = "none"
      /\ ~couldLogin /\ prom["login"].state = "none"
  BY <1>7 DEF AppInv, RunInv, LoginInv
<1>9. "entry" \in over /\ "entry" \in over' /\ logic_host
  <2>1. "entry" \in Subs /\ Parent("entry") = p /\ "entry" # q
    BY <1>1, <1>3 DEF Subs, Parent
  <2>2. "entry" \in over
    BY <1>4, <1>8, <2>1 DEF Unsettled
  <2> QED
    BY <1>4, <1>7, <2>1, <2>2 DEF AppInv, RunInv
<1>10. /\ owed' = owed \cup {q} /\ q \in Names /\ conn' = "connecting" /\ host' = "logic"
  BY <1>1, <1>2 DEF Connect, Names, Calls
<1> USE DEF AppInv, app, past
<1>11. AppTypes'
  BY <1>2, <1>10 DEF AppTypes
<1>12. OwedInv'
  BY <1>4, <1>5, <1>6, <1>10 DEF OwedInv
<1>13. RunInv'
  BY <1>1, <1>2, <1>4, <1>5, <1>6, <1>7, <1>8, <1>9, <1>10 DEF RunInv, Unsettled
<1>14. LoginInv'
  BY <1>1, <1>2, <1>3, <1>5, <1>6, <1>7, <1>8 DEF LoginInv
<1>15. ScriptInv'
  <2>1. q \notin Scripts /\ q \notin Heads
    BY <1>1 DEF Scripts, Heads, Awaited, Asides, Fetches
  <2> QED
    BY <1>2, <1>4, <1>5, <1>6, <2>1, NotEnding, ScriptsKept
<1>16. GoingInv'
  <2> SUFFICES ASSUME harm = {} PROVE GoingInv'
    BY <1>2 DEF GoingInv
  <2>2. \A x \in Promises : prom'[x].state = "pending" => x \in owed'
    BY <1>6, <1>10 DEF GoingInv
  <2>3. ASSUME NEW x \in Promises \ Asides, Started(x)', x \notin over'
        PROVE  \E r \in Subs : Unsettled(r)' /\ Parent(r) = x
    <3>1. CASE x = p
      BY <1>3, <1>6, <3>1
    <3>2. CASE x # p
      <4>1. x # q /\ Started(x) /\ x \notin over
        BY <1>4, <1>6, <2>3
      <4>2. PICK r \in Subs : Unsettled(r) /\ Parent(r) = x
        BY <1>0, <3>2, <4>1 DEF GoingInv
      <4>3. r \in Promises /\ Unsettled(r)'
        BY <1>4, <1>5, <1>6, <4>2
      <4> QED
        BY <4>2, <4>3
    <3> QED
      BY <3>1, <3>2
  <2>4. conn' # "lost" /\ prom'["entry"].state # "none" /\ ~Started("logic")'
    BY <1>1, <1>5, <1>6, <1>8, <1>10
  <2> QED
    BY <2>2, <2>3, <2>4 DEF GoingInv
<1>17. LoginErrorsTaken'
  BY <1>2 DEF LoginErrorsTaken
<1> QED
  BY <1>4, <1>11, <1>12, <1>13, <1>14, <1>15, <1>16, <1>17

LEMMA CallCatchStep ==
  ASSUME Core, AppInv, CallCatch
  PROVE  Core' /\ AppInv'
<1>1. eng.at = "handler" /\ Handled(None) /\ UNCHANGED <<app, net, past>>
  <2>1. eng.at = "handler" /\ UNCHANGED <<app, net, past>>
    BY DEF CallCatch
  <2>2. eng.arg = "error"
    BY <2>1 DEF Core, EngineInv
  <2> QED
    BY <2>1, <2>2, NamesArePromises DEF CallCatch
<1>2. /\ Core' /\ over' = over
      /\ eng.p = "login" /\ eng'.p = "login" /\ eng'.at = "then" /\ "login" \notin over
      /\ Left("login")' = 0 /\ Left("login") = 0
      /\ prom'["login"].state = "rejected" /\ prom["login"].state = "rejected"
      /\ \A x \in Promises \ {"login"} : prom'[x] = prom[x]
  BY <1>1, HandledStep
<1>3. /\ {"run", "logic", "entry", "login", "init", "send", "api", "api2"} \subseteq Promises
      /\ Scripts \subseteq Promises /\ Heads \subseteq Promises
      /\ Subs \subseteq Promises /\ owed \subseteq Promises
      /\ \A x \in Promises : Left(x) \in Nat
  BY Known
<1>4. \A x \in Promises : /\ Unsettled(x)' <=> Unsettled(x)
                          /\ Started(x)' <=> Started(x)
                          /\ prom'[x].state = prom[x].state
                          /\ Left(x)' = Left(x)
  BY <1>2 DEF Unsettled, Started, Left
<1> USE DEF AppInv, app, net, past
<1>5. AppTypes'
  BY <1>1 DEF AppTypes
<1>6. OwedInv'
  BY <1>1, <1>3, <1>4 DEF OwedInv
<1>7. RunInv'
  BY <1>1, <1>2, <1>3, <1>4 DEF RunInv
<1>8. LoginInv'
  BY <1>1, <1>2, <1>3, <1>4 DEF LoginInv
<1>9. ScriptInv'
  BY <1>1, <1>3, <1>4, NotEnding, ScriptsKept
<1>10. GoingInv'
  BY <1>1, <1>2, <1>3, <1>4 DEF GoingInv, Working
<1>11. LoginErrorsTaken'
  BY <1>1 DEF LoginErrorsTaken
<1> QED
  BY <1>2, <1>5, <1>6, <1>7, <1>8, <1>9, <1>10, <1>11

\* while a handler is to be called, no other function runs, and the login has no reason yet
LEMMA HandlerFacts ==
  ASSUME Core, AppInv, HasHandler
  PROVE  /\ \A x : ~Ends(x)
         /\ \A x \in Heads : Unsettled(x) => ~running
         /\ \A x, y \in Heads : Unsettled(x) /\ Unsettled(y) => x = y
         /\ couldLogin \/ prom["login"].state # "none" => "run" \in over
         /\ eng.at \in {"settled", "given_up"} /\ eng.todo # <<>>
  BY DEF HasHandler, Finishing, AppInv, ScriptInv, LoginInv, Ends

LEMMA CouldLoginStep ==
  ASSUME Core, AppInv, CouldLogin
  PROVE  Core' /\ AppInv'
<1>0. PICK p : p = eng.p
  OBVIOUS
<1>1. /\ HasHandler /\ Head(eng.todo) = "could_login" /\ Ran /\ couldLogin' = TRUE
      /\ UNCHANGED <<running, user, timer, api_index, net, past>>
  BY DEF CouldLogin, Handler
<1>2. /\ Core' /\ UNCHANGED <<prom, over>>
      /\ eng'.at = eng.at /\ eng'.p = eng.p /\ eng'.todo = Tail(eng.todo)
  BY <1>1, RanStep
<1>3. /\ p \in Promises /\ p \notin over /\ Started(p) /\ eng.at \in {"settled", "given_up"}
      /\ Left(p) = 0
      /\ eng.at = "settled" => /\ DoneAt(p, Len(eng.todo), Head(eng.todo))
                               /\ Len(eng.todo) = 1 => Tail(eng.todo) = <<>>
      /\ eng.at = "given_up" => Head(eng.todo) = "set_run"
  BY <1>0, <1>1, HandlerOf
<1>4. p = "run" /\ eng.at = "settled" /\ Tail(eng.todo) = <<>>
  BY <1>1, <1>3 DEF DoneAt
<1>5. prom["run"].state = "resolved"
  BY <1>0, <1>3, <1>4 DEF Core, EngineInv, Started
<1>6. prom["login"].state = "none" /\ eng.todo # <<>>
  BY <1>1, <1>3, <1>4, HandlerFacts
<1>7. \A x \in Promises : /\ Unsettled(x)' <=> Unsettled(x)
                          /\ Started(x)' <=> Started(x)
                          /\ Left(x)' = Left(x)
  BY <1>2 DEF Unsettled, Started, Left
<1>8. /\ {"run", "logic", "entry", "login", "init", "send", "api", "api2"} \subseteq Promises
      /\ Scripts \subseteq Promises /\ Heads \subseteq Promises
      /\ Subs \subseteq Promises /\ owed \subseteq Promises
  BY Known
<1> USE DEF AppInv, net, past
<1>9. AppTypes'
  BY <1>1 DEF AppTypes
<1>10. OwedInv'
  BY <1>1, <1>2 DEF OwedInv
<1>11. RunInv'
  BY <1>0, <1>1, <1>2, <1>4, <1>7, <1>8 DEF RunInv
<1>12. LoginInv'
  BY <1>0, <1>1, <1>2, <1>3, <1>4, <1>5, <1>6, <1>7, <1>8 DEF LoginInv
<1>13. ScriptInv'
  <2>1. \A x : ~Ends(x)
    BY <1>6, NotEnding
  <2> QED
    BY <1>1, <1>2, <1>7, <1>8, <2>1, ScriptsKept
<1>14. GoingInv'
  BY <1>1, <1>2, <1>7, <1>8 DEF GoingInv, Working
<1>15. LoginErrorsTaken'
  BY <1>1 DEF LoginErrorsTaken
<1> QED
  BY <1>2, <1>9, <1>10, <1>11, <1>12, <1>13, <1>14, <1>15

\* running is set again by a handler of p, which is a promise that a function waits for
LEMMA RunningAgain ==
  ASSUME Core, AppInv, HasHandler, NEW p, p = eng.p, p \in Heads, Tail(eng.todo) = <<>>,
         Ran, running' = TRUE, UNCHANGED <<couldLogin, user, timer, api_index, net, past>>
  PROVE  Core' /\ AppInv'
<1>1. /\ Core' /\ UNCHANGED <<prom, over>>
      /\ eng'.at = eng.at /\ eng'.p = eng.p /\ eng'.todo = Tail(eng.todo)
  BY RanStep
<1>2. /\ p # "entry" /\ p # "run" /\ p \in Promises /\ p \notin over /\ Started(p)
      /\ eng.at \in {"settled", "given_up"}
  BY HandlerOf DEF Heads, Awaited, Fetches
<1>3. /\ couldLogin \/ prom["login"].state # "none" => "run" \in over
      /\ \A x, y \in Heads : Unsettled(x) /\ Unsettled(y) => x = y
  BY HandlerFacts
<1>4. \A x \in Promises : /\ Unsettled(x)' <=> Unsettled(x)
                          /\ Started(x)' <=> Started(x)
                          /\ Left(x)' = Left(x)
  BY <1>1 DEF Unsettled, Started, Left
<1>5. /\ {"run", "logic", "entry", "login", "init", "send", "api", "api2"} \subseteq Promises
      /\ Scripts \subseteq Promises /\ Heads \subseteq Promises
      /\ Subs \subseteq Promises /\ owed \subseteq Promises
  BY Known
<1> USE DEF AppInv, net, past
<1>6. AppTypes'
  BY DEF AppTypes
<1>7. OwedInv'
  BY <1>1 DEF OwedInv
<1>8. RunInv'
  BY <1>1, <1>2, <1>4, <1>5 DEF RunInv
<1>9. LoginInv'
  BY <1>1, <1>3, <1>4, <1>5 DEF LoginInv
<1>10. ScriptInv'
  <2>1. Unsettled(p) /\ Ends(p)'
    BY <1>1, <1>2 DEF Unsettled, Started, Ends
  <2>2. \A x \in Heads : Unsettled(x)' => x = p
    BY <1>3, <1>4, <1>5, <2>1
  <2> QED
    BY <1>1, <2>1, <2>2 DEF ScriptInv
<1>11. GoingInv'
  BY <1>1, <1>4, <1>5 DEF GoingInv, Working
<1>12. LoginErrorsTaken'
  BY DEF LoginErrorsTaken
<1> QED
  BY <1>1, <1>6, <1>7, <1>8, <1>9, <1>10, <1>11, <1>12

LEMMA SetRunStep ==
  ASSUME Core, AppInv, SetRun
  PROVE  Core' /\ AppInv'
<1>1. /\ HasHandler /\ Head(eng.todo) = "set_run" /\ Ran /\ running' = TRUE
      /\ UNCHANGED <<couldLogin, user, timer, api_index, net, past>>
  BY DEF SetRun, Handler
<1>2. eng.p \in {"api", "join"} /\ Tail(eng.todo) = <<>>
  BY <1>1, HandlerOf DEF DoneAt
<1>3. eng.p \in Heads
  BY <1>2 DEF Heads, Awaited
<1> QED
  BY <1>1, <1>2, <1>3, RunningAgain

LEMMA LeaveStep ==
  ASSUME Core, AppInv, Leave
  PROVE  Core' /\ AppInv'
<1>0. PICK p : p = eng.p
  OBVIOUS
<1>1. /\ HasHandler /\ Head(eng.todo) = "leave" /\ Ran
      /\ Disconnect /\ logic_host' = TRUE /\ UNCHANGED <<app, past, host>>
  BY DEF Leave, Handler
<1>2. /\ Core' /\ UNCHANGED <<prom, over>>
      /\ eng'.at = eng.at /\ eng'.p = eng.p /\ eng'.todo = Tail(eng.todo)
  BY <1>1, RanStep
<1>3. /\ p \in Promises /\ p \notin over /\ Started(p) /\ eng.at \in {"settled", "given_up"}
      /\ eng.at = "settled" => DoneAt(p, Len(eng.todo), Head(eng.todo))
      /\ eng.at = "given_up" => Head(eng.todo) = "set_run"
  BY <1>0, <1>1, HandlerOf
<1>4. p = "entry" /\ eng.at = "settled" /\ Unsettled("entry") /\ Started("entry")
  BY <1>1, <1>3 DEF DoneAt, Unsettled, Started
<1>5. couldLogin \/ prom["login"].state # "none" => "run" \in over
  BY <1>1, HandlerFacts
<1>6. \A x \in Promises : /\ Unsettled(x)' <=> Unsettled(x)
                          /\ Started(x)' <=> Started(x)
                          /\ Left(x)' = Left(x)
  BY <1>2 DEF Unsettled, Started, Left
<1>7. /\ {"run", "logic", "entry", "login", "init", "send", "api", "api2"} \subseteq Promises
      /\ Scripts \subseteq Promises /\ Heads \subseteq Promises
      /\ Subs \subseteq Promises /\ owed \subseteq Promises
  BY Known
<1>8. /\ Left("run") = 1 /\ prom["run"].state = "resolved" /\ prom["logic"].state = "none"
  <2>1. "entry" \in Subs /\ Parent("entry") = "run"
    BY DEF Subs, Parent
  <2>2. Left("run") = 1 /\ prom["run"].state = "resolved"
    BY <1>4, <2>1 DEF AppInv, RunInv, Core, WaitInv
  <2> QED
    BY <2>2 DEF AppInv, RunInv
<1>9. /\ prom["login"].state = "none" /\ ~user
      /\ \A x \in Scripts : prom[x].state = "none"
  BY <1>8 DEF AppInv, LoginInv, ScriptInv, Started
<1>10. \A x \in Promises : prom[x].state # "pending"
  <2> SUFFICES ASSUME NEW x \in Promises, prom[x].state = "pending" PROVE FALSE
    OBVIOUS
  <2>1. x \in Names
    BY DEF Core, ListsInv
  <2> QED
    BY <1>4, <1>8, <1>9, <2>1 DEF Names, Calls, Asked, Scripts, Started
<1>11. /\ owed' \subseteq owed /\ net_state' \in BOOLEAN
       /\ conn' \in {"none", conn}
  BY <1>1 DEF Disconnect, AppInv, AppTypes
<1> USE DEF AppInv, app, past
<1>12. AppTypes'
  BY <1>1, <1>11 DEF AppTypes
<1>13. OwedInv'
  BY <1>2, <1>11 DEF OwedInv
<1>14. RunInv'
  BY <1>1, <1>2, <1>6, <1>7 DEF RunInv
<1>15. LoginInv'
  BY <1>1, <1>2, <1>5, <1>6, <1>7 DEF LoginInv
<1>16. ScriptInv'
  <2>1. \A x : ~Ends(x)
    BY <1>1, HandlerFacts
  <2> QED
    BY <1>1, <1>2, <1>6, <1>7, <2>1, ScriptsKept
<1>17. GoingInv'
  BY <1>1, <1>2, <1>4, <1>6, <1>7, <1>8, <1>10, <1>11 DEF GoingInv, Started
<1>18. LoginErrorsTaken'
  BY <1>1 DEF LoginErrorsTaken
<1> QED
  BY <1>2, <1>12, <1>13, <1>14, <1>15, <1>16, <1>17, <1>18

LEMMA PlayerDataStep ==
  ASSUME Core, AppInv, PlayerData
  PROVE  Core' /\ AppInv'
<1>0. PICK p : p = eng.p
  OBVIOUS
<1>1. /\ HasHandler /\ Head(eng.todo) = "player" /\ UNCHANGED <<app, net, uncaught>>
      /\ (Ran /\ UNCHANGED harm) \/ (Aborted /\ (harm' # {} \/ (harm' = harm /\ p \in Asides)))
  <2>1. /\ HasHandler /\ Head(eng.todo) = "player" /\ UNCHANGED <<app, net, uncaught>>
        /\ (Ran /\ UNCHANGED harm) \/ (Aborted /\ Harm("delta"))
    BY ZenonT(20) DEF PlayerData, Handler
  <2>2. Harm("delta") => harm' # {} \/ (harm' = harm /\ p \in Asides)
    BY <1>0 DEF Harm
  <2> QED
    BY <2>1, <2>2
<1>2. /\ Core' /\ UNCHANGED <<prom, over>>
      /\ Ran => eng'.at = eng.at /\ eng'.p = eng.p
      /\ Aborted => eng'.at = "idle"
  BY <1>1, RanStep, AbortedStep
<1>3. /\ eng.at \in {"settled", "given_up"}
      /\ eng.at = "settled" => DoneAt(p, Len(eng.todo), Head(eng.todo))
      /\ eng.at = "given_up" => Head(eng.todo) = "set_run"
  BY <1>0, <1>1, HandlerOf
<1>4. p # "entry"
  BY <1>1, <1>3 DEF DoneAt, Asides
<1>5. /\ couldLogin \/ prom["login"].state # "none" => "run" \in over
      /\ \A x : ~Ends(x)
  BY <1>1, HandlerFacts
<1>6. \A x \in Promises : /\ Unsettled(x)' <=> Unsettled(x)
                          /\ Started(x)' <=> Started(x)
                          /\ Left(x)' = Left(x)
  BY <1>2 DEF Unsettled, Started, Left
<1>7. /\ {"run", "logic", "entry", "login", "init", "send", "api", "api2"} \subseteq Promises
      /\ Scripts \subseteq Promises /\ Heads \subseteq Promises
      /\ Subs \subseteq Promises /\ owed \subseteq Promises
  BY Known
<1>8. eng'.at # "idle" => Ran
  BY <1>1, <1>2
<1> USE DEF AppInv, app, net
<1>9. AppTypes'
  BY <1>1 DEF AppTypes
<1>10. OwedInv'
  BY <1>1, <1>2 DEF OwedInv
<1>11. RunInv'
  BY <1>0, <1>1, <1>2, <1>4, <1>6, <1>7, <1>8 DEF RunInv
<1>12. LoginInv'
  BY <1>1, <1>2, <1>5, <1>6, <1>7 DEF LoginInv
<1>13. ScriptInv'
  BY <1>1, <1>2, <1>5, <1>6, <1>7, ScriptsKept
<1>14. GoingInv'
  <2>1. CASE harm' # {}
    BY <2>1 DEF GoingInv
  <2>2. CASE harm' = {}
    <3>1. /\ harm = {}
          /\ (eng.p \in Promises \ Asides /\ eng.at # "idle") => eng'.at # "idle" /\ eng'.p = eng.p
      BY <1>0, <1>1, <1>2, <1>3, <2>2
    <3> QED
      BY <1>1, <1>2, <1>6, <1>7, <2>2, <3>1 DEF GoingInv, Working
  <2> QED
    BY <2>1, <2>2
<1>15. LoginErrorsTaken'
  BY <1>1 DEF LoginErrorsTaken
<1> QED
  BY <1>2, <1>9, <1>10, <1>11, <1>12, <1>13, <1>14, <1>15

LEMMA ThensDoneKeeps ==
  ASSUME Core, AppInv, ThensDone, UNCHANGED <<app, net, past>>
  PROVE  Core' /\ AppInv'
<1>0. PICK p : p = eng.p
  OBVIOUS
<1>1. /\ Core' /\ UNCHANGED <<prom, over>>
      /\ p \in Promises /\ p \notin over /\ Started(p) /\ eng.at = "then" /\ Left(p) = 0
      /\ eng'.at = "settled" /\ eng'.p = p
      /\ prom[p].state = "resolved" => eng'.todo = prom[p].dones
  BY <1>0, ThensDoneStep
<1>2. p = "entry" => eng'.todo # <<>>
  <2> SUFFICES ASSUME p = "entry" PROVE eng'.todo # <<>>
    OBVIOUS
  <2>1. prom[p].state = "resolved"
    BY <1>0, <1>1 DEF Core, EngineInv
  <2>2. Len(prom[p].dones) = 1 /\ prom[p].dones \in Seq(Handlers)
    BY <1>1 DEF Core, ListsInv, Unsettled, Started, IsDones
  <2>3. prom[p].dones # <<>>
    <3>1. \A s \in Seq(Handlers) : s = <<>> => Len(s) = 0
      BY EmptySeq
    <3> QED
      BY <2>2, <3>1
  <2> QED
    BY <1>1, <2>1, <2>3
<1>3. \A x \in Promises : /\ Unsettled(x)' <=> Unsettled(x)
                          /\ Started(x)' <=> Started(x)
                          /\ Left(x)' = Left(x)
  BY <1>1 DEF Unsettled, Started, Left
<1>4. /\ {"run", "logic", "entry", "login", "init", "send", "api", "api2"} \subseteq Promises
      /\ Scripts \subseteq Promises /\ Heads \subseteq Promises
      /\ Subs \subseteq Promises /\ owed \subseteq Promises
  BY Known
<1> USE DEF AppInv, app, net, past
<1>5. AppTypes'
  BY DEF AppTypes
<1>6. OwedInv'
  BY <1>1 DEF OwedInv
<1>7. RunInv'
  BY <1>0, <1>1, <1>2, <1>3, <1>4 DEF RunInv
<1>8. LoginInv'
  BY <1>0, <1>1, <1>3, <1>4 DEF LoginInv
<1>9. ScriptInv'
  BY <1>1, <1>3, <1>4, NotEnding, ScriptsKept
<1>10. GoingInv'
  BY <1>0, <1>1, <1>3, <1>4 DEF GoingInv, Working
<1>11. LoginErrorsTaken'
  BY DEF LoginErrorsTaken
<1> QED
  BY <1>1, <1>5, <1>6, <1>7, <1>8, <1>9, <1>10, <1>11

\* an error that looks for who takes it
LEMMA FailedKeeps ==
  ASSUME Core, AppInv, Catch \/ NoCatch, UNCHANGED <<app, net, past>>
  PROVE  Core' /\ AppInv'
<1>0. PICK p : p = eng.p
  OBVIOUS
<1>1. /\ Core' /\ over' = over
      /\ p \in Promises /\ prom[p].state = "rejected" /\ p \notin over
      /\ prom'[p].state = "rejected"
      /\ Left(p)' = 0 /\ eng.at = "failed" /\ eng'.at \in {"handler", "given_up"} /\ eng'.p = p
      /\ \A x \in Promises \ {p} : prom'[x] = prom[x]
  <2>1. CASE Catch
    <3>1. "login" \in Promises
      BY NamesArePromises
    <3> QED
      BY <1>0, <2>1, <3>1, CatchStep
  <2>2. CASE NoCatch
    BY <1>0, <2>2, NoCatchStep
  <2> QED
    BY <2>1, <2>2
<1>2. \A x \in Promises : /\ Unsettled(x)' <=> Unsettled(x)
                          /\ Started(x)' <=> Started(x)
                          /\ prom'[x].state = prom[x].state
                          /\ x # p => Left(x)' = Left(x)
  BY <1>1 DEF Unsettled, Started, Left
<1>3. /\ {"run", "logic", "entry", "login", "init", "send", "api", "api2"} \subseteq Promises
      /\ Scripts \subseteq Promises /\ Heads \subseteq Promises
      /\ Subs \subseteq Promises /\ owed \subseteq Promises
      /\ \A x \in Promises : Left(x) \in Nat
  BY Known
<1>4. couldLogin \/ prom["login"].state # "none" => p # "run" /\ "run" \in over
  BY <1>0, <1>1 DEF AppInv, LoginInv
<1> USE DEF AppInv, app, net, past
<1>5. AppTypes'
  BY DEF AppTypes
<1>6. OwedInv'
  BY <1>1, <1>2, <1>3 DEF OwedInv
<1>7. RunInv'
  <2>1. p = "run" => Left("run")' = 0 /\ ~Unsettled("entry") /\ host = host'
    <3> SUFFICES ASSUME p = "run" PROVE ~Unsettled("entry")
      BY <1>1
    <3>1. "entry" \in Subs /\ Parent("entry") = "run"
      BY DEF Subs, Parent
    <3> QED
      BY <1>1, <3>1 DEF Core, WaitInv
  <2>2. \A x \in Promises : (prom'[x].state = "none" <=> prom[x].state = "none") /\ Left(x)' <= Left(x)
    <3>1. Left(p)' <= Left(p) /\ p \in Promises
      BY <1>1, <1>3
    <3> QED
      BY <1>2, <1>3, <3>1
  <2>3. prom'["run"].state = prom["run"].state /\ (Left("run")' = Left("run") \/ Left("run")' = 0)
    BY <1>1, <1>2, <1>3
  <2> QED
    BY <1>0, <1>1, <1>2, <1>3, <2>1, <2>2, <2>3, SMTT(60) DEF RunInv
<1>8. LoginInv'
  <2>1. p = "login" => Left("login")' = 0 /\ (prom["login"].state # "pending") /\ Started("login")
    BY <1>1 DEF Started
  <2> QED
    BY <1>0, <1>1, <1>2, <1>3, <1>4, <2>1, SMTT(60) DEF LoginInv
<1>9. ScriptInv'
  BY <1>1, <1>2, <1>3, NotEnding, ScriptsKept
<1>10. GoingInv'
  BY <1>0, <1>1, <1>2, <1>3 DEF GoingInv, Working
<1>11. LoginErrorsTaken'
  BY DEF LoginErrorsTaken
<1> QED
  BY <1>1, <1>5, <1>6, <1>7, <1>8, <1>9, <1>10, <1>11

\* a promise is through, and the one that waits for it goes on
LEMMA SettleKeeps ==
  ASSUME Core, AppInv, Settle, UNCHANGED <<app, net, past>>
  PROVE  Core' /\ AppInv'
<1>0. PICK p : p = eng.p
  OBVIOUS
<1>1. /\ Core' /\ over' = over \cup {p}
      /\ p \in Promises /\ p \notin over /\ Started(p) /\ eng.at = "settled" /\ eng.todo = <<>>
      /\ \A x \in Promises : prom'[x].state = prom[x].state /\ Left(x)' = Left(x)
      /\ p \in Subs => eng'.at = "then" /\ eng'.p = Parent(p)
      /\ p \notin Subs => eng'.at = "idle"
      /\ eng'.at # "settled" /\ eng'.at # "given_up"
  BY <1>0, SettleStep
<1>2. \A x \in Promises : /\ Started(x)' <=> Started(x)
                          /\ Unsettled(x)' <=> Unsettled(x) /\ x # p
  BY <1>1 DEF Unsettled, Started
<1>3. /\ {"run", "logic", "entry", "login", "init", "send", "api", "api2"} \subseteq Promises
      /\ Scripts \subseteq Promises /\ Heads \subseteq Promises
      /\ Subs \subseteq Promises /\ owed \subseteq Promises
      /\ \A x \in Promises : Left(x) \in Nat
  BY Known
<1> USE DEF AppInv, app, net, past
<1>4. AppTypes'
  BY DEF AppTypes
<1>5. OwedInv'
  BY <1>1, <1>3 DEF OwedInv
<1>6. RunInv'
  BY <1>0, <1>1, <1>2, <1>3 DEF RunInv
<1>7. LoginInv'
  BY <1>0, <1>1, <1>2, <1>3 DEF LoginInv
<1>8. ScriptInv'
  <2>1. \A x \in Heads : Unsettled(x)' => Unsettled(x) /\ ~Ends(x)
    BY <1>0, <1>1, <1>2, <1>3 DEF Ends
  <2> QED
    BY <1>0, <1>1, <1>2, <1>3, <2>1, ScriptsKept
<1>9. GoingInv'
  <2> SUFFICES ASSUME harm = {} PROVE GoingInv'
    BY DEF GoingInv
  <2>1. ASSUME NEW x \in Promises \ Asides, Started(x)', x \notin over'
        PROVE  \/ eng'.at # "idle" /\ eng'.p = x
               \/ \E r \in Subs : Unsettled(r)' /\ Parent(r) = x
    <3>1. Started(x) /\ x \notin over /\ x # p
      BY <1>1, <1>2, <2>1
    <3>2. PICK r \in Subs : Unsettled(r) /\ Parent(r) = x
      BY <1>0, <1>1, <3>1 DEF GoingInv
    <3>3. CASE r = p
      BY <1>1, <3>2, <3>3
    <3>4. CASE r # p
      BY <1>2, <1>3, <3>2, <3>4
    <3> QED
      BY <3>3, <3>4
  <2> QED
    BY <1>1, <1>2, <1>3, <2>1 DEF GoingInv, Working
<1>10. LoginErrorsTaken'
  BY DEF LoginErrorsTaken
<1> QED
  BY <1>1, <1>4, <1>5, <1>6, <1>7, <1>8, <1>9, <1>10

\* a promise is through with an error, which the one that waits for it gets
LEMMA PassErrorKeeps ==
  ASSUME Core, AppInv, PassError, UNCHANGED <<app, net, past>>
  PROVE  Core' /\ AppInv'
<1>0. PICK p : p = eng.p
  OBVIOUS
<1>1. PICK w : w = Parent(p)
  OBVIOUS
<1>2. /\ Core' /\ over' = over \cup {p}
      /\ p \in Promises /\ p \notin over /\ prom[p].state = "rejected" /\ eng.at = "given_up"
      /\ p \in Subs /\ w # p /\ prom[w].state = "resolved"
      /\ prom'[w].state = "rejected" /\ w \notin over
      /\ \A x \in Promises : /\ Left(x)' = Left(x)
                             /\ x # w => prom'[x].state = prom[x].state
      /\ eng'.at = "failed" /\ eng'.p = w
  BY <1>0, <1>1, PassErrorStep
<1>3. /\ \A x \in Promises : /\ Started(x)' <=> Started(x)
                             /\ Unsettled(x)' <=> Unsettled(x) /\ x # p
      /\ Started(p) /\ Started(w) /\ Unsettled(p)
  BY <1>2 DEF Unsettled, Started
<1>4. /\ {"run", "logic", "entry", "login", "init", "send", "api", "api2"} \subseteq Promises
      /\ Scripts \subseteq Promises /\ Heads \subseteq Promises
      /\ Subs \subseteq Promises /\ owed \subseteq Promises
      /\ \A x \in Promises : Left(x) \in Nat
      /\ w \in {"run", "login", "api"} /\ (w = "run" <=> p \in {"entry", "logic"})
  BY <1>1, <1>2, Known DEF Parent, Subs
<1>5. w = "run" => ~couldLogin /\ prom["login"].state = "none"
  BY <1>0, <1>2 DEF AppInv, LoginInv
<1> USE DEF AppInv, app, net, past
<1>6. AppTypes'
  BY DEF AppTypes
<1>7. OwedInv'
  BY <1>2, <1>4 DEF OwedInv
<1>8. RunInv'
  BY <1>0, <1>2, <1>3, <1>4 DEF RunInv
<1>9. LoginInv'
  BY <1>0, <1>2, <1>3, <1>4, <1>5 DEF LoginInv
<1>10. ScriptInv'
  <2>1. \A x \in Heads : Unsettled(x)' => Unsettled(x) /\ ~Ends(x)
    BY <1>0, <1>2, <1>3, <1>4 DEF Ends
  <2> QED
    BY <1>0, <1>2, <1>3, <1>4, <2>1, ScriptsKept
<1>11. GoingInv'
  <2> SUFFICES ASSUME harm = {} PROVE GoingInv'
    BY DEF GoingInv
  <2>1. ASSUME NEW x \in Promises \ Asides, Started(x)', x \notin over'
        PROVE  \/ eng'.at # "idle" /\ eng'.p = x
               \/ \E r \in Subs : Unsettled(r)' /\ Parent(r) = x
    <3>1. Started(x) /\ x \notin over /\ x # p
      BY <1>2, <1>3, <2>1
    <3>2. PICK r \in Subs : Unsettled(r) /\ Parent(r) = x
      BY <1>0, <1>2, <3>1 DEF GoingInv
    <3>3. CASE r = p
      BY <1>1, <1>2, <3>2, <3>3
    <3>4. CASE r # p
      BY <1>3, <1>4, <3>2, <3>4
    <3> QED
      BY <3>3, <3>4
  <2>2. \A x \in Promises : prom'[x].state = "pending" => x \in owed'
    BY <1>2 DEF GoingInv
  <2>3. /\ Started("run")' /\ prom'["entry"].state = "none" => Working
        /\ Started("logic")' => Working
    <3>1. prom'["entry"].state = "none" => prom["entry"].state = "none"
      BY <1>2, <1>4
    <3>2. (Started("run")' <=> Started("run")) /\ (Started("logic")' <=> Started("logic"))
      BY <1>3, <1>4
    <3> QED
      BY <3>1, <3>2 DEF GoingInv
  <2>4. conn # "lost" /\ (Working' <=> Working)
    BY DEF GoingInv, Working
  <2> QED
    BY <2>1, <2>2, <2>3, <2>4 DEF GoingInv
<1>12. LoginErrorsTaken'
  BY DEF LoginErrorsTaken
<1> QED
  BY <1>2, <1>6, <1>7, <1>8, <1>9, <1>10, <1>11, <1>12

LEMMA UncaughtKeeps ==
  ASSUME Core, AppInv, Uncaught, uncaught' = uncaught \cup ({eng.p} \ (Awaited \cup Asides)), UNCHANGED <<app, net, harm>>
  PROVE  Core' /\ AppInv'
<1>0. PICK p : p = eng.p
  OBVIOUS
<1>1. /\ Core' /\ over' = over \cup {p}
      /\ p \in Promises /\ p \notin over /\ prom[p].state = "rejected" /\ eng.at = "given_up"
      /\ p \notin Subs /\ p # "login"
      /\ \A x \in Promises : prom'[x].state = prom[x].state /\ Left(x)' = Left(x)
      /\ eng'.at = "idle"
  BY <1>0, UncaughtStep
<1>2. \A x \in Promises : /\ Started(x)' <=> Started(x)
                          /\ Unsettled(x)' <=> Unsettled(x) /\ x # p
  BY <1>1 DEF Unsettled, Started
<1>3. /\ {"run", "logic", "entry", "login", "init", "send", "api", "api2"} \subseteq Promises
      /\ Scripts \subseteq Promises /\ Heads \subseteq Promises
      /\ Subs \subseteq Promises /\ owed \subseteq Promises
      /\ \A x \in Promises : Left(x) \in Nat
      /\ p # "init" /\ p # "send" /\ p # "entry" /\ p # "logic"
  BY <1>1, Known DEF Subs
<1> USE DEF AppInv, app, net
<1>4. AppTypes'
  BY <1>0, <1>1 DEF AppTypes
<1>5. OwedInv'
  BY <1>1, <1>3 DEF OwedInv
<1>6. RunInv'
  BY <1>0, <1>1, <1>2, <1>3 DEF RunInv
<1>7. LoginInv'
  BY <1>0, <1>1, <1>2, <1>3 DEF LoginInv
<1>8. ScriptInv'
  <2>1. \A x \in Heads : Unsettled(x)' => Unsettled(x) /\ ~Ends(x)
    BY <1>0, <1>1, <1>2, <1>3 DEF Ends
  <2> QED
    BY <1>0, <1>1, <1>2, <1>3, <2>1, ScriptsKept
<1>9. GoingInv'
  <2> SUFFICES ASSUME harm = {} PROVE GoingInv'
    BY DEF GoingInv
  <2>1. ASSUME NEW x \in Promises \ Asides, Started(x)', x \notin over'
        PROVE  \E r \in Subs : Unsettled(r)' /\ Parent(r) = x
    <3>1. Started(x) /\ x \notin over /\ x # p
      BY <1>1, <1>2, <2>1
    <3>2. PICK r \in Subs : Unsettled(r) /\ Parent(r) = x
      BY <1>0, <1>1, <3>1 DEF GoingInv
    <3> QED
      BY <1>1, <1>2, <1>3, <3>2
  <2> QED
    BY <1>1, <1>2, <1>3, <2>1 DEF GoingInv, Working
<1>10. LoginErrorsTaken'
  BY <1>0, <1>1, <1>3 DEF LoginErrorsTaken
<1> QED
  BY <1>1, <1>4, <1>5, <1>6, <1>7, <1>8, <1>9, <1>10

-----------------------------------------------------------------------------
(* The handlers of the scripts, and the functions *)

\* promises have been made when the player is there, with requests for the ones in ps
LEMMA MakingKeeps ==
  ASSUME Core, AppInv, user, NEW new, IsMade(new), Making(new),
         NEW ps \in SUBSET DOMAIN new, Requests(ps),
         \A x \in DOMAIN new : /\ new[x].state = IF x \in ps THEN "pending" ELSE "none"
                               /\ x \in owed => x \in ps,
         eng.at = "idle" \/ eng.todo # <<>>,
         eng'.at # "idle" => eng.at # "idle" /\ eng'.at = eng.at /\ eng'.p = eng.p /\ eng.p \notin DOMAIN new,
         harm' = {} => harm = {} /\ (eng.at # "idle" /\ eng.p \notin Asides => eng'.at # "idle"),
         running' \in BOOLEAN, api_index' \in 1..GroupSize,
         UNCHANGED <<couldLogin, user, timer, net_state, logic_host, conn, host, uncaught>>,
         ScriptInv'
  PROVE  AppInv'
<1>1. /\ DOMAIN new \subseteq Promises /\ DOMAIN new \subseteq Scripts
      /\ \A x \in Promises \ DOMAIN new :
              /\ prom'[x] = prom[x] /\ (x \in over' <=> x \in over)
              /\ Unsettled(x)' <=> Unsettled(x)
              /\ Started(x)' <=> Started(x)
              /\ Left(x)' = Left(x)
      /\ \A x \in DOMAIN new : prom'[x] = new[x] /\ x \notin over' /\ ~Started(x)'
  BY MakingStep
<1>2. /\ {"run", "logic", "entry", "login"} \subseteq Promises \ DOMAIN new
      /\ Subs \subseteq Promises /\ owed \subseteq Promises /\ ps \subseteq Names
  <2>1. ps \subseteq Names
    BY DEF IsMade, Names, Asked
  <2>2. {"run", "logic", "entry", "login"} \cap DOMAIN new = {}
    BY DEF IsMade, Awaited, Asides, Fetches
  <2> QED
    BY <2>1, <2>2, Known
<1>3. prom["login"].state # "none"
  BY DEF AppInv, LoginInv, Started
<1>4. /\ logic_host /\ "entry" \in over /\ "run" \in over
      /\ harm = {} => Working
  <2>1. logic_host /\ "entry" \in over /\ (harm = {} => Working)
    BY <1>3, Connected
  <2>2. "run" \in over
    BY <1>3 DEF AppInv, LoginInv
  <2> QED
    BY <2>1, <2>2
<1>5. owed \subseteq owed' /\ owed' \subseteq owed \cup ps /\ (Working => ps \subseteq owed')
  BY DEF Requests
<1> USE DEF AppInv
<1>6. AppTypes'
  BY <1>2, <1>5 DEF AppTypes
<1>7. OwedInv'
  BY <1>1, <1>2, <1>5 DEF OwedInv
<1>8. RunInv'
  BY <1>1, <1>2, <1>4 DEF RunInv
<1>9. LoginInv'
  BY <1>1, <1>2, <1>4 DEF LoginInv
<1>10. GoingInv'
  <2> SUFFICES ASSUME harm' = {} PROVE GoingInv'
    BY DEF GoingInv
  <2>1. harm = {} /\ Working /\ Working' /\ conn # "lost"
    BY <1>4 DEF Working, GoingInv
  <2>2. \A x \in Promises : prom'[x].state = "pending" => x \in owed'
    BY <1>1, <1>5, <2>1 DEF GoingInv
  <2>3. ASSUME NEW x \in Promises \ Asides, Started(x)', x \notin over'
        PROVE  \/ eng'.at # "idle" /\ eng'.p = x
               \/ \E r \in Subs : Unsettled(r)' /\ Parent(r) = x
    <3>1. x \notin DOMAIN new /\ Started(x) /\ x \notin over
      BY <1>1, <2>3
    <3>2. CASE eng.at # "idle" /\ eng.p = x
      BY <3>2
    <3>3. ASSUME NEW r \in Subs, Unsettled(r), Parent(r) = x
          PROVE  Unsettled(r)'
      <4>1. r \notin DOMAIN new
        BY <3>1, <3>3 DEF Subs, Parent, IsMade, Awaited, Asides, Fetches
      <4> QED
        BY <1>1, <1>2, <3>3, <4>1
    <3> QED
      BY <2>1, <3>1, <3>2, <3>3 DEF GoingInv
  <2> QED
    BY <1>1, <1>2, <2>1, <2>2, <2>3 DEF GoingInv
<1>11. LoginErrorsTaken'
  BY DEF LoginErrorsTaken
<1> QED
  BY <1>6, <1>7, <1>8, <1>9, <1>10, <1>11

\* what a handler of the scripts makes: promises that no function waits for, or, for JoinAlliance, the
\* one that the function waits for next
LEMMA MadeByHandler ==
  ASSUME Core, AppInv, HasHandler, NEW p, p = eng.p, p \in Scripts,
         NEW new, IsMade(new), p \notin DOMAIN new,
         \A x \in DOMAIN new : new[x].state = "pending",
         Makes(new) \/ Fails(new),
         \/ DOMAIN new \cap Heads = {}
         \/ Makes(new) /\ p \in Heads /\ Tail(eng.todo) = <<>> /\ \E y : DOMAIN new = {y}
  PROVE  Core' /\ AppInv'
<1>1. /\ RanMaking(new) \/ AbortedMaking(new)
      /\ Makes(new) => RanMaking(new) /\ harm' = harm
      /\ Making(new) /\ Requests(DOMAIN new)
      /\ UNCHANGED <<app, uncaught, net_state, logic_host, conn, host>>
      /\ harm' = harm \/ (harm' = {} => p \in Asides)
      /\ AbortedMaking(new) => harm' # {} \/ (harm' = harm /\ p \in Asides) \/ RanMaking(new)
      /\ harm' = {} => harm = {}
  BY DEF Makes, Fails, RanMaking, AbortedMaking, Harm, past
<1>2. /\ Core' /\ eng.at \in {"settled", "given_up"} /\ eng.todo # <<>>
      /\ RanMaking(new) => eng'.at = eng.at /\ eng'.p = eng.p /\ eng'.todo = Tail(eng.todo)
      /\ AbortedMaking(new) => eng'.at = "idle"
  BY <1>1, HandlerMakes DEF HasHandler, Finishing
<1>3. p \in Promises /\ Started(p) /\ p \notin over /\ Unsettled(p) /\ user
  BY HandlerOf DEF Unsettled, Started, AppInv, ScriptInv
<1>4. eng'.at # "idle" => eng.at # "idle" /\ eng'.at = eng.at /\ eng'.p = eng.p /\ eng.p \notin DOMAIN new
  BY <1>1, <1>2
<1>5. /\ \A x \in Promises \ DOMAIN new : prom'[x] = prom[x] /\ (Unsettled(x)' <=> Unsettled(x))
      /\ Heads \subseteq Promises /\ Scripts \subseteq Promises
  BY <1>1, <1>4, MakingStep, Known
<1>6. ScriptInv'
  <2>1. /\ \A x : ~Ends(x)
        /\ \A x \in Heads : Unsettled(x) => ~running
        /\ \A x, y \in Heads : Unsettled(x) /\ Unsettled(y) => x = y
    BY HandlerFacts
  <2>2. \A x \in Scripts : prom'[x].state # "none" => user
    BY <1>3
  <2>3. CASE DOMAIN new \cap Heads = {}
    BY <1>1, <1>3, <1>5, <2>1, <2>3, ScriptsKept DEF app, AppInv
  <2>4. CASE Makes(new) /\ p \in Heads /\ Tail(eng.todo) = <<>> /\ \E y : DOMAIN new = {y}
    <3>1. PICK y : DOMAIN new = {y}
      BY <2>4
    <3>2. eng'.p = p /\ Ends(p)' /\ ~running'
      BY <1>1, <1>2, <1>3, <2>1, <2>4 DEF Ends, app
    <3>3. \A x \in Heads : Unsettled(x)' => x = p \/ x = y
      BY <1>3, <1>5, <2>1, <2>4, <3>1
    <3> QED
      BY <1>1, <2>2, <3>2, <3>3 DEF ScriptInv, app
  <2> QED
    BY <2>3, <2>4
<1>7. \A x \in DOMAIN new : /\ new[x].state = IF x \in DOMAIN new THEN "pending" ELSE "none"
                            /\ x \in owed => x \in DOMAIN new
  OBVIOUS
<1>8. harm' = {} => harm = {} /\ (eng.at # "idle" /\ eng.p \notin Asides => eng'.at # "idle")
  BY <1>1, <1>2
<1>9. running' \in BOOLEAN /\ api_index' \in 1..GroupSize
  BY <1>1 DEF app, AppInv, AppTypes
<1>10. AppInv'
  BY <1>1, <1>2, <1>3, <1>4, <1>6, <1>7, <1>8, <1>9, MakingKeeps DEF app
<1> QED
  BY <1>2, <1>10

LEMMA OneIsMade ==
  ASSUME NEW y \in {"join"} \cup Fetches \cup Asides, NEW r, IsNew(y, r), NEW new, new = [q \in {y} |-> r]
  PROVE  IsMade(new) /\ DOMAIN new = {y} /\ \A x \in DOMAIN new : new[x].state = "pending"
  BY DEF IsMade, IsNew, Awaited, Fetches, Asides

LEMMA NothingIsMade == IsMade(Nothing) /\ DOMAIN Nothing = {}
  BY DEF IsMade, Nothing

\* no function waits for what these handlers make
LEMMA AsideIsMade ==
  ASSUME Core, AppInv, HasHandler, eng.p \in Scripts,
         NEW y \in Asides, y # eng.p, NEW ds \in {<<>>, <<"player">>, <<"apply">>},
         ds = <<"apply">> => y = "aside2",
         Makes(One(y, ds)) \/ Fails(One(y, ds))
  PROVE  Core' /\ AppInv'
<1>1. IsNew(y, NewPromise(Check, ds, <<>>))
  BY NewPromises
<1>2. /\ IsMade(One(y, ds)) /\ DOMAIN One(y, ds) = {y}
      /\ \A x \in DOMAIN One(y, ds) : One(y, ds)[x].state = "pending"
  <2>1. PICK r : r = NewPromise(Check, ds, <<>>)
    OBVIOUS
  <2>2. PICK new : new = [q \in {y} |-> r]
    OBVIOUS
  <2>3. new = One(y, ds)
    BY <2>1, <2>2 DEF One
  <2>4. y \in {"join"} \cup Fetches \cup Asides /\ IsNew(y, r)
    BY <1>1, <2>1
  <2>5. IsMade(new) /\ DOMAIN new = {y} /\ \A x \in DOMAIN new : new[x].state = "pending"
    BY <2>2, <2>4, OneIsMade
  <2> QED
    BY <2>3, <2>5
<1>3. {y} \cap Heads = {}
  BY DEF Heads, Awaited, Asides, Fetches
<1> QED
  BY <1>2, <1>3, MadeByHandler

LEMMA NothingMade ==
  ASSUME Core, AppInv, HasHandler, eng.p \in Scripts, Makes(Nothing) \/ Fails(Nothing)
  PROVE  Core' /\ AppInv'
  BY NothingIsMade, MadeByHandler

\* which promise has these handlers
LEMMA ScriptHandlers ==
  ASSUME Core, HasHandler, NEW p, p = eng.p
  PROVE  /\ Head(eng.todo) \in {"enter", "buy"} => p = "api"
         /\ Head(eng.todo) = "chat" => p = "aside"
         /\ Head(eng.todo) = "apply" => p = "aside2"
         /\ Head(eng.todo) = "join" => p \in Fetches /\ Tail(eng.todo) = <<>> /\ eng.at = "settled"
         /\ p \in {"api"} \cup Asides \cup Fetches => p \in Scripts
<1>1. /\ eng.at \in {"settled", "given_up"}
      /\ eng.at = "settled" => /\ DoneAt(p, Len(eng.todo), Head(eng.todo))
                               /\ Len(eng.todo) = 1 => Tail(eng.todo) = <<>>
      /\ eng.at = "given_up" => Head(eng.todo) = "set_run"
  BY HandlerOf
<1>2. p \in {"api"} \cup Asides \cup Fetches => p \in Scripts
  BY DEF Scripts, Awaited
<1> QED
  BY <1>1, <1>2 DEF DoneAt

LEMMA EnterMapIndexStep ==
  ASSUME Core, AppInv, EnterMapIndex
  PROVE  Core' /\ AppInv'
<1>1. HasHandler /\ Head(eng.todo) = "enter"
  BY DEF EnterMapIndex, Handler
<1>2. eng.p = "api" /\ "api" \in Scripts /\ "aside" \in Asides
  BY <1>1, ScriptHandlers DEF Asides
<1>3. CASE Makes(One("aside", <<>>)) \/ Fails(One("aside", <<>>))
  BY <1>1, <1>2, <1>3, AsideIsMade DEF Asides
<1>4. ASSUME NEW ds \in {<<>>, <<"player">>},
             Makes([p \in Asides |-> NewPromise(Check, IF p = "aside" THEN <<>> ELSE ds, <<>>)])
      PROVE  Core' /\ AppInv'
  <2> DEFINE new == [p \in Asides |-> NewPromise(Check, IF p = "aside" THEN <<>> ELSE ds, <<>>)]
  <2>1. DOMAIN new = Asides /\ \A x \in Asides : IsNew(x, new[x])
    BY NewPromises
  <2>2. Makes(new)
    BY <1>4
  <2> HIDE DEF new
  <2>3. IsMade(new) /\ \A x \in DOMAIN new : new[x].state = "pending"
    BY <2>1 DEF IsMade, IsNew, Awaited, Asides, Fetches
  <2>4. Asides \cap Heads = {} /\ "api" \notin Asides
    BY DEF Heads, Awaited, Asides, Fetches
  <2> QED
    BY <1>1, <1>2, <2>1, <2>2, <2>3, <2>4, MadeByHandler
<1> QED
  BY <1>3, <1>4 DEF EnterMapIndex

LEMMA BuyItemStep ==
  ASSUME Core, AppInv, BuyItem
  PROVE  Core' /\ AppInv'
<1>1. HasHandler /\ Head(eng.todo) = "buy"
  BY DEF BuyItem, Handler
<1>2. eng.p = "api" /\ "api" \in Scripts /\ "aside" \in Asides
  BY <1>1, ScriptHandlers DEF Asides
<1>3. CASE Makes(Nothing) \/ Fails(Nothing)
  BY <1>1, <1>2, <1>3, NothingMade
<1>4. CASE Makes(One("aside", <<"player">>))
  BY <1>1, <1>2, <1>4, AsideIsMade
<1> QED
  BY <1>3, <1>4 DEF BuyItem

LEMMA ReadChatStep ==
  ASSUME Core, AppInv, ReadChat
  PROVE  Core' /\ AppInv'
<1>1. HasHandler /\ Head(eng.todo) = "chat"
  BY DEF ReadChat, Handler
<1>2. eng.p = "aside" /\ "aside" \in Scripts /\ "aside2" \in Asides
  BY <1>1, ScriptHandlers DEF Asides
<1>3. CASE Makes(Nothing) \/ Fails(Nothing)
  BY <1>1, <1>2, <1>3, NothingMade
<1>4. CASE Makes(One("aside2", <<"apply">>))
  BY <1>1, <1>2, <1>4, AsideIsMade
<1>5. CASE Makes(One("aside2", <<>>))
  BY <1>1, <1>2, <1>5, AsideIsMade
<1> QED
  BY <1>3, <1>4, <1>5 DEF ReadChat

LEMMA ApplyStep ==
  ASSUME Core, AppInv, Apply
  PROVE  Core' /\ AppInv'
<1>1. HasHandler /\ Head(eng.todo) = "apply"
  BY DEF Apply, Handler
<1>2. eng.p = "aside2" /\ "aside2" \in Scripts /\ "aside" \in Asides
  BY <1>1, ScriptHandlers DEF Asides
<1>3. CASE Makes(Nothing) \/ Fails(Nothing)
  BY <1>1, <1>2, <1>3, NothingMade
<1>4. CASE Makes(One("aside", <<"player">>))
  BY <1>1, <1>2, <1>4, AsideIsMade
<1> QED
  BY <1>3, <1>4 DEF Apply

\* the function of JoinAlliance waits for the promise that the answer makes
LEMMA JoinNextStep ==
  ASSUME Core, AppInv, JoinNext
  PROVE  Core' /\ AppInv'
<1>0. PICK p : p = eng.p
  OBVIOUS
<1>1. HasHandler /\ Head(eng.todo) = "join"
  BY DEF JoinNext, Handler
<1>2. /\ p \in Fetches /\ p \in Scripts /\ p \in Heads /\ Tail(eng.todo) = <<>>
      /\ Turn(p) \in Fetches /\ Turn(p) # p /\ p # "join"
  BY <1>0, <1>1, ScriptHandlers DEF Fetches, Heads, Awaited, Turn
<1>3. ASSUME NEW y \in {"join"} \cup Fetches, y # p, NEW r, IsNew(y, r), Makes([q \in {y} |-> r])
      PROVE  Core' /\ AppInv'
  <2> DEFINE new == [q \in {y} |-> r]
  <2>1. IsMade(new) /\ DOMAIN new = {y} /\ \A x \in DOMAIN new : new[x].state = "pending"
    BY <1>3, OneIsMade
  <2>2. Makes(new)
    BY <1>3
  <2> HIDE DEF new
  <2> QED
    BY <1>0, <1>1, <1>2, <1>3, <2>1, <2>2, MadeByHandler
<1>4. CASE Makes([q \in {"join"} |-> PlayerRequest(<<"set_run">>, AlwaysFails)])
  BY <1>2, <1>3, <1>4, NewPromises
<1>5. CASE Makes(One(Turn(p), <<"join">>))
  BY <1>2, <1>3, <1>5, NewPromises DEF One
<1>6. CASE Fails(Nothing)
  BY <1>0, <1>1, <1>2, <1>6, NothingMade
<1> QED
  BY <1>0, <1>4, <1>5, <1>6 DEF JoinNext

LEMMA JoinEndsStep ==
  ASSUME Core, AppInv, JoinEnds
  PROVE  Core' /\ AppInv'
<1>1. /\ HasHandler /\ Head(eng.todo) = "join" /\ Ran /\ running' = TRUE
      /\ UNCHANGED <<couldLogin, user, timer, api_index, net, past>>
  BY DEF JoinEnds, Handler
<1>2. eng.p \in Fetches /\ Tail(eng.todo) = <<>>
  BY <1>1, ScriptHandlers
<1>3. eng.p \in Heads
  BY <1>2 DEF Heads, Awaited, Fetches
<1> QED
  BY <1>1, <1>2, <1>3, RunningAgain
-----------------------------------------------------------------------------
(* Run, and the callbacks of the bridge *)

\* the promise of the login has been made, with its request
LEMMA MadeKeeps ==
  ASSUME Core, AppInv, eng.at = "idle", NEW p, p = "login", ~Unsettled(p), NEW new, IsNew(p, new),
         prom' = [prom EXCEPT ![p] = new], over' = over \ {p}, eng' = eng, Request(p),
         couldLogin, prom[p].state = "none", couldLogin' = FALSE,
         UNCHANGED <<running, api_index, user, timer, net_state, logic_host, conn, host, past>>
  PROVE  Core' /\ AppInv'
<1>1. /\ Core' /\ p \in Promises /\ p \notin over'
      /\ prom'[p].state = "pending" /\ Left(p)' = Len(new.thens)
      /\ \A x \in Promises \ {p} : prom'[x] = prom[x]
  BY MadeStep
<1>2. /\ {"run", "logic", "entry", "login", "init", "send", "api", "api2"} \subseteq Promises
      /\ Scripts \subseteq Promises /\ Heads \subseteq Promises
      /\ Subs \subseteq Promises /\ owed \subseteq Promises
      /\ \A x \in Promises : Left(x) \in Nat
      /\ p \in Names
  BY Known DEF Names, Asked, AppInv, AppTypes
<1>3. /\ \A x \in Promises \ {p} : /\ Unsettled(x)' <=> Unsettled(x)
                                   /\ Started(x)' <=> Started(x)
                                   /\ prom'[x].state = prom[x].state /\ Left(x)' = Left(x)
      /\ Unsettled(p)' /\ ~Started(p)'
  BY <1>1 DEF Unsettled, Started, Left
<1>4. Left(p)' = 9
  BY <1>1 DEF IsNew
<1>5. harm = {} => Working
  BY Connected
<1>6. /\ prom["run"].state = "resolved" /\ Left("run") = 0 /\ "run" \in over
  BY DEF AppInv, LoginInv
<1>7. owed \subseteq owed' /\ owed' \subseteq owed \cup {p} /\ (Working => p \in owed')
  BY DEF Request, Requests
<1> USE DEF AppInv, past
<1>8. AppTypes'
  BY <1>2, <1>7 DEF AppTypes
<1>9. OwedInv'
  BY <1>1, <1>2, <1>3, <1>7 DEF OwedInv
<1>10. RunInv'
  BY <1>1, <1>2, <1>3 DEF RunInv
<1>11. LoginInv'
  <2>1. ~user
    BY <1>1 DEF LoginInv, Started
  <2>2. prom'["run"].state = "resolved" /\ Left("run")' = 0 /\ "run" \in over'
    BY <1>2, <1>3, <1>6
  <2>3. prom'["login"].state = "pending" /\ Left("login")' = 9 /\ ~couldLogin' /\ ~user' /\ ~timer'
    BY <1>1, <1>4, <2>1 DEF LoginInv
  <2> QED
    BY <2>2, <2>3 DEF LoginInv
<1>12. ScriptInv'
  <2>1. \A x : ~Ends(x)
    BY NotEnding
  <2>2. "login" \notin Scripts /\ "login" \notin Heads
    BY DEF Scripts, Heads, Awaited, Asides, Fetches
  <2>3. \A x \in Heads : Unsettled(x)' => Unsettled(x)
    BY <1>2, <1>3, <2>2
  <2>4. \A x \in Scripts : prom'[x].state # "none" => prom[x].state # "none"
    BY <1>1, <1>2, <2>2
  <2> QED
    BY <2>1, <2>3, <2>4, ScriptsKept
<1>13. GoingInv'
  <2> SUFFICES ASSUME harm = {} PROVE GoingInv'
    BY DEF GoingInv
  <2>1. Working /\ Working' /\ conn # "lost"
    BY <1>5 DEF Working
  <2>2. \A x \in Promises : prom'[x].state = "pending" => x \in owed'
    BY <1>3, <1>7, <2>1 DEF GoingInv
  <2>3. ASSUME NEW x \in Promises \ Asides, Started(x)', x \notin over'
        PROVE  \E r \in Subs : Unsettled(r)' /\ Parent(r) = x
    <3>1. Started(x) /\ x \notin over /\ x # p
      BY <1>3, <2>3
    <3>2. PICK r \in Subs : Unsettled(r) /\ Parent(r) = x
      BY <3>1 DEF GoingInv
    <3>3. r # p
      BY DEF Subs
    <3> QED
      BY <1>2, <1>3, <3>2, <3>3
  <2> QED
    BY <2>1, <2>2, <2>3 DEF GoingInv
<1>14. LoginErrorsTaken'
  BY DEF LoginErrorsTaken
<1> QED
  BY <1>1, <1>8, <1>9, <1>10, <1>11, <1>12, <1>13, <1>14

LEMMA LoginStep ==
  ASSUME Core, AppInv, Login
  PROVE  Core' /\ AppInv'
<1>1. PICK p : p = "login"
  OBVIOUS
<1>2. /\ eng.at = "idle" /\ couldLogin /\ couldLogin' = FALSE
      /\ prom' = [prom EXCEPT ![p] = LoginPromise] /\ Request(p)
      /\ UNCHANGED <<eng, over, running, user, timer, api_index, net_state, logic_host, conn, host, past>>
  BY <1>1 DEF Login, EngineIdle
<1>3. prom[p].state = "none" /\ ~Unsettled(p) /\ api_index \in 1..GroupSize
  BY <1>1, <1>2 DEF AppInv, AppTypes, LoginInv, Unsettled
<1>4. p \notin over
  BY <1>3 DEF Core, WaitInv, Started
<1>5. over' = over \ {p} /\ eng' = eng
  BY <1>2, <1>4
<1>6. IsNew(p, LoginPromise)
  BY <1>1, NewPromises
<1> QED
  BY <1>1, <1>2, <1>3, <1>5, <1>6, MadeKeeps

\* a function of the scripts has asked the server: nothing that one waits for is left
LEMMA AskStep ==
  ASSUME Core, AppInv, eng.at = "idle", running, NEW p \in {"api", "fetch", "aside"},
         p = "aside" => AsidesFree, NEW r, IsNew(p, r), Ask(p, r), NextIndex \in 1..GroupSize,
         UNCHANGED <<eng, couldLogin, user, timer, net_state, logic_host, conn, host, uncaught>>
  PROVE  Core' /\ AppInv'
<1>1. PICK new : new = [q \in Free \cup {p} |-> IF q = p THEN r ELSE NoPromise]
  OBVIOUS
<1>2. /\ user /\ running' = (p \in Asides) /\ api_index' = NextIndex
      /\ Making(new) /\ Requests({p}) /\ UNCHANGED harm
  BY <1>1 DEF Ask, HasPlayer, Request
<1>3. /\ DOMAIN new = Awaited \cup (Asides \ owed) \cup {p} /\ p \in DOMAIN new
      /\ new[p] = r /\ \A x \in DOMAIN new \ {p} : new[x] = NoPromise
  BY <1>1 DEF Free
<1>4. /\ p \in Awaited \cup Asides /\ p # "api2"
      /\ "api" \in Awaited /\ "api2" \in Awaited
  BY DEF Awaited, Asides, Fetches
<1>5. IsMade(new)
  BY <1>3, <1>4 DEF IsMade
<1>6. /\ r.state = "pending" /\ NoPromise.state = "none"
      /\ {p} \in SUBSET DOMAIN new
  BY <1>3 DEF IsNew, NoPromise
<1>7. /\ \A x : ~Ends(x)
      /\ \A x \in Heads : ~Unsettled(x)
  BY NotEnding DEF AppInv, ScriptInv
<1>8. ~Unsettled("api2")
  <2>1. "api2" \in Subs /\ Parent("api2") = "api" /\ "api" \in Heads
    BY <1>4 DEF Subs, Parent, Heads
  <2> QED
    BY <1>7, <2>1 DEF Core, WaitInv, Unsettled
<1>9. \A x \in owed : Unsettled(x)
  BY DEF AppInv, OwedInv, Core, WaitInv, Started, Unsettled
<1>10. \A x \in DOMAIN new : x \in owed => x \in {p}
  BY <1>3, <1>7, <1>8, <1>9 DEF Heads
<1>11. PICK ps \in SUBSET DOMAIN new : ps = {p} /\ Requests(ps)
  BY <1>2, <1>6
<1>12. \A x \in DOMAIN new : /\ new[x].state = IF x \in ps THEN "pending" ELSE "none"
                             /\ x \in owed => x \in ps
  <2> SUFFICES ASSUME NEW x \in DOMAIN new
               PROVE  /\ new[x].state = IF x \in ps THEN "pending" ELSE "none"
                      /\ x \in owed => x \in ps
    OBVIOUS
  <2>1. CASE x = p
    BY <1>3, <1>6, <1>11, <2>1
  <2>2. CASE x # p
    BY <1>3, <1>6, <1>10, <1>11, <2>2
  <2> QED
    BY <2>1, <2>2
<1>13. Core'
  <2>1. /\ prom' \in [Promises -> PromiseType] /\ over' \subseteq Promises /\ ListsInv' /\ WaitInv'
    BY <1>2, <1>5, MakingStep
  <2>2. EngineTypes' /\ EngineInv'
    BY <2>1 DEF Core, EngineTypes, EngineInv
  <2> QED
    BY <2>1, <2>2 DEF Core
<1>14. ScriptInv'
  <2>1. /\ Heads \subseteq Promises /\ Heads \subseteq DOMAIN new
        /\ \A x \in DOMAIN new : prom'[x] = new[x]
    BY <1>2, <1>3, <1>5, MakingStep, Known DEF Heads
  <2>2. \A x \in Heads \ {p} : ~Unsettled(x)'
    BY <1>3, <1>6, <2>1 DEF Unsettled
  <2>3. p \in Heads => ~running'
    BY <1>2 DEF Heads, Awaited, Asides, Fetches
  <2> QED
    BY <1>2, <2>2, <2>3 DEF ScriptInv
<1>15. running' \in BOOLEAN /\ api_index' \in 1..GroupSize
  BY <1>2
<1>16. harm' = {} => harm = {} /\ (eng.at # "idle" /\ eng.p \notin Asides => eng'.at # "idle")
  BY <1>2
<1>17. AppInv'
  BY <1>2, <1>5, <1>11, <1>12, <1>14, <1>15, <1>16, MakingKeeps
<1> QED
  BY <1>13, <1>17

LEMMA RunFunctionStep ==
  ASSUME Core, AppInv, RunFunction
  PROVE  Core' /\ AppInv'
<1>1. /\ eng.at = "idle" /\ running
      /\ UNCHANGED <<eng, couldLogin, user, timer, net_state, logic_host, conn, host, uncaught>>
  BY DEF RunFunction, EngineIdle
<1>2. NextIndex \in 1..GroupSize
  BY RobotAssumption DEF NextIndex, AppInv, AppTypes
<1>3. /\ \A x : ~Ends(x)
      /\ \A x \in Heads : ~Unsettled(x)
  BY <1>1, NotEnding DEF AppInv, ScriptInv
<1>4. CASE AskSomething
  <2>1. PICK p \in {"api", "fetch", "aside"} : \E r : Ask(p, r) /\ IsNew(p, r) /\ (p = "aside" => AsidesFree)
    BY <1>4, NewPromises DEF AskSomething, Fetches, Asides
  <2>2. PICK r : Ask(p, r) /\ IsNew(p, r) /\ (p = "aside" => AsidesFree)
    BY <2>1
  <2> QED
    BY <1>1, <1>2, <2>1, <2>2, AskStep
<1>5. CASE UNCHANGED <<prom, over, owed>> /\ running' \in BOOLEAN /\ api_index' \in 1..GroupSize
           /\ (harm' = {} => harm = {})
  <2>1. /\ \A x : /\ Unsettled(x)' <=> Unsettled(x)
                  /\ Started(x)' <=> Started(x)
                  /\ Left(x)' = Left(x)
    BY <1>5 DEF Unsettled, Started, Left
  <2>2. Core'
    <3>1. EngineTypes' /\ ListsInv'
      BY <1>1, <1>5, <2>1 DEF Core, EngineTypes, ListsInv
    <3>2. EngineInv' /\ WaitInv'
      BY <1>1, <1>5, <2>1 DEF Core, EngineInv, WaitInv
    <3> QED
      BY <3>1, <3>2 DEF Core
  <2> USE DEF AppInv
  <2>3. AppTypes' /\ OwedInv'
    BY <1>1, <1>5 DEF AppTypes, OwedInv
  <2>4. RunInv' /\ LoginInv'
    BY <1>1, <1>5, <2>1 DEF RunInv, LoginInv
  <2>5. ScriptInv'
    BY <1>1, <1>3, <1>5, <2>1 DEF ScriptInv
  <2>6. GoingInv' /\ LoginErrorsTaken'
    BY <1>1, <1>5, <2>1 DEF GoingInv, LoginErrorsTaken, Working
  <2> QED
    BY <2>2, <2>3, <2>4, <2>5, <2>6
<1>6. CASE running' = TRUE /\ api_index' = NextIndex /\ UNCHANGED <<prom, over, owed, harm>>
  BY <1>2, <1>5, <1>6
<1>7. CASE /\ running' = FALSE
           /\ harm' = IF user THEN harm \cup {"script"}
                      ELSE IF prom["login"].state = "none" THEN harm \cup {"early"} ELSE harm
           /\ UNCHANGED <<prom, over, owed, api_index>>
  BY <1>5, <1>7 DEF AppInv, AppTypes
<1>8. \/ running' = TRUE /\ api_index' = NextIndex /\ UNCHANGED <<prom, over, owed, harm>>
      \/ AskSomething
      \/ /\ running' = FALSE
         /\ harm' = IF user THEN harm \cup {"script"}
                    ELSE IF prom["login"].state = "none" THEN harm \cup {"early"} ELSE harm
         /\ UNCHANGED <<prom, over, owed, api_index>>
  BY DEF RunFunction
<1> QED
  BY <1>4, <1>6, <1>7, <1>8

\* the callback of a call, with the promise it belongs to
LEMMA AnsweredKeeps ==
  ASSUME Core, AppInv, NEW p \in owed, NEW v \in Results, Resolve(p, v), owed' = owed \ {p},
         conn' \in {"none", "up", conn}, net_state' \in BOOLEAN, conn = "lost" \/ conn' # "lost",
         harm' = {} => harm = {} /\ ((Working \/ p = "logic" \/ p = "run") => Working'),
         UNCHANGED <<app, logic_host, host, uncaught>>
  PROVE  Core' /\ AppInv'
<1>1. p \in Names
  BY DEF AppInv, AppTypes
<1>2. /\ Core' /\ over' = over /\ p \notin over /\ p \in Promises
      /\ prom[p].state = "pending" /\ prom'[p].state = "resolved"
      /\ \A x \in Promises : Left(x)' = Left(x)
      /\ \A x \in Promises \ {p} : prom'[x] = prom[x]
      /\ eng.at = "idle" /\ eng'.at = "then" /\ eng'.p = p
  BY <1>1, ResolveStep
<1>3. /\ {"run", "logic", "entry", "login", "init", "send", "api", "api2"} \subseteq Promises
      /\ Scripts \subseteq Promises /\ Heads \subseteq Promises
      /\ Subs \subseteq Promises /\ owed \subseteq Promises
      /\ \A x \in Promises : Left(x) \in Nat
  BY Known
<1>4. /\ \A x \in Promises : Unsettled(x)' <=> Unsettled(x)
      /\ \A x \in Promises \ {p} : /\ Started(x)' <=> Started(x)
                                   /\ prom'[x].state = prom[x].state
      /\ Started(p)'
  BY <1>2 DEF Unsettled, Started
<1>5. p = "run" => ~couldLogin /\ prom["login"].state = "none" /\ Left("run") = 4
  BY <1>2 DEF AppInv, LoginInv, RunInv
<1>6. p = "login" => Left("login") = 9
  BY <1>2 DEF AppInv, LoginInv
<1> USE DEF AppInv, app
<1>7. AppTypes'
  BY DEF AppTypes
<1>8. OwedInv'
  BY <1>2, <1>3 DEF OwedInv
<1>9. RunInv'
  <2>1. p = "run" => "entry" \notin over
    BY <1>5 DEF RunInv, Core, WaitInv, Started
  <2>2. /\ prom'["run"].state # "none"
        /\ \A x \in Promises : prom'[x].state = "none" <=> prom[x].state = "none"
    BY <1>2, <1>3, <1>4 DEF RunInv
  <2> QED
    BY <1>2, <1>3, <1>4, <1>5, <2>1, <2>2 DEF RunInv
<1>10. LoginInv'
  BY <1>2, <1>3, <1>4, <1>5, <1>6 DEF LoginInv
<1>11. ScriptInv'
  <2>1. \A x : ~Ends(x)
    BY <1>2, NotEnding
  <2>2. \A x \in Scripts : prom'[x].state # "none" => prom[x].state # "none"
    BY <1>2, <1>3, <1>4
  <2> QED
    BY <1>3, <1>4, <2>1, <2>2, ScriptsKept
<1>12. GoingInv'
  <2> SUFFICES ASSUME harm' = {} PROVE GoingInv'
    BY DEF GoingInv
  <2>1. harm = {} /\ conn # "lost" /\ conn' # "lost"
    BY DEF GoingInv
  <2>2. \A x \in Promises : prom'[x].state = "pending" => x \in owed'
    BY <1>2, <2>1 DEF GoingInv
  <2>3. ASSUME NEW x \in Promises \ Asides, Started(x)', x \notin over'
        PROVE  \/ eng'.at # "idle" /\ eng'.p = x
               \/ \E r \in Subs : Unsettled(r)' /\ Parent(r) = x
    <3>1. CASE x = p
      BY <1>2, <3>1
    <3>2. CASE x # p
      BY <1>2, <1>3, <1>4, <2>1, <2>3, <3>2 DEF GoingInv
    <3> QED
      BY <3>1, <3>2
  <2>4. Started("run")' /\ prom'["entry"].state = "none" => Working'
    <3> SUFFICES ASSUME Started("run")', prom'["entry"].state = "none" PROVE Working'
      OBVIOUS
    <3>1. prom["entry"].state = "none"
      BY <1>2, <1>3, <1>4
    <3>2. p = "run" \/ Started("run")
      BY <1>3, <1>4
    <3> QED
      BY <2>1, <3>1, <3>2 DEF GoingInv
  <2>5. Started("logic")' => Working'
    <3> SUFFICES ASSUME Started("logic")' PROVE Working'
      OBVIOUS
    <3>1. p = "logic" \/ Started("logic")
      BY <1>3, <1>4
    <3> QED
      BY <2>1, <3>1 DEF GoingInv
  <2> QED
    BY <2>1, <2>2, <2>3, <2>4, <2>5 DEF GoingInv
<1>13. LoginErrorsTaken'
  BY DEF LoginErrorsTaken
<1> QED
  BY <1>2, <1>7, <1>8, <1>9, <1>10, <1>11, <1>12, <1>13

LEMMA ConnectAnswerStep ==
  ASSUME Core, AppInv, NEW p \in Promises, ConnectAnswer(p)
  PROVE  Core' /\ AppInv'
<1>1. /\ p \in owed /\ owed' = owed \ {p} /\ UNCHANGED <<app, logic_host, host, uncaught>>
  BY DEF ConnectAnswer
<1>2. "ok" \in Results /\ "bad" \in Results
  BY DEF Results
<1>3. CASE conn' = "up" /\ net_state' = TRUE /\ Resolve(p, "ok") /\ UNCHANGED harm
  <2>1. /\ conn' \in {"none", "up", conn} /\ net_state' \in BOOLEAN /\ (conn = "lost" \/ conn' # "lost")
        /\ harm' = {} => harm = {} /\ ((Working \/ p = "logic" \/ p = "run") => Working')
    BY <1>3 DEF Working
  <2> QED
    BY <1>1, <1>2, <1>3, <2>1, AnsweredKeeps
<1>4. CASE conn' = "none" /\ net_state' = FALSE /\ Resolve(p, "bad") /\ harm' = harm \cup {"refused"}
  <2>1. /\ conn' \in {"none", "up", conn} /\ net_state' \in BOOLEAN /\ (conn = "lost" \/ conn' # "lost")
        /\ harm' = {} => harm = {} /\ ((Working \/ p = "logic" \/ p = "run") => Working')
    BY <1>4
  <2> QED
    BY <1>1, <1>2, <1>4, <2>1, AnsweredKeeps
<1> QED
  BY <1>3, <1>4 DEF ConnectAnswer

LEMMA ResponseStep ==
  ASSUME Core, AppInv, NEW p \in Promises, Response(p)
  PROVE  Core' /\ AppInv'
<1>1. /\ p \in owed /\ p \in Asked /\ owed' = owed \ {p}
      /\ UNCHANGED <<app, logic_host, conn, host, uncaught>>
  BY DEF Response
<1>2. "ok" \in Results /\ "bad" \in Results /\ "lost" \in Results /\ p # "logic" /\ p # "run"
  BY <1>1 DEF Results, Asked, Awaited, Asides, Fetches
<1>3. net_state \in BOOLEAN
  BY DEF AppInv, AppTypes
<1>4. CASE \/ Resolve(p, "ok") /\ UNCHANGED <<net_state, harm>>
           \/ /\ Resolve(p, "bad") /\ UNCHANGED net_state
              /\ harm' = IF p \in {"entry", "login"} \cup Fetches THEN harm \cup {"bad"} ELSE harm
  <2>1. PICK v \in Results : Resolve(p, v)
    BY <1>2, <1>4
  <2>2. /\ conn' \in {"none", "up", conn} /\ net_state' \in BOOLEAN /\ (conn = "lost" \/ conn' # "lost")
        /\ harm' = {} => harm = {} /\ ((Working \/ p = "logic" \/ p = "run") => Working')
    BY <1>1, <1>2, <1>3, <1>4 DEF Working
  <2> QED
    BY <1>1, <2>1, <2>2, AnsweredKeeps
<1>5. CASE conn = "lost" /\ Resolve(p, "lost") /\ net_state' = FALSE /\ UNCHANGED harm
  <2>1. harm # {}
    BY <1>5 DEF AppInv, GoingInv
  <2>2. /\ conn' \in {"none", "up", conn} /\ net_state' \in BOOLEAN /\ (conn = "lost" \/ conn' # "lost")
        /\ harm' = {} => harm = {} /\ ((Working \/ p = "logic" \/ p = "run") => Working')
    BY <1>1, <1>5, <2>1
  <2> QED
    BY <1>1, <1>2, <1>5, <2>2, AnsweredKeeps
<1> QED
  BY <1>4, <1>5 DEF Response

\* what the server does by itself, and a step of somebody else
LEMMA ServerKeeps ==
  ASSUME Core, AppInv, UNCHANGED <<engine, app, logic_host, host, uncaught>>,
         owed' \subseteq owed, net_state' \in BOOLEAN, conn' \in {"none", "lost", conn},
         harm' = {} => UNCHANGED <<net_state, conn, owed, harm>>
  PROVE  Core' /\ AppInv'
<1>1. UNCHANGED <<prom, eng, over>>
  BY DEF engine
<1>2. /\ \A x : /\ Unsettled(x)' <=> Unsettled(x)
                /\ Started(x)' <=> Started(x)
                /\ Left(x)' = Left(x)
  BY <1>1 DEF Unsettled, Started, Left
<1>3. Core'
  <2>1. EngineTypes' /\ ListsInv'
    BY <1>1, <1>2 DEF Core, EngineTypes, ListsInv
  <2>2. EngineInv' /\ WaitInv'
    BY <1>1, <1>2 DEF Core, EngineInv, WaitInv
  <2> QED
    BY <2>1, <2>2 DEF Core
<1> USE DEF AppInv, app
<1>4. AppTypes' /\ OwedInv'
  BY <1>1 DEF AppTypes, OwedInv
<1>5. RunInv' /\ LoginInv' /\ ScriptInv'
  BY <1>1, <1>2 DEF RunInv, LoginInv, ScriptInv, Ends
<1>6. GoingInv' /\ LoginErrorsTaken'
  BY <1>1, <1>2 DEF GoingInv, LoginErrorsTaken, Working
<1> QED
  BY <1>3, <1>4, <1>5, <1>6
-----------------------------------------------------------------------------
(* The inductive invariant *)

LEMMA InitIsGood ==
  ASSUME Init
  PROVE  IInv
<1>1. /\ {"run", "logic", "entry", "login", "init", "send", "api", "api2"} \subseteq Promises
      /\ Scripts \subseteq Promises /\ Heads \subseteq Promises
      /\ Subs \subseteq Promises
  BY NamesArePromises
<1>2. RunPromise \in PromiseType /\ IsNew("run", RunPromise) /\ NoPromise \in PromiseType
  BY NewPromises, NothingLeft DEF IsNew, NoPromise, PromiseType, Results
<1>3. /\ prom \in [Promises -> PromiseType] /\ prom["run"] = RunPromise
      /\ \A x \in Promises \ {"run"} : prom[x] = NoPromise
      /\ eng = Idle /\ over = {} /\ running = TRUE /\ couldLogin = FALSE /\ user = FALSE /\ timer = FALSE
      /\ api_index = 1 /\ net_state = FALSE /\ logic_host = FALSE /\ conn = "connecting"
      /\ host = "gate" /\ owed = {"run"} /\ uncaught = {} /\ harm = {}
  BY <1>1, <1>2 DEF Init
<1>4. /\ eng.at = "idle" /\ eng \in [at : {"idle", "then", "failed", "handler", "settled", "given_up"},
               p : Promises \cup {None}, arg : {None, "error"}, todo : Seq(Handlers)]
  BY <1>3, WhereTypes
<1>5. /\ prom["run"].state = "pending" /\ prom["run"].next_promises = <<>>
      /\ IsThens("run", prom["run"].thens) /\ IsDones("run", prom["run"].dones)
      /\ IsFails("run", prom["run"].fails) /\ Left("run") = 4
  BY <1>2, <1>3 DEF IsNew, Left
<1>6. /\ NoPromise.state = "none" /\ NoPromise.next_promises = <<>> /\ Len(NoPromise.thens) = 0
      /\ \A x : IsThens(x, NoPromise.thens) /\ IsDones(x, NoPromise.dones) /\ IsFails(x, NoPromise.fails)
  BY NothingLeft DEF NoPromise
<1>7. \A x \in Promises \ {"run"} :
        /\ prom[x].state = "none" /\ prom[x].next_promises = <<>> /\ Left(x) = 0
        /\ IsThens(x, prom[x].thens) /\ IsDones(x, prom[x].dones) /\ IsFails(x, prom[x].fails)
        /\ ~Unsettled(x) /\ ~Started(x)
  BY <1>3, <1>6 DEF Left, Unsettled, Started
<1>8. "run" \notin Subs /\ "run" \in Names
  BY DEF Subs, Names, Calls
<1>9. EngineTypes /\ EngineInv
  BY <1>3, <1>4 DEF EngineTypes, EngineInv
<1>10. ListsInv
  BY <1>5, <1>7, <1>8 DEF ListsInv
<1>11. WaitInv
  BY <1>1, <1>3, <1>4, <1>5, <1>7, <1>8 DEF WaitInv
<1>12. AppTypes /\ OwedInv
  <2>1. OwedInv
    BY <1>3, <1>5 DEF OwedInv
  <2>2. api_index \in 1..GroupSize
    BY <1>3, RobotAssumption
  <2>3. owed \subseteq Names /\ uncaught \subseteq Promises
    BY <1>3, <1>8
  <2> QED
    BY <1>3, <2>1, <2>2, <2>3 DEF AppTypes
<1>13. RunInv
  BY <1>1, <1>3, <1>4, <1>5, <1>7 DEF RunInv
<1>14. LoginInv /\ ScriptInv
  <2>1. prom["login"].state = "none" /\ Left("login") = 0
    BY <1>1, <1>7
  <2>2. "run" \notin Scripts /\ "run" \notin Heads
    BY DEF Scripts, Heads, Awaited, Asides, Fetches
  <2>3. /\ \A p \in Scripts : prom[p].state = "none"
        /\ \A p \in Heads : ~Unsettled(p)
    BY <1>1, <1>7, <2>2
  <2>4. LoginInv
    BY <1>3, <2>1 DEF LoginInv
  <2> QED
    BY <2>3, <2>4 DEF ScriptInv
<1>15. GoingInv /\ LoginErrorsTaken
  <2>1. ~Started("run")
    BY <1>5 DEF Started
  <2> QED
    BY <1>1, <1>3, <1>4, <1>5, <1>7, <2>1 DEF GoingInv, LoginErrorsTaken
<1> QED
  BY <1>9, <1>10, <1>11, <1>12, <1>13, <1>14, <1>15 DEF IInv, Core

LEMMA StepIsGood ==
  ASSUME IInv, [Next]_vars
  PROVE  IInv'
<1>1. Core /\ AppInv
  BY DEF IInv, AppInv
<1> SUFFICES Core' /\ AppInv'
  BY DEF IInv, AppInv
<1>2. CASE Lua
  <2>1. CASE Engine
    <3>1. CASE EngineStep /\ UNCHANGED <<app, net, past>>
      BY <1>1, <3>1, ThensDoneKeeps, FailedKeeps, SettleKeeps, PassErrorKeeps DEF EngineStep
    <3>2. CASE Uncaught /\ uncaught' = uncaught \cup ({eng.p} \ (Awaited \cup Asides)) /\ UNCHANGED <<app, net, harm>>
      BY <1>1, <3>2, UncaughtKeeps
    <3> QED
      BY <2>1, <3>1, <3>2 DEF Engine
  <2>2. CASE CheckRequest \/ Passes \/ AskEntry \/ AskLogic \/ Enter \/ InitPlayer \/ SendGlobalMsg
    BY <1>1, <2>2, CheckRequestStep, PassesStep, AskEntryStep, AskLogicStep, EnterStep, InitPlayerStep,
       SendGlobalMsgStep
  <2>3. CASE StartDailyQuest \/ CallCatch \/ CouldLogin \/ Leave \/ SetRun \/ PlayerData
    BY <1>1, <2>3, StartDailyQuestStep, CallCatchStep, CouldLoginStep, LeaveStep, SetRunStep,
       PlayerDataStep
  <2>4. CASE EnterMapIndex \/ BuyItem \/ ReadChat \/ Apply \/ JoinNext \/ JoinEnds
    BY <1>1, <2>4, EnterMapIndexStep, BuyItemStep, ReadChatStep, ApplyStep, JoinNextStep, JoinEndsStep
  <2> QED
    BY <1>2, <2>1, <2>2, <2>3, <2>4 DEF Lua
<1>3. CASE Run
  BY <1>1, <1>3, LoginStep, RunFunctionStep DEF Run
<1>4. CASE \E p \in Promises : ConnectAnswer(p) \/ Response(p)
  BY <1>1, <1>4, ConnectAnswerStep, ResponseStep
<1>5. CASE Lose
  <2>1. /\ UNCHANGED <<engine, app, logic_host, host, uncaught>>
        /\ owed' \subseteq owed /\ net_state' \in BOOLEAN /\ conn' \in {"none", "lost", conn}
        /\ harm' = {} => UNCHANGED <<net_state, conn, owed, harm>>
    BY <1>1, <1>5 DEF Lose, AppInv, AppTypes
  <2> QED
    BY <1>1, <2>1, ServerKeeps
<1>6. CASE Kick
  <2>1. /\ UNCHANGED <<engine, app, logic_host, host, uncaught>>
        /\ owed' \subseteq owed /\ net_state' \in BOOLEAN /\ conn' \in {"none", "lost", conn}
        /\ harm' = {} => UNCHANGED <<net_state, conn, owed, harm>>
    BY <1>1, <1>6 DEF Kick, Disconnect, AppInv, AppTypes
  <2> QED
    BY <1>1, <2>1, ServerKeeps
<1>7. CASE UNCHANGED vars
  <2>1. /\ UNCHANGED <<engine, app, logic_host, host, uncaught>>
        /\ owed' \subseteq owed /\ net_state' \in BOOLEAN /\ conn' \in {"none", "lost", conn}
        /\ harm' = {} => UNCHANGED <<net_state, conn, owed, harm>>
    BY <1>1, <1>7 DEF vars, net, past, AppInv, AppTypes
  <2> QED
    BY <1>1, <2>1, ServerKeeps
<1> QED
  BY <1>2, <1>3, <1>4, <1>5, <1>6, <1>7 DEF Next

LEMMA AlwaysGood == Spec => []IInv
<1>1. Init => IInv
  BY InitIsGood
<1>2. IInv /\ [Next]_vars => IInv'
  BY StepIsGood
<1> QED
  BY <1>1, <1>2, PTL DEF Spec
-----------------------------------------------------------------------------
(* What the robot promises *)

\* Every promise is in one of its states and waits in a list of promises, what the engine does is for
\* a promise, and the fields of the application have the values the code gives them.
THEOREM RobotTypes == Spec => []TypeOK
<1>1. IInv => TypeOK
  <2> SUFFICES ASSUME IInv PROVE TypeOK
    OBVIOUS
  <2>1. EngineTypeOK
    BY DEF IInv, Core, EngineTypes, PromiseType, EngineTypeOK
  <2> QED
    BY <2>1 DEF IInv, AppTypes, TypeOK, Names
<1> QED
  BY <1>1, AlwaysGood, PTL

\* When the robot is ready for its next function, every request that the last one waits for is through:
\* the second request of a chain, and the pages of JoinAlliance.  And whenever Lua has returned there is
\* one of them that is not, or the two of a chain.
THEOREM OneCall == Spec => []OneCallAtATime
<1>1. IInv => OneCallAtATime
  <2> SUFFICES ASSUME IInv, eng.at = "idle"
               PROVE  /\ running => \A p \in Awaited : ~Unsettled(p)
                      /\ \A p, q \in Awaited : Unsettled(p) /\ Unsettled(q) => p = q \/ {p, q} = {"api", "api2"}
    BY DEF OneCallAtATime, EngineIdle
  <2>1. /\ \A x : ~Ends(x) /\ "api" \in Heads
        /\ \A p \in Awaited : p \in Heads \/ p = "api2"
    BY NotEnding DEF Heads, Awaited
  <2>2. /\ \A p \in Heads : Unsettled(p) => ~running
        /\ \A p, q \in Heads : Unsettled(p) /\ Unsettled(q) => p = q
    BY <2>1 DEF IInv, ScriptInv
  <2>3. Unsettled("api2") => Unsettled("api")
    <3>1. "api2" \in Subs /\ Parent("api2") = "api"
      BY DEF Subs, Parent
    <3> QED
      BY <3>1 DEF IInv, Core, WaitInv, Unsettled
  <2>4. ASSUME running, NEW p \in Awaited PROVE ~Unsettled(p)
    BY <2>1, <2>2, <2>3, <2>4
  <2>5. ASSUME NEW p \in Awaited, NEW q \in Awaited, Unsettled(p), Unsettled(q)
        PROVE  p = q \/ {p, q} = {"api", "api2"}
    BY <2>1, <2>2, <2>3, <2>5
  <2> QED
    BY <2>4, <2>5
<1> QED
  BY <1>1, AlwaysGood, PTL

\* No function of the scripts and none of the handlers of their requests, and nothing of the login
\* after its answer, asks before the player is there, and the answer to the login is not owed any more.
THEOREM AfterTheLogin == Spec => []LoggedInFirst
<1>1. IInv => LoggedInFirst
  <2> SUFFICES ASSUME IInv, NEW p \in Scripts, prom[p].state # "none"
               PROVE  user /\ "login" \notin owed
    BY DEF LoggedInFirst, Scripts
  <2>1. user /\ Started("login")
    BY DEF IInv, ScriptInv, LoginInv
  <2> QED
    BY <2>1 DEF IInv, OwedInv, Started
<1> QED
  BY <1>1, AlwaysGood, PTL

\* Each request is owed by the server it is meant for: the gate is left, and the logic server's address
\* known, before the logic server is connected.
THEOREM TheServer == Spec => []RightServer
<1>1. IInv => RightServer
  <2> SUFFICES ASSUME IInv, NEW p \in owed
               PROVE  IF p \in {"run", "entry"} THEN host = "gate"
                      ELSE host = "logic" /\ "entry" \in over /\ logic_host
    BY DEF RightServer
  <2>1. /\ prom[p].state = "pending" /\ p \in Names /\ Core /\ AppInv /\ p \in Promises
        /\ p \notin over /\ Unsettled(p)
    BY NamesArePromises DEF IInv, AppInv, OwedInv, AppTypes, Core, WaitInv, Started, Unsettled
  <2>2. CASE p = "run"
    BY <2>1, <2>2 DEF AppInv, RunInv
  <2>3. CASE p = "entry"
    BY <2>1, <2>3 DEF AppInv, RunInv
  <2>4. CASE p = "logic"
    BY <2>1, <2>4 DEF AppInv, RunInv
  <2>5. CASE p = "login" \/ p \in Scripts
    <3>1. prom["login"].state # "none"
      BY <2>1, <2>5 DEF AppInv, ScriptInv, LoginInv, Started
    <3>2. host = "logic" /\ logic_host /\ "entry" \in over
      BY <2>1, <3>1, Connected
    <3>3. p \notin {"run", "entry"}
      BY <2>5 DEF Scripts, Awaited, Asides, Fetches
    <3> QED
      BY <3>2, <3>3
  <2> QED
    BY <2>1, <2>2, <2>3, <2>4, <2>5 DEF Names, Calls, Asked, Scripts
<1> QED
  BY <1>1, AlwaysGood, PTL

\* As long as nothing went wrong, a promise that some function waits for and that is not through waits
\* for an answer that is owed, or for another promise that is not through.
THEOREM NoneForgotten == Spec => []NoPromiseForgotten
<1>1. IInv => NoPromiseForgotten
  <2> SUFFICES ASSUME IInv, eng.at = "idle", harm = {}, NEW p \in Promises \ Asides, Unsettled(p), p \notin owed
               PROVE  \E q \in Promises : Unsettled(q) /\ WaitsFor(p, q)
    BY DEF NoPromiseForgotten, EngineIdle
  <2>1. /\ prom[p].state \in {"none", "pending", "resolved", "rejected"} /\ prom[p].state # "pending"
        /\ prom[p].state # "none" /\ p \notin over
    BY DEF IInv, GoingInv, Core, EngineTypes, PromiseType, Unsettled
  <2>2. Started(p)
    BY <2>1 DEF Started
  <2>3. PICK q \in Subs : Unsettled(q) /\ Parent(q) = p
    BY <2>1, <2>2 DEF IInv, GoingInv
  <2>4. q \in Promises /\ prom[q].next_promises = <<p>>
    BY <2>3, NamesArePromises DEF IInv, Core, WaitInv
  <2>5. WaitsFor(p, q)
    <3>1. 1 \in 1..Len(<<p>>) /\ <<p>>[1] = p
      OBVIOUS
    <3> QED
      BY <2>4, <3>1 DEF WaitsFor
  <2> QED
    BY <2>3, <2>4, <2>5
<1> QED
  BY <1>1, AlwaysGood, PTL

\* No error of the login, or of a request the login waits for, is left to nobody.
THEOREM TheLoginTakesErrors == Spec => []LoginErrorsTaken
<1>1. IInv => LoginErrorsTaken
  BY DEF IInv
<1> QED
  BY <1>1, AlwaysGood, PTL
=============================================================================
