-------------------------- MODULE PomeloWireProofs --------------------------
(***************************************************************************)
(* The safety properties of PomeloWire, for every dictionary and every     *)
(* number of calls: the invariant follows each request from the write to   *)
(* its callback, and knows it by its id in every place it can be.          *)
(***************************************************************************)
EXTENDS PomeloCodecProofs

-----------------------------------------------------------------------------
(* Sequences *)

LEMMA Appended ==
  ASSUME NEW S, NEW s \in Seq(S), NEW e \in S
  PROVE  /\ Append(s, e) \in Seq(S) /\ Len(Append(s, e)) = Len(s) + 1 /\ Len(s) \in Nat
         /\ \A i \in 1..Len(s) : Append(s, e)[i] = s[i]
         /\ Append(s, e)[Len(s) + 1] = e
         /\ \A i \in 1..(Len(s) + 1) : i \in 1..Len(s) \/ i = Len(s) + 1
  BY AppendProperties, LenProperties

LEMMA Removed ==
  ASSUME NEW S, NEW s \in Seq(S), s # <<>>
  PROVE  /\ Tail(s) \in Seq(S) /\ Len(Tail(s)) = Len(s) - 1 /\ Len(s) \in Nat /\ 1 \in 1..Len(s)
         /\ \A i \in 1..Len(Tail(s)) : i + 1 \in 1..Len(s) /\ Tail(s)[i] = s[i + 1]
         /\ Head(s) = s[1] /\ Head(s) \in S
  BY HeadTailProperties, EmptySeq, LenProperties

-----------------------------------------------------------------------------
(* What the messages of each kind are, and what is read of them *)

Msgs == [masked : BOOLEAN, bytes : Seq(Nat)]
Masked(b, k) == [masked |-> k, bytes |-> b]

\* EncodeMsg, with the dictionary as a parameter
CallBytes(c, id, d) ==
  LET type == IF id = 0 THEN NOTIFY ELSE REQUEST
  IN IF RouteOf[c] \in DOMAIN d THEN EncodeCode(id, type, d[RouteOf[c]], BodyOf[c])
                                ELSE EncodeRoute(id, type, RouteOf[c], BodyOf[c])
CallMsg(c, id, d, k) == Masked(CallBytes(c, id, d), IF id = 0 THEN FALSE ELSE k)

AnswerBytes(r, id) == EncodeRoute(id, RESPONSE, <<>>, BodyOf[r])
AnswerMsg(r, id, k) == Masked(AnswerBytes(r, id), k)

PushBytes(p, d) == IF RouteOf[p] \in DOMAIN d THEN EncodeCode(0, PUSH, d[RouteOf[p]], BodyOf[p])
                                              ELSE EncodeRoute(0, PUSH, RouteOf[p], BodyOf[p])
PushMsg(p, d, k) == Masked(PushBytes(p, d), k)

\* the id a message carries
IdOf(m) == Decode(m.bytes).id

LEMMA Types == /\ REQUEST \in 0..3 /\ NOTIFY \in 0..3 /\ RESPONSE \in 0..3 /\ PUSH \in 0..3
               /\ HasId(REQUEST) /\ ~HasId(NOTIFY) /\ HasId(RESPONSE) /\ ~HasId(PUSH)
               /\ HasRoute(REQUEST) /\ HasRoute(NOTIFY) /\ ~HasRoute(RESPONSE) /\ HasRoute(PUSH)
               /\ REQUEST # NOTIFY /\ NOTIFY # RESPONSE /\ REQUEST # RESPONSE /\ PUSH # RESPONSE
  BY DEF REQUEST, NOTIFY, RESPONSE, PUSH, HasId, HasRoute

LEMMA MessageIsBytes ==
  ASSUME NEW type \in 0..3, NEW id \in Nat, NEW body \in Seq(Nat)
  PROVE  /\ \A route \in Seq(Nat) : EncodeRoute(id, type, route, body) \in Seq(Nat)
         /\ \A code \in Nat : EncodeCode(id, type, code, body) \in Seq(Nat)
<1>1. Flag(type, FALSE) \in Nat /\ Flag(type, TRUE) \in Nat
  BY FlagParts
<1>2. IdPart(type, id) \in Seq(Nat)
  <2>1. EncodeId[id] \in Seq(Nat) /\ <<>> \in Seq(Nat)
    BY IdDigits DEF Digits
  <2> QED
    BY <2>1 DEF IdPart
<1>3. ASSUME NEW f \in Nat, NEW R \in Seq(Nat)
      PROVE  Message(f, IdPart(type, id), R, body) \in Seq(Nat)
  BY <1>2, MessageParts DEF IsMessage
<1>4. ASSUME NEW route \in Seq(Nat) PROVE EncodeRoute(id, type, route, body) \in Seq(Nat)
  <2>1. PICK R : R = IF HasRoute(type) THEN <<Len(route) % Byte>> \o route ELSE <<>>
    OBVIOUS
  <2>2. R \in Seq(Nat)
    <3>1. Len(route) % Byte \in Nat
      <4>1. Len(route) \in Nat /\ Byte > 0
        BY HalfIsNat
      <4> QED
        BY <4>1, HalfIsNat
    <3>2. <<Len(route) % Byte>> \o route \in Seq(Nat) /\ <<>> \in Seq(Nat)
      BY <3>1, ByteBefore
    <3> QED
      BY <2>1, <3>2
  <2>3. EncodeRoute(id, type, route, body) = Message(Flag(type, FALSE), IdPart(type, id), R, body)
    BY <2>1 DEF EncodeRoute, Message
  <2> QED
    BY <1>1, <1>3, <2>2, <2>3
<1>5. ASSUME NEW code \in Nat PROVE EncodeCode(id, type, code, body) \in Seq(Nat)
  <2>1. PICK R : R = IF HasRoute(type) THEN CodeBytes(code) ELSE <<>>
    OBVIOUS
  <2>2. R \in Seq(Nat)
    <3>1. Byte \in Nat /\ Byte > 0
      BY HalfIsNat
    <3>2. code \div Byte \in Nat /\ code % Byte \in Nat
      BY <3>1, Division
    <3>3. (code \div Byte) % Byte \in Nat
      BY <3>1, <3>2, Division
    <3>4. CodeBytes(code) \in Seq(Nat) /\ <<>> \in Seq(Nat)
      BY <3>2, <3>3 DEF CodeBytes
    <3> QED
      BY <2>1, <3>4
  <2>3. EncodeCode(id, type, code, body) = Message(Flag(type, TRUE), IdPart(type, id), R, body)
    BY <2>1 DEF EncodeCode, Message
  <2> QED
    BY <1>1, <1>3, <2>2, <2>3
<1> QED
  BY <1>4, <1>5

LEMMA DictCodes ==
  ASSUME NEW d \in Dicts, NEW r \in DOMAIN d
  PROVE  /\ d[r] \in 1..((Byte * Byte) - 1) /\ d[r] \in 0..((Byte * Byte) - 1)
         /\ d[r] \in Nat /\ d[r] > 0 /\ d[r] # 0
         /\ \A s \in DOMAIN d : d[r] = d[s] => r = s
         /\ \A s \in DOMAIN d : LowByte(d[r]) = LowByte(d[s]) => r = s
<1>1. d[r] \in 1..((Byte * Byte) - 1)
  BY WireAssumption
<1>2. Byte * Byte \in Nat
  BY HalfIsNat
<1>3. d[r] \in 0..((Byte * Byte) - 1) /\ d[r] \in Nat /\ d[r] > 0 /\ d[r] # 0
  BY <1>1, <1>2
<1>4. \A s \in DOMAIN d : d[r] % Byte = d[s] % Byte => r = s
  BY WireAssumption
<1> QED
  BY <1>1, <1>3, <1>4 DEF LowByte

\* the theorem about routes, as one fact about the bytes
ReadAs(b, type, id, route, body) ==
  /\ b \in Seq(Nat)
  /\ Decode(b).type = type /\ Decode(b).id = id /\ Decode(b).code = 0
  /\ Decode(b).route = route /\ Decode(b).body = body
  /\ Len(route) < Half => Decode(b).ok

LEMMA RouteIsRead ==
  ASSUME NEW type \in 0..3, NEW id \in Nat, HasId(type) \/ id = 0,
         NEW route \in Seq(Nat), NEW body \in Seq(Nat), Len(route) < Byte,
         HasRoute(type) \/ route = <<>>
  PROVE  ReadAs(EncodeRoute(id, type, route, body), type, id, route, body)
<1>1. EncodeRoute(id, type, route, body) \in Seq(Nat)
  BY MessageIsBytes
<1>2. LET raw == Decode(EncodeRoute(id, type, route, body))
      IN /\ raw.type = type /\ raw.id = id /\ raw.code = 0
         /\ raw.route = route /\ raw.body = body
         /\ raw.ok <=> Len(route) < Half
  BY RouteRoundTrip
<1> QED
  BY <1>1, <1>2 DEF ReadAs

\* what is read of a call, by who has the dictionary it was written with
LEMMA CallIsRead ==
  ASSUME NEW c \in Calls, NEW id \in Nat, NEW d \in Dicts
  PROVE  LET raw == Decode(CallBytes(c, id, d))
         IN /\ CallBytes(c, id, d) \in Seq(Nat)
            /\ raw.type = IF id = 0 THEN NOTIFY ELSE REQUEST
            /\ raw.id = id /\ raw.body = BodyOf[c]
            /\ \/ raw.code = 0 /\ raw.route = RouteOf[c]
               \/ RouteOf[c] \in DOMAIN d /\ raw.code = d[RouteOf[c]]
<1>1. PICK b : b = CallBytes(c, id, d)
  OBVIOUS
<1>2. PICK type : type = IF id = 0 THEN NOTIFY ELSE REQUEST
  OBVIOUS
<1>3. type \in 0..3 /\ (HasId(type) \/ id = 0) /\ HasRoute(type)
  BY <1>2, Types
<1>4. RouteOf[c] \in Seq(Nat) /\ BodyOf[c] \in Seq(Nat)
  BY WireAssumption DEF Calls
<1>5. CASE RouteOf[c] \in DOMAIN d
  <2>1. PICK code : code = d[RouteOf[c]]
    OBVIOUS
  <2>2. code \in 0..((Byte * Byte) - 1) /\ code \in Nat
    BY <1>5, <2>1, DictCodes
  <2>3. b = EncodeCode(id, type, code, BodyOf[c])
    BY <1>1, <1>2, <1>5, <2>1 DEF CallBytes
  <2>4. b \in Seq(Nat)
    BY <1>3, <1>4, <2>2, <2>3, MessageIsBytes
  <2>5. /\ Decode(b).type = type /\ Decode(b).id = id /\ Decode(b).code = code
        /\ Decode(b).body = BodyOf[c]
    BY <1>3, <1>4, <2>2, <2>3, CodeRoundTrip
  <2> QED
    BY <1>1, <1>2, <1>5, <2>1, <2>4, <2>5
<1>6. CASE RouteOf[c] \notin DOMAIN d
  <2>1. Len(RouteOf[c]) < Byte
    BY <1>6, WireAssumption DEF Calls
  <2>2. b = EncodeRoute(id, type, RouteOf[c], BodyOf[c])
    BY <1>1, <1>2, <1>6 DEF CallBytes
  <2>3. ReadAs(b, type, id, RouteOf[c], BodyOf[c])
    BY <1>3, <1>4, <2>1, <2>2, RouteIsRead
  <2> QED
    BY <1>1, <1>2, <2>3 DEF ReadAs
<1> QED
  BY <1>5, <1>6

LEMMA AnswerIsRead ==
  ASSUME NEW r \in Requests, NEW id \in Nat
  PROVE  LET raw == Decode(AnswerBytes(r, id))
         IN /\ AnswerBytes(r, id) \in Seq(Nat)
            /\ raw.type = RESPONSE /\ raw.id = id /\ raw.code = 0 /\ raw.body = BodyOf[r] /\ raw.ok
<1>1. PICK b : b = AnswerBytes(r, id)
  OBVIOUS
<1>2. BodyOf[r] \in Seq(Nat) /\ <<>> \in Seq(Nat)
  BY WireAssumption
<1>3. Len(<<>>) < Byte /\ Len(<<>>) < Half
  BY HalfIsNat
<1>4. b = EncodeRoute(id, RESPONSE, <<>>, BodyOf[r])
  BY <1>1 DEF AnswerBytes
<1>5. ReadAs(b, RESPONSE, id, <<>>, BodyOf[r])
  BY <1>2, <1>3, <1>4, Types, RouteIsRead
<1> QED
  BY <1>1, <1>3, <1>5 DEF ReadAs

LEMMA PushIsRead ==
  ASSUME NEW p \in Pushes, NEW d \in Dicts
  PROVE  LET raw == Decode(PushBytes(p, d))
         IN /\ PushBytes(p, d) \in Seq(Nat)
            /\ raw.type = PUSH /\ raw.id = 0 /\ raw.body = BodyOf[p] /\ raw.ok
            /\ \/ raw.code = 0 /\ raw.route = RouteOf[p]
               \/ RouteOf[p] \in DOMAIN d /\ raw.code = d[RouteOf[p]]
<1>1. PICK b : b = PushBytes(p, d)
  OBVIOUS
<1>2. RouteOf[p] \in Seq(Nat) /\ BodyOf[p] \in Seq(Nat) /\ 0 \in Nat
  BY WireAssumption
<1>3. CASE RouteOf[p] \in DOMAIN d
  <2>1. PICK code : code = d[RouteOf[p]]
    OBVIOUS
  <2>2. code \in 0..((Byte * Byte) - 1) /\ code \in Nat
    BY <1>3, <2>1, DictCodes
  <2>3. b = EncodeCode(0, PUSH, code, BodyOf[p])
    BY <1>1, <1>3, <2>1 DEF PushBytes
  <2>4. b \in Seq(Nat)
    BY <1>2, <2>2, <2>3, Types, MessageIsBytes
  <2>5. /\ Decode(b).type = PUSH /\ Decode(b).id = 0 /\ Decode(b).code = code
        /\ Decode(b).body = BodyOf[p] /\ Decode(b).ok
    BY <1>2, <2>2, <2>3, Types, CodeRoundTrip
  <2> QED
    BY <1>1, <1>3, <2>1, <2>4, <2>5
<1>4. CASE RouteOf[p] \notin DOMAIN d
  <2>1. Len(RouteOf[p]) < Half
    BY <1>4, WireAssumption
  <2>2. Len(RouteOf[p]) < Byte
    <3>1. Len(RouteOf[p]) \in Nat
      BY <1>2
    <3> QED
      BY <2>1, <3>1, HalfIsNat
  <2>3. b = EncodeRoute(0, PUSH, RouteOf[p], BodyOf[p])
    BY <1>1, <1>4 DEF PushBytes
  <2>4. ReadAs(b, PUSH, 0, RouteOf[p], BodyOf[p])
    BY <1>2, <2>2, <2>3, Types, RouteIsRead
  <2> QED
    BY <1>1, <2>1, <2>4 DEF ReadAs
<1> QED
  BY <1>3, <1>4
-----------------------------------------------------------------------------
(* Encryption, and what each end makes of a message *)

LEMMA Rc4Clear == ASSUME secret \in BOOLEAN, NEW b PROVE Rc4(Clear(b)) = Masked(b, secret)
<1>1. CASE secret = TRUE
  BY <1>1 DEF Rc4, Clear, Masked
<1>2. CASE secret = FALSE
  BY <1>2 DEF Rc4, Clear, Masked
<1> QED
  BY <1>1, <1>2

LEMMA Rc4Masked ==
  ASSUME secret \in BOOLEAN, NEW b, NEW k \in BOOLEAN
  PROVE  /\ Rc4(Masked(b, k)).bytes = b
         /\ k = secret => Rc4(Masked(b, k)).masked = FALSE
         /\ k # secret => Rc4(Masked(b, k)).masked = TRUE
<1>1. CASE secret = TRUE /\ k = TRUE
  BY <1>1 DEF Rc4, Masked
<1>2. CASE secret = TRUE /\ k = FALSE
  BY <1>2 DEF Rc4, Masked
<1>3. CASE secret = FALSE
  BY <1>3 DEF Rc4, Masked
<1> QED
  BY <1>1, <1>2, <1>3

AskedAs(c, id) == [readable |-> TRUE, type |-> IF c \in Requests THEN REQUEST ELSE NOTIFY,
                   id |-> id, body |-> BodyOf[c], route |-> RouteOf[c]]

\* the server reads what was asked, but for a notify when there is a key
LEMMA ServerUnderstands ==
  ASSUME secret \in BOOLEAN, dict \in Dicts, NEW c \in Calls, NEW id \in Nat,
         id = 0 <=> c \notin Requests
  PROVE  LET msg == Understood(Rc4(CallMsg(c, id, dict, secret)))
         IN \/ msg = AskedAs(c, id)
            \/ id = 0 /\ secret /\ msg = [readable |-> FALSE]
<1>1. PICK b : b = CallBytes(c, id, dict)
  OBVIOUS
<1>2. PICK m : m = Rc4(CallMsg(c, id, dict, secret))
  OBVIOUS
<1>3. PICK raw : raw = Decode(b)
  OBVIOUS
<1>4. /\ raw.type = IF c \in Requests THEN REQUEST ELSE NOTIFY
      /\ raw.id = id /\ raw.body = BodyOf[c]
      /\ \/ raw.code = 0 /\ raw.route = RouteOf[c]
         \/ RouteOf[c] \in DOMAIN dict /\ raw.code = dict[RouteOf[c]]
  BY <1>1, <1>3, CallIsRead
<1>5. CASE id = 0 /\ secret
  <2>1. m.masked = TRUE
    BY <1>1, <1>2, <1>5, Rc4Masked DEF CallMsg
  <2>2. Understood(m) = [readable |-> FALSE]
    BY <2>1 DEF Understood
  <2> QED
    BY <1>2, <1>5, <2>2
<1>6. CASE ~(id = 0 /\ secret)
  <2>1. m.masked = FALSE /\ m.bytes = b
    <3>1. PICK k \in BOOLEAN : k = IF id = 0 THEN FALSE ELSE secret
      OBVIOUS
    <3>2. k = secret /\ m = Rc4(Masked(b, k))
      BY <1>1, <1>2, <1>6, <3>1 DEF CallMsg
    <3> QED
      BY <3>2, Rc4Masked
  <2>2. CASE raw.code = 0 /\ raw.route = RouteOf[c]
    <3>1. Understood(m) = [readable |-> TRUE, type |-> raw.type, id |-> raw.id, body |-> raw.body,
                           route |-> raw.route]
      BY <1>3, <2>1, <2>2 DEF Understood
    <3> QED
      BY <1>2, <1>4, <2>2, <3>1 DEF AskedAs
  <2>3. CASE RouteOf[c] \in DOMAIN dict /\ raw.code = dict[RouteOf[c]]
    <3>1. /\ raw.code > 0 /\ raw.code # 0
          /\ \A s \in DOMAIN dict : dict[s] = raw.code => s = RouteOf[c]
      BY <2>3, DictCodes
    <3>2. (CHOOSE s \in DOMAIN dict : dict[s] = raw.code) = RouteOf[c]
      BY <2>3, <3>1
    <3>3. Understood(m) = [readable |-> TRUE, type |-> raw.type, id |-> raw.id, body |-> raw.body,
                           route |-> CHOOSE s \in DOMAIN dict : dict[s] = raw.code]
      BY <1>3, <2>1, <2>3, <3>1 DEF Understood
    <3> QED
      BY <1>2, <1>4, <3>2, <3>3 DEF AskedAs
  <2> QED
    BY <1>4, <2>2, <2>3
<1> QED
  BY <1>5, <1>6

\* an answer is read as it was written
LEMMA ClientReadsAnswer ==
  ASSUME secret \in BOOLEAN, NEW r \in Requests, NEW id \in Nat
  PROVE  LET m == Rc4(AnswerMsg(r, id, secret))
             raw == Decode(m.bytes)
         IN m.masked = FALSE /\ raw.ok /\ raw.code = 0 /\ raw.id = id /\ raw.body = BodyOf[r]
<1> DEFINE m == AnswerMsg(r, id, secret)
<1>1. Rc4(m).masked = FALSE /\ Rc4(m).bytes = AnswerBytes(r, id)
  BY Rc4Masked DEF AnswerMsg
<1> QED
  BY <1>1, AnswerIsRead

\* and a push
LEMMA ClientReadsPush ==
  ASSUME secret \in BOOLEAN, dict \in Dicts, NEW p \in Pushes,
         \A r \in DOMAIN dict : LowByte(dict[r]) \in DOMAIN code_to_route
                                /\ code_to_route[LowByte(dict[r])] = r,
         NEW m, m = PushMsg(p, dict, secret)
  PROVE  LET raw == Decode(Rc4(m).bytes)
         IN /\ Rc4(m).masked = FALSE
            /\ Parsed(raw) /\ raw.id = 0 /\ raw.body = BodyOf[p] /\ Route(raw) = RouteOf[p]
<1>1. Rc4(m).masked = FALSE /\ Rc4(m).bytes = PushBytes(p, dict)
  BY Rc4Masked DEF PushMsg
<1>2. PICK raw : raw = Decode(PushBytes(p, dict))
  OBVIOUS
<1>3. /\ raw.type = PUSH /\ raw.id = 0 /\ raw.body = BodyOf[p] /\ raw.ok
      /\ \/ raw.code = 0 /\ raw.route = RouteOf[p]
         \/ RouteOf[p] \in DOMAIN dict /\ raw.code = dict[RouteOf[p]]
  BY <1>2, PushIsRead
<1>4. raw.body \in Bodies
  BY <1>3 DEF Bodies
<1>5. (raw.code > 0 => Resolved(raw.code)) /\ Route(raw) = RouteOf[p]
  <2>1. CASE raw.code = 0 /\ raw.route = RouteOf[p]
    BY <2>1 DEF Route
  <2>2. CASE RouteOf[p] \in DOMAIN dict /\ raw.code = dict[RouteOf[p]]
    <3>1. raw.code > 0
      BY <2>2, DictCodes
    <3> QED
      BY <2>2, <3>1 DEF Route, Resolved
  <2> QED
    BY <1>3, <2>1, <2>2
<1>6. Parsed(raw)
  BY <1>3, <1>4, <1>5, Types DEF Parsed
<1> QED
  BY <1>1, <1>2, <1>3, <1>5, <1>6

-----------------------------------------------------------------------------
(* The invariant *)

CallId(c) == IF c \in Requests THEN ids[c] ELSE 0

\* the calls that were written, and the requests among them
Written == (issued \cap Calls) \ queued
WrittenRequests == (issued \cap Requests) \ queued

\* what a message can be
IsCall(m) == \E c \in Written : m = CallMsg(c, CallId(c), dict, secret)
IsAsked(msg) == \E r \in WrittenRequests : msg = AskedAs(r, ids[r])
IsAnswer(m) == \E r \in WrittenRequests : m = AnswerMsg(r, ids[r], secret)
IsPush(m) == \E p \in issued \cap Pushes : m = PushMsg(p, dict, secret)
IsRead(msg) ==
  \/ \E c \in issued \cap Calls : msg = AskedAs(c, CallId(c))
  \/ ~msg.readable /\ secret /\ issued \cap Notifies # {}
IsEvent(e) == \E p \in issued \cap Pushes : e = <<RouteOf[p], BodyOf[p]>>

WireTypes ==
  /\ state \in {"connected", "working"} /\ secret \in BOOLEAN
  /\ req_id \in Nat /\ ids \in [Requests -> Nat]
  /\ issued \subseteq Calls \cup Pushes /\ queued \subseteq issued \cap Calls
  /\ toServer \in Seq(Msgs) /\ toClient \in Seq(Msgs)
  /\ called \in Seq(Requests \X Seq(Nat)) /\ answered \subseteq Nat

\* before the end of the handshake nothing has happened
WireStart ==
  state = "connected" =>
    /\ secret = FALSE /\ dict = <<>> /\ issued = {} /\ queued = {} /\ requests = <<>>
    /\ toServer = <<>> /\ toClient = <<>> /\ got = {} /\ unanswered = {} /\ called = <<>>
    /\ events = {}

\* the dictionary of the server, and its inverse by the low byte of a code
WireDict ==
  state # "connected" =>
    /\ dict \in Dicts
    /\ \A r \in DOMAIN dict : LowByte(dict[r]) \in DOMAIN code_to_route
                              /\ code_to_route[LowByte(dict[r])] = r

\* each request has an id of its own
WireIds ==
  /\ \A r \in issued \cap Requests : ids[r] \in 1..req_id
  /\ \A r, s \in issued \cap Requests : ids[r] = ids[s] => r = s

\* the map has written requests, each under its id
WireMap ==
  \A k \in DOMAIN requests : requests[k] \in WrittenRequests /\ ids[requests[k]] = k

\* what is on the way to the server: calls as they were written, none of them twice
WireToServer ==
  /\ \A i \in 1..Len(toServer) : IsCall(toServer[i])
  /\ \A i, j \in 1..Len(toServer) :
       IdOf(toServer[i]) # 0 /\ IdOf(toServer[i]) = IdOf(toServer[j]) => i = j

\* what the server has to answer
WireUnanswered == \A msg \in unanswered : IsAsked(msg)

\* what is on the way to the client: answers, none of them twice, and pushes
WireToClient ==
  /\ \A i \in 1..Len(toClient) : IsAnswer(toClient[i]) \/ IsPush(toClient[i])
  /\ \A i, j \in 1..Len(toClient) :
       IdOf(toClient[i]) # 0 /\ IdOf(toClient[i]) = IdOf(toClient[j]) => i = j

\* a request is in one place, and in the map until it is called back
WirePlaces ==
  /\ \A i \in 1..Len(toServer) : IdOf(toServer[i]) # 0 =>
       /\ IdOf(toServer[i]) \in DOMAIN requests
       /\ \A msg \in unanswered : msg.id # IdOf(toServer[i])
       /\ \A j \in 1..Len(toClient) : IdOf(toClient[j]) # IdOf(toServer[i])
  /\ \A msg \in unanswered :
       /\ msg.id \in DOMAIN requests
       /\ \A j \in 1..Len(toClient) : IdOf(toClient[j]) # msg.id
  /\ \A j \in 1..Len(toClient) : IdOf(toClient[j]) # 0 => IdOf(toClient[j]) \in DOMAIN requests

WireCalled ==
  /\ \A i \in 1..Len(called) :
       /\ called[i][1] \in WrittenRequests /\ called[i][2] = BodyOf[called[i][1]]
       /\ ids[called[i][1]] \notin DOMAIN requests
  /\ \A i, j \in 1..Len(called) : called[i][1] = called[j][1] => i = j

\* ServerReadsCalls and RightEvent
WireRead == \A msg \in got : IsRead(msg)
WireEvents == \A e \in events : IsEvent(e)

WireInv ==
  /\ WireTypes /\ WireStart /\ WireDict /\ WireIds /\ WireMap /\ WireToServer /\ WireUnanswered
  /\ WireToClient /\ WirePlaces /\ WireCalled /\ WireRead /\ WireEvents
-----------------------------------------------------------------------------
(* What the invariant says is what the properties say *)

LEMMA WireInvImplies ==
  ASSUME WireInv
  PROVE  RightAnswer /\ NeverStopped /\ ServerReadsCalls /\ RightEvent
<1>1. RightAnswer /\ NeverStopped /\ RightEvent
  BY DEF WireInv, WireCalled, WireEvents, IsEvent, WireTypes, RightAnswer, NeverStopped, RightEvent
<1>2. \A c : AskedAs(c, CallId(c)) = Asked(c)
  BY DEF AskedAs, CallId, Asked
<1>3. ServerReadsCalls
  BY <1>2 DEF WireInv, WireRead, IsRead, ServerReadsCalls
<1> QED
  BY <1>1, <1>3

\* the ids of the messages on the way
LEMMA IdsOnTheWay ==
  ASSUME NEW id \in Nat, NEW d \in Dicts, NEW k
  PROVE  /\ \A c \in Calls : IdOf(CallMsg(c, id, d, k)) = id
         /\ \A r \in Requests : IdOf(AnswerMsg(r, id, k)) = id
         /\ \A p \in Pushes : IdOf(PushMsg(p, d, k)) = 0
<1>1. \A b : IdOf(Masked(b, k)) = Decode(b).id /\ IdOf(Masked(b, FALSE)) = Decode(b).id
  BY DEF IdOf, Masked
<1>2. ASSUME NEW c \in Calls PROVE IdOf(CallMsg(c, id, d, k)) = id
  <2>1. CallMsg(c, id, d, k) = Masked(CallBytes(c, id, d), k)
        \/ CallMsg(c, id, d, k) = Masked(CallBytes(c, id, d), FALSE)
    BY DEF CallMsg
  <2>2. Decode(CallBytes(c, id, d)).id = id
    BY CallIsRead
  <2> QED
    BY <1>1, <2>1, <2>2
<1>3. ASSUME NEW r \in Requests PROVE IdOf(AnswerMsg(r, id, k)) = id
  <2>1. Decode(AnswerBytes(r, id)).id = id
    BY AnswerIsRead
  <2> QED
    BY <1>1, <2>1 DEF AnswerMsg
<1>4. ASSUME NEW p \in Pushes PROVE IdOf(PushMsg(p, d, k)) = 0
  BY <1>1, PushIsRead DEF PushMsg
<1> QED
  BY <1>2, <1>3, <1>4

LEMMA WireInit == ASSUME Init PROVE WireInv
<1>1. WireTypes
  <2>1. <<>> \in Seq(Msgs) /\ <<>> \in Seq(Requests \X Seq(Nat))
    OBVIOUS
  <2> QED
    BY <2>1, WireAssumption DEF Init, WireTypes
<1>2. /\ WireStart /\ WireDict /\ WireIds /\ WireMap /\ WireToServer /\ WireUnanswered
      /\ WireToClient /\ WirePlaces /\ WireCalled /\ WireRead /\ WireEvents
  BY DEF Init, WireStart, WireDict, WireIds, WireMap, WireToServer, WireUnanswered,
         WireToClient, WirePlaces, WireCalled, WireRead, WireEvents
<1> QED
  BY <1>1, <1>2 DEF WireInv

LEMMA HandshakeStep ==
  ASSUME WireInv, NEW d \in Dicts, NEW key \in BOOLEAN, Handshake(d, key)
  PROVE  WireInv'
<1>1. WireStart /\ state = "connected" /\ state' = "working"
  BY DEF WireInv, Handshake
<1>2. /\ issued' = {} /\ queued' = {} /\ requests' = <<>> /\ toServer' = <<>> /\ toClient' = <<>>
      /\ got' = {} /\ unanswered' = {} /\ called' = <<>> /\ events' = {}
  BY <1>1 DEF WireStart, Handshake, server
<1>3. WireTypes'
  <2>1. <<>> \in Seq(Msgs) /\ <<>> \in Seq(Requests \X Seq(Nat))
    OBVIOUS
  <2> QED
    BY <1>1, <1>2, <2>1 DEF WireInv, WireTypes, Handshake, server
<1>4. WireStart'
  BY <1>1 DEF WireStart
<1>5. WireDict'
  <2>1. dict' = d /\ code_to_route' = [c \in {LowByte(d[r]) : r \in DOMAIN d} |->
                                        CHOOSE r \in DOMAIN d : LowByte(d[r]) = c]
    BY DEF Handshake
  <2>2. ASSUME NEW r \in DOMAIN d
        PROVE  LowByte(d[r]) \in DOMAIN code_to_route' /\ code_to_route'[LowByte(d[r])] = r
    <3>1. \A s \in DOMAIN d : LowByte(d[s]) = LowByte(d[r]) => s = r
      BY DictCodes
    <3>2. (CHOOSE s \in DOMAIN d : LowByte(d[s]) = LowByte(d[r])) = r
      BY <3>1
    <3> QED
      BY <2>1, <3>2
  <2> QED
    BY <2>1, <2>2 DEF WireDict
<1>6. /\ WireIds' /\ WireMap' /\ WireToServer' /\ WireUnanswered'
      /\ WireToClient' /\ WirePlaces' /\ WireCalled' /\ WireRead' /\ WireEvents'
  BY <1>2 DEF WireIds, WireMap, WireToServer, WireUnanswered,
         WireToClient, WirePlaces, WireCalled, WireRead, WireEvents
<1> QED
  BY <1>3, <1>4, <1>5, <1>6 DEF WireInv

\* what a message was, it stays
LEMMA StillWhatItWas ==
  ASSUME WireInv, UNCHANGED <<dict, secret>>, issued \subseteq issued', Written \subseteq Written',
         \A r \in issued \cap Requests : ids'[r] = ids[r]
  PROVE  /\ \A m : IsCall(m) => IsCall(m)'
         /\ \A m : IsAsked(m) => IsAsked(m)'
         /\ \A m : IsAnswer(m) => IsAnswer(m)'
         /\ \A m : IsPush(m) => IsPush(m)'
         /\ \A m : IsRead(m) => IsRead(m)'
         /\ \A e : IsEvent(e) => IsEvent(e)'
<1>1. \A c \in issued \cap Calls : CallId(c)' = CallId(c)
  BY DEF CallId
<1>2. Written \subseteq issued \cap Calls /\ WrittenRequests \subseteq issued \cap Requests
      /\ WrittenRequests \subseteq WrittenRequests'
  BY DEF Written, WrittenRequests, Calls
<1>3. \A m : IsCall(m) => IsCall(m)'
  BY <1>1, <1>2 DEF IsCall
<1>4. \A m : IsAsked(m) => IsAsked(m)'
  BY <1>2 DEF IsAsked
<1>5. \A m : IsAnswer(m) => IsAnswer(m)'
  BY <1>2 DEF IsAnswer
<1>6. \A m : IsPush(m) => IsPush(m)'
  BY DEF IsPush
<1>7. \A m : IsRead(m) => IsRead(m)'
  BY <1>1 DEF IsRead
<1>8. \A e : IsEvent(e) => IsEvent(e)'
  BY DEF IsEvent
<1> QED
  BY <1>3, <1>4, <1>5, <1>6, <1>7, <1>8

LEMMA RequestStep ==
  ASSUME WireInv, NEW r \in Requests, Request(r)
  PROVE  WireInv'
<1>1. /\ WireTypes /\ r \notin issued /\ r \notin queued /\ state = "working"
      /\ req_id' = req_id + 1 /\ ids' = [ids EXCEPT ![r] = req_id + 1]
      /\ issued' = issued \cup {r} /\ queued' = queued \cup {r}
      /\ UNCHANGED <<state, secret, dict, code_to_route, requests, called, events, got, unanswered,
                     answered, toServer, toClient>>
  BY DEF WireInv, WireTypes, Request, NextId, server
<1>2. ids'[r] = req_id + 1 /\ \A s \in issued \cap Requests : ids'[s] = ids[s]
  BY <1>1 DEF WireTypes
<1>3. Written' = Written /\ WrittenRequests' = WrittenRequests
  BY <1>1 DEF WireTypes, Written, WrittenRequests
<1>4. /\ \A m : IsCall(m) => IsCall(m)'
      /\ \A m : IsAsked(m) => IsAsked(m)'
      /\ \A m : IsAnswer(m) => IsAnswer(m)'
      /\ \A m : IsPush(m) => IsPush(m)'
      /\ \A m : IsRead(m) => IsRead(m)'
      /\ \A e : IsEvent(e) => IsEvent(e)'
  BY <1>1, <1>2, <1>3, StillWhatItWas
<1>5. WireTypes'
  BY <1>1 DEF WireTypes, Calls
<1>6. WireStart' /\ WireDict'
  BY <1>1 DEF WireInv, WireStart, WireDict
<1>7. WireIds'
  <2>1. \A s \in issued \cap Requests : ids[s] \in 1..req_id /\ ids[s] # req_id + 1
    BY <1>1 DEF WireInv, WireTypes, WireIds
  <2>2. \A s \in issued' \cap Requests : s = r \/ s \in issued \cap Requests
    BY <1>1
  <2> QED
    BY <1>1, <1>2, <2>1, <2>2 DEF WireInv, WireTypes, WireIds
<1>8. WireMap'
  BY <1>1, <1>2, <1>3 DEF WireInv, WireMap, WrittenRequests
<1>9. WireToServer' /\ WireUnanswered' /\ WireToClient' /\ WireRead' /\ WireEvents'
  BY <1>1, <1>4 DEF WireInv, WireToServer, WireUnanswered, WireToClient, WireRead, WireEvents
<1>10. WirePlaces'
  BY <1>1 DEF WireInv, WirePlaces
<1>11. WireCalled'
  BY <1>1, <1>2, <1>3 DEF WireInv, WireCalled, WrittenRequests
<1> QED
  BY <1>5, <1>6, <1>7, <1>8, <1>9, <1>10, <1>11 DEF WireInv

LEMMA NotifyStep ==
  ASSUME WireInv, NEW n \in Notifies, Notify(n)
  PROVE  WireInv'
<1>1. /\ WireTypes /\ n \notin issued /\ n \notin queued /\ n \notin Requests /\ state = "working"
      /\ issued' = issued \cup {n} /\ queued' = queued \cup {n}
      /\ UNCHANGED <<state, secret, dict, code_to_route, req_id, ids, requests, called, events, got,
                     unanswered, answered, toServer, toClient>>
  BY WireAssumption DEF WireInv, WireTypes, Notify, server
<1>2. Written' = Written /\ WrittenRequests' = WrittenRequests /\ issued' \cap Requests = issued \cap Requests
  BY <1>1 DEF WireTypes, Written, WrittenRequests
<1>3. /\ \A m : IsCall(m) => IsCall(m)'
      /\ \A m : IsAsked(m) => IsAsked(m)'
      /\ \A m : IsAnswer(m) => IsAnswer(m)'
      /\ \A m : IsPush(m) => IsPush(m)'
      /\ \A m : IsRead(m) => IsRead(m)'
      /\ \A e : IsEvent(e) => IsEvent(e)'
  BY <1>1, <1>2, StillWhatItWas
<1>4. WireTypes'
  BY <1>1 DEF WireTypes, Calls
<1>5. WireStart' /\ WireDict'
  BY <1>1 DEF WireInv, WireStart, WireDict
<1>6. WireIds' /\ WireMap' /\ WirePlaces' /\ WireCalled'
  BY <1>1, <1>2 DEF WireInv, WireIds, WireMap, WirePlaces, WireCalled
<1>7. WireToServer' /\ WireUnanswered' /\ WireToClient' /\ WireRead' /\ WireEvents'
  BY <1>1, <1>3 DEF WireInv, WireToServer, WireUnanswered, WireToClient, WireRead, WireEvents
<1> QED
  BY <1>4, <1>5, <1>6, <1>7 DEF WireInv

LEMMA MapSetIs ==
  ASSUME NEW r
  PROVE  /\ DOMAIN MapSet(r) = DOMAIN requests \cup {ids[r]}
         /\ MapSet(r)[ids[r]] = r
         /\ \A k \in DOMAIN requests : k # ids[r] => MapSet(r)[k] = requests[k]
  BY DEF MapSet

\* a message is written at the end of what is on the way
LEMMA WriteRequestStep ==
  ASSUME WireInv, NEW r \in Requests, WriteRequest(r)
  PROVE  WireInv'
<1>1. /\ WireTypes /\ state = "working" /\ r \in queued /\ r \in issued
      /\ queued' = queued \ {r} /\ requests' = MapSet(r)
      /\ toServer' = Append(toServer, Rc4(Clear(EncodeMsg(ids[r], RouteOf[r], BodyOf[r]))))
      /\ UNCHANGED <<state, secret, dict, code_to_route, req_id, ids, issued, called, events, got,
                     unanswered, answered, toClient>>
  BY DEF WireInv, WireTypes, WriteRequest, server
<1>2. dict \in Dicts /\ ids[r] \in Nat /\ ids[r] # 0 /\ ids[r] > 0
  BY <1>1 DEF WireInv, WireTypes, WireDict, WireIds
<1>3. PICK e : e = CallMsg(r, ids[r], dict, secret)
  OBVIOUS
<1>4. toServer' = Append(toServer, e)
  <2>1. EncodeMsg(ids[r], RouteOf[r], BodyOf[r]) = CallBytes(r, ids[r], dict)
    BY DEF EncodeMsg, CallBytes
  <2>2. e = Masked(CallBytes(r, ids[r], dict), secret)
    BY <1>2, <1>3 DEF CallMsg
  <2> QED
    BY <1>1, <2>1, <2>2, Rc4Clear DEF WireTypes
<1>5. e \in Msgs /\ IdOf(e) = ids[r]
  <2>1. r \in Calls
    BY DEF Calls
  <2>2. CallBytes(r, ids[r], dict) \in Seq(Nat)
    BY <1>2, <2>1, CallIsRead
  <2>3. IdOf(e) = ids[r]
    BY <1>2, <1>3, <2>1, IdsOnTheWay
  <2> QED
    BY <1>1, <1>2, <1>3, <2>2, <2>3 DEF Msgs, CallMsg, Masked, WireTypes
<1>6. ids[r] \notin DOMAIN requests
  <2> SUFFICES ASSUME ids[r] \in DOMAIN requests PROVE FALSE
    OBVIOUS
  <2>1. requests[ids[r]] \in WrittenRequests /\ ids[requests[ids[r]]] = ids[r]
    BY DEF WireInv, WireMap
  <2>2. requests[ids[r]] = r
    BY <1>1, <2>1 DEF WireInv, WireIds, WrittenRequests
  <2> QED
    BY <1>1, <2>1, <2>2 DEF WrittenRequests
<1>7. /\ DOMAIN requests' = DOMAIN requests \cup {ids[r]}
      /\ requests'[ids[r]] = r
      /\ \A k \in DOMAIN requests : requests'[k] = requests[k]
  BY <1>1, <1>6, MapSetIs
<1>8. /\ toServer' \in Seq(Msgs) /\ Len(toServer') = Len(toServer) + 1 /\ Len(toServer) \in Nat
      /\ \A i \in 1..Len(toServer) : toServer'[i] = toServer[i]
      /\ toServer'[Len(toServer) + 1] = e
      /\ \A i \in 1..Len(toServer') : i \in 1..Len(toServer) \/ i = Len(toServer) + 1
  BY <1>1, <1>4, <1>5, Appended DEF WireTypes
<1>9. /\ Written \subseteq Written' /\ WrittenRequests \subseteq WrittenRequests'
      /\ r \in Written' /\ r \in WrittenRequests'
  BY <1>1 DEF Written, WrittenRequests, Calls
<1>10. /\ \A m : IsCall(m) => IsCall(m)'
       /\ \A m : IsAsked(m) => IsAsked(m)'
       /\ \A m : IsAnswer(m) => IsAnswer(m)'
       /\ \A m : IsPush(m) => IsPush(m)'
       /\ \A m : IsRead(m) => IsRead(m)'
       /\ \A x : IsEvent(x) => IsEvent(x)'
  BY <1>1, <1>9, StillWhatItWas
<1>11. WireTypes'
  BY <1>1, <1>8 DEF WireTypes
<1>12. WireStart' /\ WireDict' /\ WireIds'
  BY <1>1 DEF WireInv, WireStart, WireDict, WireIds
<1>13. WireMap'
  BY <1>1, <1>7, <1>9 DEF WireInv, WireMap
<1>14. WireToServer'
  <2>1. IsCall(e)'
    <3>1. CallId(r)' = ids[r]
      BY <1>1 DEF CallId
    <3> QED
      BY <1>1, <1>3, <1>9, <3>1 DEF IsCall
  <2>2. (\A i \in 1..Len(toServer) : IsCall(toServer[i]))'
    BY <1>8, <1>10, <2>1 DEF WireInv, WireToServer
  <2>3. \A i \in 1..Len(toServer) : IdOf(toServer[i]) # ids[r]
    BY <1>2, <1>6 DEF WireInv, WirePlaces
  <2>4. \A i, j \in 1..Len(toServer') :
          IdOf(toServer'[i]) # 0 /\ IdOf(toServer'[i]) = IdOf(toServer'[j]) => i = j
    BY <1>5, <1>8, <2>3 DEF WireInv, WireToServer
  <2> QED
    BY <2>2, <2>4 DEF WireToServer
<1>15. WireUnanswered' /\ WireToClient' /\ WireRead' /\ WireEvents'
  BY <1>1, <1>10 DEF WireInv, WireUnanswered, WireToClient, WireRead, WireEvents
<1>16. WirePlaces'
  <2>1. ASSUME NEW i \in 1..Len(toServer'), IdOf(toServer'[i]) # 0
        PROVE  /\ IdOf(toServer'[i]) \in DOMAIN requests'
               /\ \A msg \in unanswered : msg.id # IdOf(toServer'[i])
               /\ \A j \in 1..Len(toClient) : IdOf(toClient[j]) # IdOf(toServer'[i])
    <3>1. CASE i \in 1..Len(toServer)
      BY <1>7, <1>8, <2>1, <3>1 DEF WireInv, WirePlaces
    <3>2. CASE i = Len(toServer) + 1
      BY <1>2, <1>5, <1>6, <1>7, <1>8, <3>2 DEF WireInv, WirePlaces
    <3> QED
      BY <1>8, <3>1, <3>2
  <2> QED
    BY <1>1, <1>7, <2>1 DEF WireInv, WirePlaces
<1>17. WireCalled'
  <2>1. \A i \in 1..Len(called) : called[i][1] \in WrittenRequests /\ ids[called[i][1]] # ids[r]
    <3> SUFFICES ASSUME NEW i \in 1..Len(called)
                 PROVE  called[i][1] \in WrittenRequests /\ ids[called[i][1]] # ids[r]
      OBVIOUS
    <3>1. called[i][1] \in WrittenRequests
      BY DEF WireInv, WireCalled
    <3>2. called[i][1] # r
      BY <1>1, <3>1 DEF WrittenRequests
    <3> QED
      BY <1>1, <3>1, <3>2 DEF WireInv, WireIds, WrittenRequests
  <2> QED
    BY <1>1, <1>7, <1>9, <2>1 DEF WireInv, WireCalled
<1> QED
  BY <1>11, <1>12, <1>13, <1>14, <1>15, <1>16, <1>17 DEF WireInv

LEMMA WriteNotifyStep ==
  ASSUME WireInv, NEW n \in Notifies, WriteNotify(n)
  PROVE  WireInv'
<1>1. /\ WireTypes /\ state = "working" /\ n \in queued /\ n \in issued /\ n \notin Requests
      /\ queued' = queued \ {n}
      /\ toServer' = Append(toServer, Clear(EncodeMsg(0, RouteOf[n], BodyOf[n])))
      /\ UNCHANGED <<state, secret, dict, code_to_route, req_id, ids, issued, requests, called, events,
                     got, unanswered, answered, toClient>>
  BY WireAssumption DEF WireInv, WireTypes, WriteNotify, server
<1>2. dict \in Dicts /\ n \in Calls /\ 0 \in Nat
  BY <1>1 DEF WireInv, WireDict, Calls
<1>3. PICK e : e = CallMsg(n, 0, dict, secret)
  OBVIOUS
<1>4. toServer' = Append(toServer, e)
  <2>1. EncodeMsg(0, RouteOf[n], BodyOf[n]) = CallBytes(n, 0, dict)
    BY DEF EncodeMsg, CallBytes
  <2>2. e = Clear(CallBytes(n, 0, dict))
    BY <1>3 DEF CallMsg, Masked, Clear
  <2> QED
    BY <1>1, <2>1, <2>2
<1>5. e \in Msgs /\ IdOf(e) = 0
  <2>1. CallBytes(n, 0, dict) \in Seq(Nat)
    BY <1>2, CallIsRead
  <2>2. IdOf(e) = 0
    BY <1>2, <1>3, IdsOnTheWay
  <2> QED
    BY <1>3, <2>1, <2>2 DEF Msgs, CallMsg, Masked
<1>6. /\ toServer' \in Seq(Msgs) /\ Len(toServer') = Len(toServer) + 1 /\ Len(toServer) \in Nat
      /\ \A i \in 1..Len(toServer) : toServer'[i] = toServer[i]
      /\ toServer'[Len(toServer) + 1] = e
      /\ \A i \in 1..Len(toServer') : i \in 1..Len(toServer) \/ i = Len(toServer) + 1
  BY <1>1, <1>4, <1>5, Appended DEF WireTypes
<1>7. Written \subseteq Written' /\ WrittenRequests' = WrittenRequests /\ n \in Written'
  BY <1>1, <1>2 DEF Written, WrittenRequests
<1>8. /\ \A m : IsCall(m) => IsCall(m)'
      /\ \A m : IsAsked(m) => IsAsked(m)'
      /\ \A m : IsAnswer(m) => IsAnswer(m)'
      /\ \A m : IsPush(m) => IsPush(m)'
      /\ \A m : IsRead(m) => IsRead(m)'
      /\ \A x : IsEvent(x) => IsEvent(x)'
  BY <1>1, <1>7, StillWhatItWas
<1>9. WireTypes'
  BY <1>1, <1>6 DEF WireTypes
<1>10. WireStart' /\ WireDict' /\ WireIds' /\ WireMap' /\ WireCalled'
  BY <1>1, <1>7 DEF WireInv, WireStart, WireDict, WireIds, WireMap, WireCalled
<1>11. WireToServer'
  <2>1. IsCall(e)'
    <3>1. CallId(n)' = 0
      BY <1>1 DEF CallId
    <3> QED
      BY <1>1, <1>3, <1>7, <3>1 DEF IsCall
  <2>2. (\A i \in 1..Len(toServer) : IsCall(toServer[i]))'
    BY <1>6, <1>8, <2>1 DEF WireInv, WireToServer
  <2>3. \A i, j \in 1..Len(toServer') :
          IdOf(toServer'[i]) # 0 /\ IdOf(toServer'[i]) = IdOf(toServer'[j]) => i = j
    BY <1>5, <1>6 DEF WireInv, WireToServer
  <2> QED
    BY <2>2, <2>3 DEF WireToServer
<1>12. WireUnanswered' /\ WireToClient' /\ WireRead' /\ WireEvents'
  BY <1>1, <1>8 DEF WireInv, WireUnanswered, WireToClient, WireRead, WireEvents
<1>13. WirePlaces'
  <2>1. \A i \in 1..Len(toServer') : IdOf(toServer'[i]) # 0 =>
          i \in 1..Len(toServer) /\ toServer'[i] = toServer[i]
    BY <1>5, <1>6
  <2> QED
    BY <1>1, <2>1 DEF WireInv, WirePlaces
<1> QED
  BY <1>9, <1>10, <1>11, <1>12, <1>13 DEF WireInv

LEMMA ServerReadsStep ==
  ASSUME WireInv, ServerReads
  PROVE  WireInv'
<1>1. PICK msg : msg = Understood(Rc4(Head(toServer)))
  OBVIOUS
<1>2. /\ WireTypes /\ toServer # <<>> /\ toServer' = Tail(toServer)
      /\ got' = got \cup {msg}
      /\ unanswered' = IF msg.readable /\ msg.type = REQUEST THEN unanswered \cup {msg} ELSE unanswered
      /\ UNCHANGED <<state, secret, dict, code_to_route, req_id, ids, issued, queued, requests, called,
                     events, answered, toClient>>
  BY <1>1 DEF WireInv, ServerReads, client
<1>3. state # "connected" /\ dict \in Dicts
  BY <1>2 DEF WireInv, WireStart, WireDict
<1>4. /\ toServer' \in Seq(Msgs) /\ Len(toServer') = Len(toServer) - 1
      /\ Len(toServer) \in Nat /\ 1 \in 1..Len(toServer)
      /\ \A i \in 1..Len(toServer') : i + 1 \in 1..Len(toServer) /\ toServer'[i] = toServer[i + 1]
      /\ Head(toServer) = toServer[1]
  BY <1>2, Removed DEF WireTypes
<1>5. PICK c \in Written : toServer[1] = CallMsg(c, CallId(c), dict, secret)
  BY <1>4 DEF WireInv, WireToServer, IsCall
<1>6. /\ c \in Calls /\ c \in issued /\ CallId(c) \in Nat /\ (CallId(c) = 0 <=> c \notin Requests)
      /\ c \in Requests => c \in WrittenRequests /\ CallId(c) = ids[c]
  BY <1>2 DEF WireInv, WireTypes, WireIds, CallId, Written, WrittenRequests
<1>7. IdOf(toServer[1]) = CallId(c)
  BY <1>3, <1>5, <1>6, IdsOnTheWay
<1>8. \/ msg = AskedAs(c, CallId(c))
      \/ CallId(c) = 0 /\ secret /\ msg = [readable |-> FALSE]
  BY <1>1, <1>2, <1>3, <1>4, <1>5, <1>6, ServerUnderstands DEF WireTypes
<1>9. \/ c \in Requests /\ msg = AskedAs(c, ids[c]) /\ unanswered' = unanswered \cup {msg}
      \/ c \notin Requests /\ unanswered' = unanswered
  <2>1. CASE c \in Requests
    BY <1>2, <1>6, <1>8, <2>1 DEF AskedAs
  <2>2. CASE c \notin Requests
    BY <1>2, <1>6, <1>8, <2>2, Types DEF AskedAs
  <2> QED
    BY <2>1, <2>2
<1>10. Written' = Written /\ WrittenRequests' = WrittenRequests
  BY <1>2 DEF Written, WrittenRequests
<1>11. /\ \A m : IsCall(m) => IsCall(m)'
       /\ \A m : IsAsked(m) => IsAsked(m)'
       /\ \A m : IsAnswer(m) => IsAnswer(m)'
       /\ \A m : IsPush(m) => IsPush(m)'
       /\ \A m : IsRead(m) => IsRead(m)'
       /\ \A x : IsEvent(x) => IsEvent(x)'
  BY <1>2, <1>10, StillWhatItWas
<1>12. WireTypes'
  BY <1>2, <1>4 DEF WireTypes
<1>13. WireStart' /\ WireDict' /\ WireIds' /\ WireMap' /\ WireCalled'
  BY <1>2, <1>3, <1>10 DEF WireInv, WireStart, WireDict, WireIds, WireMap, WireCalled
<1>14. WireToServer'
  <2>1. (\A i \in 1..Len(toServer) : IsCall(toServer[i]))'
    BY <1>4, <1>11 DEF WireInv, WireToServer
  <2>2. ASSUME NEW i \in 1..Len(toServer'), NEW j \in 1..Len(toServer'),
               IdOf(toServer'[i]) # 0, IdOf(toServer'[i]) = IdOf(toServer'[j])
        PROVE  i = j
    <3>1. i + 1 = j + 1
      BY <1>4, <2>2 DEF WireInv, WireToServer
    <3> QED
      BY <3>1
  <2> QED
    BY <2>1, <2>2 DEF WireToServer
<1>15. WireUnanswered'
  <2>1. c \in Requests /\ msg = AskedAs(c, ids[c]) => IsAsked(msg)
    BY <1>6 DEF IsAsked
  <2> QED
    BY <1>9, <1>11, <2>1 DEF WireInv, WireUnanswered
<1>16. WireToClient' /\ WireEvents'
  BY <1>2, <1>11 DEF WireInv, WireToClient, WireEvents
<1>17. WireRead'
  <2>1. IsRead(msg)
    <3>1. CASE msg = AskedAs(c, CallId(c))
      BY <1>6, <3>1 DEF IsRead
    <3>2. CASE CallId(c) = 0 /\ secret /\ msg = [readable |-> FALSE]
      <4>1. c \in issued \cap Notifies
        BY <1>6, <3>2 DEF Calls
      <4>2. ~msg.readable
        BY <3>2
      <4> QED
        BY <3>2, <4>1, <4>2 DEF IsRead
    <3> QED
      BY <1>8, <3>1, <3>2
  <2> QED
    BY <1>2, <1>11, <2>1 DEF WireInv, WireRead
<1>18. WirePlaces'
  <2>1. c \in Requests => /\ IdOf(toServer[1]) = ids[c] /\ ids[c] # 0
                          /\ msg = AskedAs(c, ids[c]) => msg.id = ids[c]
    BY <1>6, <1>7 DEF AskedAs
  <2>2. ASSUME NEW i \in 1..Len(toServer'), IdOf(toServer'[i]) # 0
        PROVE  /\ IdOf(toServer'[i]) \in DOMAIN requests
               /\ \A u \in unanswered' : u.id # IdOf(toServer'[i])
               /\ \A j \in 1..Len(toClient) : IdOf(toClient[j]) # IdOf(toServer'[i])
    <3>1. /\ i + 1 \in 1..Len(toServer) /\ i + 1 # 1 /\ toServer'[i] = toServer[i + 1]
          /\ IdOf(toServer[i + 1]) # 0
      BY <1>4, <2>2
    <3>2. IdOf(toServer[i + 1]) # IdOf(toServer[1])
      BY <1>4, <3>1 DEF WireInv, WireToServer
    <3> QED
      BY <1>9, <2>1, <3>1, <3>2 DEF WireInv, WirePlaces
  <2>3. ASSUME NEW u \in unanswered'
        PROVE  u.id \in DOMAIN requests /\ \A j \in 1..Len(toClient) : IdOf(toClient[j]) # u.id
    <3>1. CASE u \in unanswered
      BY <3>1 DEF WireInv, WirePlaces
    <3>2. CASE u \notin unanswered
      <4>1. c \in Requests /\ u.id = IdOf(toServer[1]) /\ u.id # 0
        BY <1>9, <2>1, <2>3, <3>2
      <4> QED
        BY <1>4, <4>1 DEF WireInv, WirePlaces
    <3> QED
      BY <3>1, <3>2
  <2> QED
    BY <1>2, <2>2, <2>3 DEF WireInv, WirePlaces
<1> QED
  BY <1>12, <1>13, <1>14, <1>15, <1>16, <1>17, <1>18 DEF WireInv

LEMMA AnswerStep ==
  ASSUME WireInv, NEW msg \in unanswered, Answer(msg)
  PROVE  WireInv'
<1>1. /\ WireTypes /\ unanswered' = unanswered \ {msg} /\ answered' = answered \cup {msg.id}
      /\ toClient' = Append(toClient, Rc4(Clear(EncodeRoute(msg.id, RESPONSE, <<>>, msg.body))))
      /\ UNCHANGED <<state, secret, dict, code_to_route, req_id, ids, issued, queued, requests, called,
                     events, got, toServer>>
  BY DEF WireInv, Answer, client
<1>2. PICK r \in WrittenRequests : msg = AskedAs(r, ids[r])
  BY DEF WireInv, WireUnanswered, IsAsked
<1>3. /\ state # "connected" /\ dict \in Dicts /\ r \in Requests /\ r \in issued
      /\ ids[r] \in Nat /\ ids[r] # 0 /\ msg.id = ids[r] /\ msg.body = BodyOf[r]
  BY <1>1, <1>2 DEF WireInv, WireTypes, WireStart, WireDict, WireIds, WrittenRequests, AskedAs
<1>4. PICK e : e = AnswerMsg(r, ids[r], secret)
  OBVIOUS
<1>5. toClient' = Append(toClient, e)
  BY <1>1, <1>3, <1>4, Rc4Clear DEF AnswerMsg, AnswerBytes, WireTypes
<1>6. e \in Msgs /\ IdOf(e) = ids[r]
  <2>1. AnswerBytes(r, ids[r]) \in Seq(Nat)
    BY <1>3, AnswerIsRead
  <2>2. IdOf(e) = ids[r]
    BY <1>3, <1>4, IdsOnTheWay
  <2> QED
    BY <1>1, <1>4, <2>1, <2>2 DEF Msgs, AnswerMsg, Masked, WireTypes
<1>7. /\ toClient' \in Seq(Msgs) /\ Len(toClient') = Len(toClient) + 1 /\ Len(toClient) \in Nat
      /\ \A i \in 1..Len(toClient) : toClient'[i] = toClient[i]
      /\ toClient'[Len(toClient) + 1] = e
      /\ \A i \in 1..Len(toClient') : i \in 1..Len(toClient) \/ i = Len(toClient) + 1
  BY <1>1, <1>5, <1>6, Appended DEF WireTypes
<1>8. Written' = Written /\ WrittenRequests' = WrittenRequests
  BY <1>1 DEF Written, WrittenRequests
<1>9. /\ \A m : IsCall(m) => IsCall(m)'
      /\ \A m : IsAsked(m) => IsAsked(m)'
      /\ \A m : IsAnswer(m) => IsAnswer(m)'
      /\ \A m : IsPush(m) => IsPush(m)'
      /\ \A m : IsRead(m) => IsRead(m)'
      /\ \A x : IsEvent(x) => IsEvent(x)'
  BY <1>1, <1>8, StillWhatItWas
<1>10. WireTypes'
  BY <1>1, <1>3, <1>7 DEF WireTypes
<1>11. WireStart' /\ WireDict' /\ WireIds' /\ WireMap' /\ WireCalled'
  BY <1>1, <1>3, <1>8 DEF WireInv, WireStart, WireDict, WireIds, WireMap, WireCalled
<1>12. WireToServer' /\ WireUnanswered' /\ WireRead' /\ WireEvents'
  BY <1>1, <1>9 DEF WireInv, WireToServer, WireUnanswered, WireRead, WireEvents
<1>13. ids[r] \in DOMAIN requests /\ \A j \in 1..Len(toClient) : IdOf(toClient[j]) # ids[r]
  BY <1>3 DEF WireInv, WirePlaces
<1>14. WireToClient'
  <2>1. IsAnswer(e)'
    BY <1>1, <1>2, <1>4, <1>8 DEF IsAnswer
  <2>2. (\A i \in 1..Len(toClient) : IsAnswer(toClient[i]) \/ IsPush(toClient[i]))'
    BY <1>7, <1>9, <2>1 DEF WireInv, WireToClient
  <2>3. \A i, j \in 1..Len(toClient') :
          IdOf(toClient'[i]) # 0 /\ IdOf(toClient'[i]) = IdOf(toClient'[j]) => i = j
    BY <1>6, <1>7, <1>13 DEF WireInv, WireToClient
  <2> QED
    BY <2>2, <2>3 DEF WireToClient
<1>15. WirePlaces'
  <2>1. ASSUME NEW u \in unanswered' PROVE u.id # ids[r]
    <3>1. u \in unanswered /\ u # msg
      BY <1>1
    <3>2. PICK s \in WrittenRequests : u = AskedAs(s, ids[s])
      BY <3>1 DEF WireInv, WireUnanswered, IsAsked
    <3>3. s # r /\ s \in issued \cap Requests
      BY <1>2, <3>1, <3>2 DEF WrittenRequests
    <3>4. ids[s] # ids[r]
      BY <1>3, <3>3 DEF WireInv, WireIds
    <3> QED
      BY <3>2, <3>4 DEF AskedAs
  <2>2. \A i \in 1..Len(toServer) : IdOf(toServer[i]) # 0 => IdOf(toServer[i]) # ids[r]
    BY <1>3 DEF WireInv, WirePlaces
  <2> QED
    BY <1>1, <1>6, <1>7, <1>13, <2>1, <2>2 DEF WireInv, WirePlaces
<1> QED
  BY <1>10, <1>11, <1>12, <1>14, <1>15 DEF WireInv

LEMMA PushStep ==
  ASSUME WireInv, NEW p \in Pushes, Push(p)
  PROVE  WireInv'
<1>1. /\ WireTypes /\ state # "connected" /\ p \notin issued /\ p \notin Calls
      /\ issued' = issued \cup {p}
      /\ UNCHANGED <<state, secret, dict, code_to_route, req_id, ids, queued, requests, called,
                     events, got, unanswered, answered, toServer>>
  BY WireAssumption DEF WireInv, Push, server, Calls
<1>2. dict \in Dicts /\ 0 \in Nat
  BY <1>1 DEF WireInv, WireDict
<1>3. PICK e : e = PushMsg(p, dict, secret)
  OBVIOUS
<1>4. toClient' = Append(toClient, e)
  <2>1. toClient' = Append(toClient, Rc4(Clear(PushBytes(p, dict))))
    BY DEF Push, PushBytes
  <2> QED
    BY <1>1, <1>3, <2>1, Rc4Clear DEF PushMsg, WireTypes
<1>5. e \in Msgs /\ IdOf(e) = 0
  <2>1. PushBytes(p, dict) \in Seq(Nat)
    BY <1>2, PushIsRead
  <2>2. IdOf(e) = 0
    BY <1>2, <1>3, IdsOnTheWay
  <2> QED
    BY <1>1, <1>3, <2>1, <2>2 DEF Msgs, PushMsg, Masked, WireTypes
<1>6. /\ toClient' \in Seq(Msgs) /\ Len(toClient') = Len(toClient) + 1 /\ Len(toClient) \in Nat
      /\ \A i \in 1..Len(toClient) : toClient'[i] = toClient[i]
      /\ toClient'[Len(toClient) + 1] = e
      /\ \A i \in 1..Len(toClient') : i \in 1..Len(toClient) \/ i = Len(toClient) + 1
  BY <1>1, <1>4, <1>5, Appended DEF WireTypes
<1>7. Written' = Written /\ WrittenRequests' = WrittenRequests /\ issued' \cap Requests = issued \cap Requests
  BY <1>1 DEF Written, WrittenRequests, Calls
<1>8. /\ \A m : IsCall(m) => IsCall(m)'
      /\ \A m : IsAsked(m) => IsAsked(m)'
      /\ \A m : IsAnswer(m) => IsAnswer(m)'
      /\ \A m : IsPush(m) => IsPush(m)'
      /\ \A m : IsRead(m) => IsRead(m)'
      /\ \A x : IsEvent(x) => IsEvent(x)'
  BY <1>1, <1>7, StillWhatItWas
<1>9. WireTypes'
  BY <1>1, <1>6 DEF WireTypes
<1>10. WireStart' /\ WireDict' /\ WireIds' /\ WireMap' /\ WireCalled'
  BY <1>1, <1>7 DEF WireInv, WireStart, WireDict, WireIds, WireMap, WireCalled
<1>11. WireToServer' /\ WireUnanswered' /\ WireRead' /\ WireEvents'
  BY <1>1, <1>8 DEF WireInv, WireToServer, WireUnanswered, WireRead, WireEvents
<1>12. WireToClient'
  <2>1. IsPush(e)'
    BY <1>1, <1>3 DEF IsPush
  <2>2. (\A i \in 1..Len(toClient) : IsAnswer(toClient[i]) \/ IsPush(toClient[i]))'
    BY <1>6, <1>8, <2>1 DEF WireInv, WireToClient
  <2>3. \A i, j \in 1..Len(toClient') :
          IdOf(toClient'[i]) # 0 /\ IdOf(toClient'[i]) = IdOf(toClient'[j]) => i = j
    BY <1>5, <1>6 DEF WireInv, WireToClient
  <2> QED
    BY <2>2, <2>3 DEF WireToClient
<1>13. WirePlaces'
  <2>1. ASSUME NEW j \in 1..Len(toClient')
        PROVE  \/ IdOf(toClient'[j]) = 0
               \/ j \in 1..Len(toClient) /\ toClient'[j] = toClient[j]
    BY <1>5, <1>6
  <2>2. \A msg \in unanswered : msg.id # 0
    <3> SUFFICES ASSUME NEW msg \in unanswered PROVE msg.id # 0
      OBVIOUS
    <3>1. PICK r \in WrittenRequests : msg = AskedAs(r, ids[r])
      BY DEF WireInv, WireUnanswered, IsAsked
    <3> QED
      BY <1>1, <3>1 DEF WireInv, WireTypes, WireIds, WrittenRequests, AskedAs
  <2> QED
    BY <1>1, <2>1, <2>2 DEF WireInv, WirePlaces
<1> QED
  BY <1>9, <1>10, <1>11, <1>12, <1>13 DEF WireInv

\* the first message to the client is taken off, whatever it is
LEMMA DataTaken ==
  ASSUME WireInv, Data
  PROVE  /\ toClient' \in Seq(Msgs) /\ Len(toClient') = Len(toClient) - 1
         /\ Len(toClient) \in Nat /\ 1 \in 1..Len(toClient)
         /\ \A i \in 1..Len(toClient') : i + 1 \in 1..Len(toClient) /\ toClient'[i] = toClient[i + 1]
         /\ Head(toClient) = toClient[1]
         /\ \A i \in 1..Len(toClient') : i + 1 # 1
         /\ state = "working" /\ dict \in Dicts
         /\ UNCHANGED <<secret, dict, code_to_route, req_id, ids, issued, queued, got, unanswered,
                        answered, toServer>>
<1>1. /\ toClient # <<>> /\ toClient' = Tail(toClient) /\ state = "working" /\ toClient \in Seq(Msgs)
      /\ UNCHANGED <<secret, dict, code_to_route, req_id, ids, issued, queued, got, unanswered,
                     answered, toServer>>
  BY DEF WireInv, WireTypes, Data, server
<1>2. dict \in Dicts
  BY <1>1 DEF WireInv, WireDict
<1> QED
  BY <1>1, <1>2, Removed

LEMMA DataAnswer ==
  ASSUME WireInv, Data, NEW r \in WrittenRequests, toClient[1] = AnswerMsg(r, ids[r], secret)
  PROVE  WireInv'
<1>1. /\ toClient' \in Seq(Msgs) /\ Len(toClient') = Len(toClient) - 1
      /\ Len(toClient) \in Nat /\ 1 \in 1..Len(toClient)
      /\ \A i \in 1..Len(toClient') : i + 1 \in 1..Len(toClient) /\ toClient'[i] = toClient[i + 1]
      /\ Head(toClient) = toClient[1]
      /\ state = "working" /\ dict \in Dicts /\ WireTypes
      /\ UNCHANGED <<secret, dict, code_to_route, req_id, ids, issued, queued, got, unanswered,
                     answered, toServer>>
  BY DataTaken DEF WireInv
<1>2. /\ r \in Requests /\ r \in issued /\ ids[r] \in Nat /\ ids[r] # 0 /\ ids[r] > 0
      /\ BodyOf[r] \in Seq(Nat)
  BY <1>1, WireAssumption DEF WireInv, WireTypes, WireIds, WrittenRequests
<1>3. IdOf(toClient[1]) = ids[r]
  <2>1. IdOf(AnswerMsg(r, ids[r], secret)) = ids[r]
    BY <1>1, <1>2, IdsOnTheWay
  <2> QED
    BY <2>1
<1>4. ids[r] \in DOMAIN requests /\ requests[ids[r]] = r
  <2>1. ids[r] \in DOMAIN requests
    BY <1>1, <1>2, <1>3 DEF WireInv, WirePlaces
  <2>2. requests[ids[r]] \in WrittenRequests /\ ids[requests[ids[r]]] = ids[r]
    BY <2>1 DEF WireInv, WireMap
  <2> QED
    BY <1>2, <2>1, <2>2 DEF WireInv, WireIds, WrittenRequests
<1>5. PICK m : m = Rc4(toClient[1])
  OBVIOUS
<1>6. PICK raw : raw = Decode(m.bytes)
  OBVIOUS
<1>7. /\ m.masked = FALSE /\ raw.ok /\ raw.code = 0 /\ raw.id = ids[r] /\ raw.body = BodyOf[r]
  <2>1. LET a == Rc4(AnswerMsg(r, ids[r], secret))
            b == Decode(a.bytes)
        IN a.masked = FALSE /\ b.ok /\ b.code = 0 /\ b.id = ids[r] /\ b.body = BodyOf[r]
    BY <1>1, <1>2, ClientReadsAnswer DEF WireTypes
  <2> QED
    BY <1>5, <1>6, <2>1
<1>8. Parsed(raw)
  <2>1. raw.body \in Bodies
    BY <1>2, <1>7 DEF Bodies, Calls
  <2> QED
    BY <1>4, <1>7, <2>1 DEF Parsed
<1>9. /\ called' = Append(called, <<r, BodyOf[r]>>)
      /\ requests' = [k \in DOMAIN requests \ {ids[r]} |-> requests[k]]
      /\ UNCHANGED <<state, events>>
  <2>1. ~(m.masked \/ ~Parsed(raw)) /\ raw.id > 0
    BY <1>2, <1>7, <1>8
  <2>2. m = Rc4(Head(toClient))
    BY <1>1, <1>5
  <2>3. /\ called' = Append(called, <<requests[raw.id], raw.body>>)
        /\ requests' = [k \in DOMAIN requests \ {raw.id} |-> requests[k]]
        /\ UNCHANGED <<state, events>>
    BY <1>6, <2>1, <2>2 DEF Data
  <2> QED
    BY <1>4, <1>7, <2>3
<1>10. /\ called' \in Seq(Requests \X Seq(Nat)) /\ Len(called') = Len(called) + 1 /\ Len(called) \in Nat
       /\ \A i \in 1..Len(called) : called'[i] = called[i]
       /\ called'[Len(called) + 1] = <<r, BodyOf[r]>>
       /\ \A i \in 1..Len(called') : i \in 1..Len(called) \/ i = Len(called) + 1
  <2>1. <<r, BodyOf[r]>> \in Requests \X Seq(Nat)
    BY <1>2
  <2>2. called \in Seq(Requests \X Seq(Nat))
    BY <1>1 DEF WireTypes
  <2> DEFINE a == Append(called, <<r, BodyOf[r]>>)
  <2>3. /\ a \in Seq(Requests \X Seq(Nat)) /\ Len(a) = Len(called) + 1 /\ Len(called) \in Nat
        /\ \A i \in 1..Len(called) : a[i] = called[i]
        /\ a[Len(called) + 1] = <<r, BodyOf[r]>>
        /\ \A i \in 1..(Len(called) + 1) : i \in 1..Len(called) \/ i = Len(called) + 1
    BY <2>1, <2>2, Appended
  <2>4. called' = a
    BY <1>9
  <2> HIDE DEF a
  <2> QED
    BY <2>3, <2>4
<1>11. Written' = Written /\ WrittenRequests' = WrittenRequests
  BY <1>1 DEF Written, WrittenRequests
<1>12. /\ \A x : IsCall(x) => IsCall(x)'
       /\ \A x : IsAsked(x) => IsAsked(x)'
       /\ \A x : IsAnswer(x) => IsAnswer(x)'
       /\ \A x : IsPush(x) => IsPush(x)'
       /\ \A x : IsRead(x) => IsRead(x)'
       /\ \A x : IsEvent(x) => IsEvent(x)'
  BY <1>1, <1>11, StillWhatItWas
<1>13. WireTypes'
  BY <1>1, <1>9, <1>10 DEF WireTypes
<1>14. WireStart' /\ WireDict' /\ WireIds'
  BY <1>1, <1>9 DEF WireInv, WireStart, WireDict, WireIds
<1>15. WireMap'
  BY <1>1, <1>9, <1>11 DEF WireInv, WireMap
<1>16. WireToServer' /\ WireUnanswered' /\ WireRead' /\ WireEvents'
  BY <1>1, <1>9, <1>12 DEF WireInv, WireToServer, WireUnanswered, WireRead, WireEvents
<1>17. ASSUME NEW i \in 1..Len(toClient')
       PROVE  /\ i + 1 \in 1..Len(toClient) /\ toClient'[i] = toClient[i + 1]
              /\ IdOf(toClient[i + 1]) # ids[r]
  <2>1. i + 1 \in 1..Len(toClient) /\ i + 1 # 1 /\ toClient'[i] = toClient[i + 1]
    BY <1>1
  <2> QED
    BY <1>1, <1>2, <1>3, <2>1 DEF WireInv, WireToClient
<1>18. WireToClient'
  <2>1. (\A i \in 1..Len(toClient) : IsAnswer(toClient[i]) \/ IsPush(toClient[i]))'
    BY <1>12, <1>17 DEF WireInv, WireToClient
  <2>2. ASSUME NEW i \in 1..Len(toClient'), NEW j \in 1..Len(toClient'),
               IdOf(toClient'[i]) # 0, IdOf(toClient'[i]) = IdOf(toClient'[j])
        PROVE  i = j
    <3>1. i + 1 = j + 1
      BY <1>17, <2>2 DEF WireInv, WireToClient
    <3> QED
      BY <3>1
  <2> QED
    BY <2>1, <2>2 DEF WireToClient
<1>19. WirePlaces'
  <2>1. \A i \in 1..Len(toServer) : IdOf(toServer[i]) # 0 => IdOf(toServer[i]) # ids[r]
    BY <1>1, <1>3 DEF WireInv, WirePlaces
  <2>2. \A u \in unanswered : u.id # ids[r]
    BY <1>1, <1>3 DEF WireInv, WirePlaces
  <2> QED
    BY <1>1, <1>9, <1>17, <2>1, <2>2 DEF WireInv, WirePlaces
<1>20. WireCalled'
  <2>1. \A i \in 1..Len(called) : called[i][1] # r
    BY <1>4 DEF WireInv, WireCalled
  <2>2. ids[r] \notin DOMAIN requests' /\ DOMAIN requests' \subseteq DOMAIN requests
    BY <1>9
  <2>3. \A i \in 1..Len(called') :
          /\ called'[i][1] \in WrittenRequests /\ called'[i][2] = BodyOf[called'[i][1]]
          /\ ids[called'[i][1]] \notin DOMAIN requests'
    <3> SUFFICES ASSUME NEW i \in 1..Len(called')
                 PROVE  /\ called'[i][1] \in WrittenRequests /\ called'[i][2] = BodyOf[called'[i][1]]
                        /\ ids[called'[i][1]] \notin DOMAIN requests'
      OBVIOUS
    <3>1. CASE i \in 1..Len(called)
      BY <1>10, <2>2, <3>1 DEF WireInv, WireCalled
    <3>2. CASE i = Len(called) + 1
      <4>1. called'[i][1] = r /\ called'[i][2] = BodyOf[r]
        BY <1>10, <3>2
      <4> QED
        BY <2>2, <4>1
    <3> QED
      BY <1>10, <3>1, <3>2
  <2>4. \A i, j \in 1..Len(called') : called'[i][1] = called'[j][1] => i = j
    <3>1. called'[Len(called) + 1][1] = r
      BY <1>10
    <3> QED
      BY <1>10, <2>1, <3>1 DEF WireInv, WireCalled
  <2> QED
    BY <1>1, <1>11, <2>3, <2>4 DEF WireCalled
<1> QED
  BY <1>13, <1>14, <1>15, <1>16, <1>18, <1>19, <1>20 DEF WireInv

LEMMA DataPush ==
  ASSUME WireInv, Data, NEW p \in issued \cap Pushes, toClient[1] = PushMsg(p, dict, secret)
  PROVE  WireInv'
<1>1. /\ toClient' \in Seq(Msgs) /\ Len(toClient') = Len(toClient) - 1
      /\ Len(toClient) \in Nat /\ 1 \in 1..Len(toClient)
      /\ \A i \in 1..Len(toClient') : i + 1 \in 1..Len(toClient) /\ toClient'[i] = toClient[i + 1]
      /\ Head(toClient) = toClient[1]
      /\ state = "working" /\ dict \in Dicts /\ WireTypes
      /\ UNCHANGED <<secret, dict, code_to_route, req_id, ids, issued, queued, got, unanswered,
                     answered, toServer>>
  BY DataTaken DEF WireInv
<1>2. PICK m : m = Rc4(toClient[1])
  OBVIOUS
<1>3. PICK raw : raw = Decode(m.bytes)
  OBVIOUS
<1>4. /\ m.masked = FALSE /\ Parsed(raw) /\ raw.id = 0 /\ raw.body = BodyOf[p] /\ Route(raw) = RouteOf[p]
  <2>1. \A r \in DOMAIN dict : LowByte(dict[r]) \in DOMAIN code_to_route
                               /\ code_to_route[LowByte(dict[r])] = r
    BY <1>1 DEF WireInv, WireDict
  <2>2. secret \in BOOLEAN /\ dict \in Dicts /\ p \in Pushes
    BY <1>1 DEF WireTypes
  <2>3. LET b == Decode(Rc4(PushMsg(p, dict, secret)).bytes)
        IN /\ Rc4(PushMsg(p, dict, secret)).masked = FALSE
           /\ Parsed(b) /\ b.id = 0 /\ b.body = BodyOf[p] /\ Route(b) = RouteOf[p]
    BY <2>1, <2>2, ClientReadsPush
  <2> QED
    BY <1>2, <1>3, <2>3
<1>5. events' = events \cup {<<RouteOf[p], BodyOf[p]>>} /\ UNCHANGED <<state, requests, called>>
  BY <1>1, <1>2, <1>3, <1>4 DEF Data
<1>6. Written' = Written /\ WrittenRequests' = WrittenRequests
  BY <1>1 DEF Written, WrittenRequests
<1>7. /\ \A x : IsCall(x) => IsCall(x)'
      /\ \A x : IsAsked(x) => IsAsked(x)'
      /\ \A x : IsAnswer(x) => IsAnswer(x)'
      /\ \A x : IsPush(x) => IsPush(x)'
      /\ \A x : IsRead(x) => IsRead(x)'
      /\ \A x : IsEvent(x) => IsEvent(x)'
  BY <1>1, <1>6, StillWhatItWas
<1>8. WireTypes'
  BY <1>1, <1>5 DEF WireTypes
<1>9. WireStart' /\ WireDict' /\ WireIds' /\ WireMap' /\ WireCalled'
  BY <1>1, <1>5, <1>6 DEF WireInv, WireStart, WireDict, WireIds, WireMap, WireCalled
<1>10. WireToServer' /\ WireUnanswered' /\ WireRead'
  BY <1>1, <1>7 DEF WireInv, WireToServer, WireUnanswered, WireRead
<1>11. WireEvents'
  <2>1. IsEvent(<<RouteOf[p], BodyOf[p]>>)
    BY DEF IsEvent
  <2> QED
    BY <1>5, <1>7, <2>1 DEF WireInv, WireEvents
<1>12. WireToClient'
  <2>1. (\A i \in 1..Len(toClient) : IsAnswer(toClient[i]) \/ IsPush(toClient[i]))'
    BY <1>1, <1>7 DEF WireInv, WireToClient
  <2>2. ASSUME NEW i \in 1..Len(toClient'), NEW j \in 1..Len(toClient'),
               IdOf(toClient'[i]) # 0, IdOf(toClient'[i]) = IdOf(toClient'[j])
        PROVE  i = j
    <3>1. i + 1 = j + 1
      BY <1>1, <2>2 DEF WireInv, WireToClient
    <3> QED
      BY <3>1
  <2> QED
    BY <2>1, <2>2 DEF WireToClient
<1>13. WirePlaces'
  BY <1>1, <1>5 DEF WireInv, WirePlaces
<1> QED
  BY <1>8, <1>9, <1>10, <1>11, <1>12, <1>13 DEF WireInv

LEMMA DataStep == ASSUME WireInv, Data PROVE WireInv'
<1>1. 1 \in 1..Len(toClient)
  BY DataTaken
<1>2. IsAnswer(toClient[1]) \/ IsPush(toClient[1])
  BY <1>1 DEF WireInv, WireToClient
<1> QED
  BY <1>2, DataAnswer, DataPush DEF IsAnswer, IsPush

LEMMA WireStutter == ASSUME WireInv, UNCHANGED vars PROVE WireInv'
<1>1. UNCHANGED <<state, secret, dict, code_to_route, req_id, ids, issued, queued, requests, called,
                  events, got, unanswered, answered, toServer, toClient>>
  BY DEF vars, client, server
<1>2. Written' = Written /\ WrittenRequests' = WrittenRequests
  BY <1>1 DEF Written, WrittenRequests
<1>3. /\ \A x : IsCall(x) => IsCall(x)'
      /\ \A x : IsAsked(x) => IsAsked(x)'
      /\ \A x : IsAnswer(x) => IsAnswer(x)'
      /\ \A x : IsPush(x) => IsPush(x)'
      /\ \A x : IsRead(x) => IsRead(x)'
      /\ \A x : IsEvent(x) => IsEvent(x)'
  BY <1>1, <1>2, StillWhatItWas
<1>4. WireTypes' /\ WireStart' /\ WireDict' /\ WireIds' /\ WireMap' /\ WirePlaces' /\ WireCalled'
  BY <1>1, <1>2 DEF WireInv, WireTypes, WireStart, WireDict, WireIds, WireMap, WirePlaces, WireCalled
<1>5. WireToServer' /\ WireUnanswered' /\ WireToClient' /\ WireRead' /\ WireEvents'
  BY <1>1, <1>3 DEF WireInv, WireToServer, WireUnanswered, WireToClient, WireRead, WireEvents
<1> QED
  BY <1>4, <1>5 DEF WireInv

LEMMA WireStep == WireInv /\ [Next]_vars => WireInv'
<1> SUFFICES ASSUME WireInv, [Next]_vars PROVE WireInv'
  OBVIOUS
<1>1. ASSUME NEW d \in Dicts, NEW key \in BOOLEAN, Handshake(d, key) PROVE WireInv'
  BY <1>1, HandshakeStep
<1>2. ASSUME NEW r \in Requests, Request(r) PROVE WireInv'
  BY <1>2, RequestStep
<1>3. ASSUME NEW r \in Requests, WriteRequest(r) PROVE WireInv'
  BY <1>3, WriteRequestStep
<1>4. ASSUME NEW n \in Notifies, Notify(n) PROVE WireInv'
  BY <1>4, NotifyStep
<1>5. ASSUME NEW n \in Notifies, WriteNotify(n) PROVE WireInv'
  BY <1>5, WriteNotifyStep
<1>6. CASE Data
  BY <1>6, DataStep
<1>7. CASE ServerReads
  BY <1>7, ServerReadsStep
<1>8. ASSUME NEW msg \in unanswered, Answer(msg) PROVE WireInv'
  BY <1>8, AnswerStep
<1>9. ASSUME NEW p \in Pushes, Push(p) PROVE WireInv'
  BY <1>9, PushStep
<1>10. CASE UNCHANGED vars
  BY <1>10, WireStutter
<1> QED
  BY <1>1, <1>2, <1>3, <1>4, <1>5, <1>6, <1>7, <1>8, <1>9, <1>10 DEF Next

LEMMA WireAlways == Spec => []WireInv
<1>1. Init => WireInv
  BY WireInit
<1> QED
  BY <1>1, WireStep, PTL DEF Spec

\* what TypeOK says is in the invariant
LEMMA TypeOKHolds == ASSUME WireInv PROVE TypeOK
<1>1. dict \in Dicts \cup {<<>>}
  BY DEF WireInv, WireStart, WireDict
<1>2. \A k \in DOMAIN requests : k \in 1..req_id /\ requests[k] \in Requests
  BY DEF WireInv, WireMap, WireIds, WrittenRequests
<1> QED
  BY <1>1, <1>2 DEF WireInv, WireTypes, TypeOK, Range
-----------------------------------------------------------------------------
(* The theorems *)

(* Every variable has its type, and the map of the requests only ids that were given out
   (pc_request, pc__request). *)
THEOREM WireTypeCorrect == Spec => []TypeOK
<1>1. WireInv => TypeOK
  BY TypeOKHolds
<1> QED
  BY <1>1, WireAlways, PTL

(* The server reads of every call what was asked, whatever the dictionary and however many
   bytes an id takes, but for a notify on an encrypted connection (pc__request, pc__notify). *)
THEOREM ServerReadsWhatIsAsked == Spec => []ServerReadsCalls
<1>1. WireInv => ServerReadsCalls
  BY WireInvImplies
<1> QED
  BY <1>1, WireAlways, PTL

(* Each callback gets the answer to its own request, and once (pc__process_response). *)
THEOREM AnswersAreRight == Spec => []RightAnswer
<1>1. WireInv => RightAnswer
  BY WireInvImplies
<1> QED
  BY <1>1, WireAlways, PTL

(* Each push is emitted under its own route (pc__resolve_dictionary). *)
THEOREM EventsAreRight == Spec => []RightEvent
<1>1. WireInv => RightEvent
  BY WireInvImplies
<1> QED
  BY <1>1, WireAlways, PTL

(* No message of such a server stops the client (pc__default_msg_parse_cb, pc__pkg_cb). *)
THEOREM ClientNotStopped == Spec => []NeverStopped
<1>1. WireInv => NeverStopped
  BY WireInvImplies
<1> QED
  BY <1>1, WireAlways, PTL
=============================================================================
