----------------------------- MODULE PomeloWire -----------------------------
(***************************************************************************)
(* What requests, notifies, answers and pushes look like on the wire, and  *)
(* how an answer finds its request: message.c, protocol.c, the dictionary  *)
(* of pkg-handshake.c, and the encoding in network.c.                      *)
(*                                                                         *)
(* A message is a flag, an id in digits of seven bits with a continuation  *)
(* bit, a route (a string with its length, or a code of the dictionary)    *)
(* and a body.  RC4 with the key of the handshake is an involution: it     *)
(* masks what is in clear, and unmasks what is masked.  The server reads   *)
(* and writes what the client's functions do.  malloc succeeds, and so     *)
(* does the encoding of a body.                                            *)
(*                                                                         *)
(* One connection, which stays up: PomeloClient has the other behaviours,  *)
(* and PackageParser how a message gets through in one piece.              *)
(***************************************************************************)
EXTENDS Naturals, Sequences, SequencesExt

CONSTANTS
  Half,       \* half the values of a byte: the part of an id in one byte
  Requests, Notifies, Pushes,  \* calls of the user, and pushes of the server
  RouteOf,    \* the route of each of them, a sequence of bytes
  BodyOf,     \* and the body
  Dicts,      \* dictionaries of a server: functions from routes to codes
  FirstIds    \* pc__req_id when the connection begins: other ones came before

Byte == 2 * Half

ASSUME WireAssumption ==
  /\ Half \in Nat \ {0, 1}
  /\ FirstIds \subseteq Nat
  /\ Requests \cap Notifies = {} /\ Pushes \cap (Requests \cup Notifies) = {}
  /\ \A c \in Requests \cup Notifies \cup Pushes : RouteOf[c] \in Seq(Nat) /\ BodyOf[c] \in Seq(Nat)
  \* the length of a route has one byte
  /\ \A d \in Dicts, c \in Requests \cup Notifies : RouteOf[c] \in DOMAIN d \/ Len(RouteOf[c]) < Byte
  \* the length of a route is read into a signed char, so that a longer one must have a code
  /\ \A d \in Dicts, p \in Pushes : RouteOf[p] \in DOMAIN d \/ Len(RouteOf[p]) < Half
  \* the client keeps the low byte of a code
  /\ \A d \in Dicts : \A r, s \in DOMAIN d : d[r] % Byte = d[s] % Byte => r = s
  /\ \A d \in Dicts : \A r \in DOMAIN d : d[r] \in 1..((Byte * Byte) - 1)

Calls == Requests \cup Notifies

VARIABLES
  state,       \* PC_ST_CONNECTED until the handshake is over, PC_ST_WORKING, or stopped
  secret,      \* client->secret is set
  dict,        \* route_to_code
  code_to_route,
  req_id,      \* pc__req_id
  ids,         \* req->id, 0 at first
  issued,      \* calls made: each request and notify object is used once
  queued,      \* calls with an asynchronous handle that was sent
  requests,    \* client->requests, from ids to requests
  toServer, toClient,  \* messages on the way
  got,         \* what the server has read: the raw messages
  unanswered,  \* and those of them it has to answer
  answered,    \* requests whose answer was sent (history)
  called,      \* callbacks of requests: the request and the body (history)
  events       \* events emitted: the route and the body (history)

client == <<state, secret, dict, code_to_route, req_id, ids, issued, queued, requests, called, events>>
server == <<got, unanswered, answered>>
vars == <<client, server, toServer, toClient>>
-----------------------------------------------------------------------------
(* message.c *)

\* pc_msg_type
REQUEST == 0
NOTIFY == 1
RESPONSE == 2
PUSH == 3

HasId(type) == type \in {REQUEST, RESPONSE}   \* PC_MSG_HAS_ID
HasRoute(type) == type # RESPONSE             \* PC_MSG_HAS_ROUTE

\* pc__msg_encode_id
EncodeId[n \in Nat] ==
  IF n < Half THEN <<n>> ELSE <<Half + (n % Half)>> \o EncodeId[n \div Half]

Flag(type, compress) == 2 * type + (IF compress THEN 1 ELSE 0)
IdPart(type, id) == IF HasId(type) THEN EncodeId[id] ELSE <<>>

\* pc_msg_encode_route
EncodeRoute(id, type, route, body) ==
  <<Flag(type, FALSE)>> \o IdPart(type, id)
    \o (IF HasRoute(type) THEN <<Len(route) % Byte>> \o route ELSE <<>>) \o body

\* FAULT: the low byte first
LowFirst(code) == <<code % Byte, (code \div Byte) % Byte>>

CodeBytes(code) == <<(code \div Byte) % Byte, code % Byte>>

\* pc_msg_encode_code
EncodeCode(id, type, code, body) ==
  <<Flag(type, TRUE)>> \o IdPart(type, id)
    \o (IF HasRoute(type) THEN CodeBytes(code) ELSE <<>>) \o body

\* the bytes of the id of a message
IdLength(m) ==
  CHOOSE n \in 1..(Len(m) - 1) : m[n + 1] < Half /\ \A k \in 2..n : m[k] >= Half

\* FAULT: the first digit counts most
BigEndianId(digits) == FoldLeft(LAMBDA id, b : (Half * id) + (b % Half), 0, digits)

\* the loop over the bytes of an id: each counts Half times as much as the one before
Value[digits \in Seq(Nat)] ==
  IF digits = <<>> THEN 0 ELSE (Head(digits) % Half) + (Half * Value[Tail(digits)])

DecodeId(digits) == Value[digits]

\* pc_msg_decode.  A route as long as Half or longer has a negative length, and no memory
Decode(m) ==
  LET type == m[1] \div 2
      compress == m[1] % 2 = 1
      n == IF HasId(type) THEN IdLength(m) ELSE 0
      rest == SubSeq(m, n + 2, Len(m))
      routeLen == CASE ~HasRoute(type) -> 0 [] compress -> 2 [] OTHER -> rest[1] + 1
  IN [ok    |-> routeLen <= Len(rest) /\ (HasRoute(type) /\ ~compress => rest[1] < Half),
      type  |-> type,
      id    |-> DecodeId(SubSeq(m, 2, n + 1)),
      code  |-> IF HasRoute(type) /\ compress THEN (rest[1] * Byte) + rest[2] ELSE 0,
      route |-> IF HasRoute(type) /\ ~compress THEN SubSeq(rest, 2, routeLen) ELSE <<>>,
      body  |-> SubSeq(rest, routeLen + 1, Len(rest))]

-----------------------------------------------------------------------------
(* protocol.c *)

\* FAULT: the high byte of a code is kept
HighByte(code) == code \div Byte

\* code & 0xff
LowByte(code) == code % Byte

\* pc__default_msg_encode_cb
EncodeMsg(id, route, body) ==
  LET type == IF id = 0 THEN NOTIFY ELSE REQUEST
  IN IF route \in DOMAIN dict THEN EncodeCode(id, type, dict[route], body)
                              ELSE EncodeRoute(id, type, route, body)

\* rc4 with client->secret, if there is one
Rc4(msg) == IF secret THEN [msg EXCEPT !.masked = ~@] ELSE msg

Clear(bytes) == [masked |-> FALSE, bytes |-> bytes]

\* the bodies json_loadb accepts, or that there is none
Bodies == {BodyOf[c] : c \in Calls \cup Pushes} \cup {<<>>}

\* pc__resolve_dictionary knows the code
Resolved(code) == LowByte(code) \in DOMAIN code_to_route

\* the route of a message: from the dictionary, or as it came
Route(raw) == IF raw.code > 0 THEN code_to_route[LowByte(raw.code)] ELSE raw.route

\* pc__default_msg_parse_cb does not return NULL
Parsed(raw) ==
  /\ raw.ok
  /\ raw.code > 0 => Resolved(raw.code)
  /\ raw.type = RESPONSE => raw.id \in DOMAIN requests
  /\ raw.body \in Bodies
-----------------------------------------------------------------------------
(* The client *)

Init ==
  /\ state = "connected" /\ secret = FALSE /\ dict = <<>> /\ code_to_route = <<>>
  /\ req_id \in FirstIds /\ ids = [r \in Requests |-> 0]
  /\ issued = {} /\ queued = {} /\ requests = <<>>
  /\ toServer = <<>> /\ toClient = <<>>
  /\ got = {} /\ unanswered = {} /\ answered = {}
  /\ called = <<>> /\ events = {}

\* pc__handshake_resp, and the end of the handshake
Handshake(d, key) ==
  /\ state = "connected"
  /\ state' = "working" /\ secret' = key
  /\ dict' = d
  /\ code_to_route' = [c \in {LowByte(d[r]) : r \in DOMAIN d} |->
                         CHOOSE r \in DOMAIN d : LowByte(d[r]) = c]
  /\ UNCHANGED <<req_id, ids, issued, queued, requests, called, events, server, toServer, toClient>>

\* FAULT: the id is used before it is incremented
SameId == req_id

NextId == req_id + 1

\* pc_request, on the user's thread
Request(r) ==
  /\ state = "working" /\ r \notin issued
  /\ req_id' = NextId /\ ids' = [ids EXCEPT ![r] = req_id']
  /\ issued' = issued \cup {r} /\ queued' = queued \cup {r}
  /\ UNCHANGED <<state, secret, dict, code_to_route, requests, called, events, server, toServer, toClient>>

\* pc_notify
Notify(n) ==
  /\ state = "working" /\ n \notin issued
  /\ issued' = issued \cup {n} /\ queued' = queued \cup {n}
  /\ UNCHANGED <<state, secret, dict, code_to_route, req_id, ids, requests, called, events,
                 server, toServer, toClient>>

\* FAULT: a request is not put into the map
NotSet(r) == requests

\* pc_map_set(client->requests, req_id_str, req)
MapSet(r) ==
  [i \in DOMAIN requests \cup {ids[r]} |-> IF i = ids[r] THEN r ELSE requests[i]]

\* pc__request: the asynchronous handles are taken up in any order
WriteRequest(r) ==
  /\ state = "working" /\ r \in queued
  /\ queued' = queued \ {r}
  /\ toServer' = Append(toServer, Rc4(Clear(EncodeMsg(ids[r], RouteOf[r], BodyOf[r]))))
  /\ requests' = MapSet(r)
  /\ UNCHANGED <<state, secret, dict, code_to_route, req_id, ids, issued, called, events,
                 server, toClient>>

\* pc__notify, which does not call rc4
WriteNotify(n) ==
  /\ state = "working" /\ n \in queued
  /\ queued' = queued \ {n}
  /\ toServer' = Append(toServer, Clear(EncodeMsg(0, RouteOf[n], BodyOf[n])))
  /\ UNCHANGED <<state, secret, dict, code_to_route, req_id, ids, issued, requests, called, events,
                 server, toClient>>

\* pc__data, with pc__process_response or pc_emit_event; pc__pkg_cb stops the client
Data ==
  LET msg == Rc4(Head(toClient))
      raw == Decode(msg.bytes)
  IN /\ state = "working" /\ toClient # <<>>
     /\ toClient' = Tail(toClient)
     /\ IF msg.masked \/ ~Parsed(raw)
          THEN state' = "stopped" /\ UNCHANGED <<requests, called, events>>
        ELSE IF raw.id > 0
          THEN /\ called' = Append(called, <<requests[raw.id], raw.body>>)
               /\ requests' = [i \in DOMAIN requests \ {raw.id} |-> requests[i]]
               /\ UNCHANGED <<state, events>>
        ELSE events' = events \cup {<<Route(raw), raw.body>>}
             /\ UNCHANGED <<state, requests, called>>
     /\ UNCHANGED <<secret, dict, code_to_route, req_id, ids, issued, queued, server, toServer>>
-----------------------------------------------------------------------------
(* The server *)

\* what the server makes of a message: its own decoding is the client's
Understood(msg) ==
  LET raw == Decode(msg.bytes)
      known == raw.code = 0 \/ \E r \in DOMAIN dict : dict[r] = raw.code
  IN IF msg.masked \/ ~known THEN [readable |-> FALSE]
     ELSE [readable |-> TRUE, type |-> raw.type, id |-> raw.id, body |-> raw.body,
           route |-> IF raw.code > 0 THEN CHOOSE r \in DOMAIN dict : dict[r] = raw.code
                                     ELSE raw.route]

ServerReads ==
  /\ toServer # <<>>
  /\ toServer' = Tail(toServer)
  /\ LET msg == Understood(Rc4(Head(toServer)))
     IN /\ got' = got \cup {msg}
        /\ unanswered' = IF msg.readable /\ msg.type = REQUEST THEN unanswered \cup {msg}
                                                              ELSE unanswered
  /\ UNCHANGED <<client, answered, toClient>>

\* requests are answered in any order
Answer(msg) ==
  /\ msg \in unanswered
  /\ unanswered' = unanswered \ {msg}
  /\ toClient' = Append(toClient, Rc4(Clear(EncodeRoute(msg.id, RESPONSE, <<>>, msg.body))))
  /\ answered' = answered \cup {msg.id}
  /\ UNCHANGED <<client, got, toServer>>

Push(p) ==
  /\ state # "connected" /\ p \notin issued
  /\ issued' = issued \cup {p}
  /\ toClient' = Append(toClient,
       Rc4(Clear(IF RouteOf[p] \in DOMAIN dict
                   THEN EncodeCode(0, PUSH, dict[RouteOf[p]], BodyOf[p])
                   ELSE EncodeRoute(0, PUSH, RouteOf[p], BodyOf[p]))))
  /\ UNCHANGED <<state, secret, dict, code_to_route, req_id, ids, queued, requests, called, events,
                 server, toServer>>

Next ==
  \/ \E d \in Dicts, key \in BOOLEAN : Handshake(d, key)
  \/ \E r \in Requests : Request(r) \/ WriteRequest(r)
  \/ \E n \in Notifies : Notify(n) \/ WriteNotify(n)
  \/ Data
  \/ ServerReads
  \/ \E msg \in unanswered : Answer(msg)
  \/ \E p \in Pushes : Push(p)

Spec == Init /\ [][Next]_vars

\* the loop of the client goes round; nothing is assumed of the server
FairSpec ==
  /\ Spec
  /\ \A r \in Requests : WF_vars(WriteRequest(r))
  /\ \A n \in Notifies : WF_vars(WriteNotify(n))
  /\ WF_vars(Data)
-----------------------------------------------------------------------------
(* Correctness *)

TypeOK ==
  /\ state \in {"connected", "working", "stopped"} /\ secret \in BOOLEAN
  /\ dict \in Dicts \cup {<<>>}
  /\ req_id \in Nat /\ ids \in [Requests -> Nat]
  /\ issued \subseteq Calls \cup Pushes /\ queued \subseteq issued \cap Calls
  /\ DOMAIN requests \subseteq 1..req_id /\ Range(requests) \subseteq Requests
  /\ answered \subseteq Nat

Asked(c) == [readable |-> TRUE, type |-> IF c \in Requests THEN REQUEST ELSE NOTIFY,
             id |-> IF c \in Requests THEN ids[c] ELSE 0,
             body |-> BodyOf[c], route |-> RouteOf[c]]

(* The server reads of every call what was asked: the kind, the id however many bytes it
   takes, the route, by its code or in full, and the body.  A notify on an encrypted
   connection is the exception: pc__notify writes it in clear, and what the server
   deciphers is not readable (pc_msg_encode_route, pc_msg_encode_code, pc__request). *)
ServerReadsCalls ==
  \A msg \in got : (\E c \in issued \cap Calls : msg = Asked(c))
                   \/ (~msg.readable /\ secret /\ issued \cap Notifies # {})

(* Each callback gets the answer to its own request, and once, whatever the order of the
   writes and of the answers (pc__process_response, pc__req_id). *)
RightAnswer ==
  /\ \A i \in 1..Len(called) : called[i][2] = BodyOf[called[i][1]]
  /\ \A i, j \in 1..Len(called) : called[i][1] = called[j][1] => i = j

(* Each push is emitted under its own route, compressed or not (pc__resolve_dictionary,
   the dictionary of pc__handshake_resp). *)
RightEvent == \A e \in events : \E p \in issued \cap Pushes : e = <<RouteOf[p], BodyOf[p]>>

(* A server that answers what it was asked, once, and pushes what its dictionary allows never
   has the client stopped: an answer always finds its request in the map, which it enters
   after the write and leaves with the answer (pc__pkg_cb, pc__default_msg_parse_cb). *)
NeverStopped == state # "stopped"

(* An answer that was sent reaches the callback (pc__data). *)
AnswersArrive ==
  \A r \in Requests : (ids[r] # 0 /\ ids[r] \in answered) ~> \E i \in 1..Len(called) : called[i][1] = r
=============================================================================
