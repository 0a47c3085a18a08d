---------------------------- MODULE PackageParser ----------------------------
(***************************************************************************)
(* The incremental parser of Pomelo packages, package.c, and the reads     *)
(* that feed it (transport.c).                                             *)
(*                                                                         *)
(* A package is a type, a big-endian length of three bytes and a body.     *)
(* TCP hands the stream over in buffers of any size; pc_pkg_parser_feed    *)
(* works through one buffer in a loop, keeps what is left over in the      *)
(* parser, and calls pc_pkg_cb for every package it completes.  A step is  *)
(* one turn of pc__pkg_head or pc__pkg_body.  malloc succeeds.             *)
(*                                                                         *)
(* The bytes of a type and of a body are any values; those of a length are *)
(* the digits of a number to the base Radix, which is 256 in the code.     *)
(***************************************************************************)
EXTENDS Naturals, Sequences

CONSTANTS
  Radix,      \* values of a byte
  Types,      \* pc_pkg_type
  Contents,   \* what a byte of a body can be
  Bodies,     \* bodies the two sides may want to send
  SendMax     \* bound: packages written on a connection

ASSUME ParserAssumption ==
  /\ Radix \in Nat /\ Radix > 1
  /\ SendMax \in Nat
  /\ Bodies \subseteq Seq(Contents)

HeadBytes == 4                      \* PC_PKG_HEAD_BYTES
MaxBodyBytes == Radix * (Radix * Radix)  \* PC_PKG_MAX_BODY_BYTES

BodyLen(p) == Len(p.body)

\* pc_pkg_encode refuses the other ones
Packages == {p \in [type : Types, body : Bodies] : BodyLen(p) < MaxBodyBytes}

VARIABLES
  sent,       \* the packages written on the connection
  stream,     \* their bytes
  starts,     \* where each of them begins, and the next one will
  pos, nread, \* the parser is at data[offset], the pos-th byte; the buffer ends at nread
  at,         \* where pc_pkg_parser_feed is
  pstate,     \* pc_pkg_parser_t.state
  head,       \* head_buf, up to head_offset
  pkg_size,
  pkg_buf,    \* up to pkg_offset
  called      \* the packages pc_pkg_cb was called with

wire   == <<sent, stream, starts>>
parser == <<pstate, head, pkg_size, pkg_buf>>
vars   == <<wire, pos, nread, at, parser, called>>

\* FAULT: the last byte comes first
LittleEndian(n) == <<n % Radix, (n \div Radix) % Radix, ((n \div Radix) \div Radix) % Radix>>

\* the three bytes of a length, the last one written first
LenBytes(n) == <<((n \div Radix) \div Radix) % Radix, (n \div Radix) % Radix, n % Radix>>

\* FAULT: the middle byte is not shifted
UnshiftedLength(b) == (b[2] * Radix + b[3]) + b[4]

\* the length pc__pkg_head reads from a complete head
PkgLength(b) == (b[2] * Radix + b[3]) * Radix + b[4]

\* pc_pkg_encode
Encode(p) == <<p.type>> \o LenBytes(BodyLen(p)) \o p.body

Minimum(a, b) == IF a < b THEN a ELSE b

\* the next n bytes of the buffer
Bytes(n) == SubSeq(stream, pos + 1, pos + n)

\* pc_pkg_parser_init
Init ==
  /\ sent = <<>> /\ stream = <<>> /\ starts = <<0>>
  /\ pos = 0 /\ nread = 0 /\ at = "idle"
  /\ pstate = "head" /\ head = <<>> /\ pkg_size = 0 /\ pkg_buf = <<>>
  /\ called = <<>>

\* the server writes a package
Write(p) ==
  /\ Len(sent) < SendMax
  /\ sent' = Append(sent, p)
  /\ stream' = stream \o Encode(p)
  /\ starts' = Append(starts, Len(stream'))
  /\ UNCHANGED <<pos, nread, at, parser, called>>

\* pc_tp_on_tcp_read: libuv has read some of the bytes that are there
TcpRead(n) ==
  /\ at = "idle" /\ pstate # "closed"
  /\ pos + n <= Len(stream)
  /\ nread' = pos + n /\ at' = "loop"
  /\ UNCHANGED <<wire, pos, parser, called>>

\* FAULT: the body waits for the next turn of the loop, an empty one as well
BodyNextTurn(done) == "loop"

\* the rest of the turn: with the head complete, pc__pkg_body follows at once
AfterHead(done) == IF done THEN "body" ELSE "loop"

\* memcpy to head_buf + head_offset
HeadWith(n) == head \o Bytes(n)

\* pc__pkg_head
PkgHead ==
  LET n == Minimum(HeadBytes - Len(head), nread - pos)
      done == Len(head) + n = HeadBytes
  IN /\ at = "loop" /\ pos < nread /\ pstate = "head"
     /\ head' = HeadWith(n)
     /\ pos' = pos + n
     /\ IF done THEN pstate' = "body" /\ pkg_size' = PkgLength(head') /\ pkg_buf' = <<>>
                ELSE UNCHANGED <<pstate, pkg_size, pkg_buf>>
     /\ at' = AfterHead(done)
     /\ UNCHANGED <<wire, nread, called>>

\* FAULT: pc_pkg_parser_reset leaves the offset of the head
HeadStays == pstate' = "head" /\ pkg_size' = 0 /\ pkg_buf' = <<>> /\ UNCHANGED head

\* pc_pkg_parser_reset
Reset == pstate' = "head" /\ head' = <<>> /\ pkg_size' = 0 /\ pkg_buf' = <<>>

\* FAULT: the rest of the buffer is taken for the body
BodyTakesAll == nread - pos

\* what pc__pkg_body copies
BodyCopies == Minimum(pkg_size - Len(pkg_buf), nread - pos)

\* pc__pkg_body, which calls pc_pkg_cb and resets the parser after the last byte
PkgBody ==
  LET body == pkg_buf \o Bytes(BodyCopies)
  IN /\ pstate = "body" /\ (at = "body" \/ (at = "loop" /\ pos < nread))
     /\ pos' = pos + BodyCopies
     /\ IF Len(body) = pkg_size
          THEN called' = Append(called, [type |-> head[1], body |-> body]) /\ Reset
          ELSE pkg_buf' = body /\ UNCHANGED <<pstate, head, pkg_size, called>>
     /\ at' = "loop"
     /\ UNCHANGED <<wire, nread>>

\* pc_pkg_parser_feed returns
FeedEnd ==
  /\ at = "loop" /\ pos = nread
  /\ at' = "idle"
  /\ UNCHANGED <<wire, pos, nread, parser, called>>

\* pc_pkg_parser_destroy, when the client is cleared
Close ==
  /\ at = "idle" /\ pstate # "closed"
  /\ pstate' = "closed"
  /\ UNCHANGED <<wire, pos, nread, at, head, pkg_size, pkg_buf, called>>

Feed == PkgHead \/ PkgBody \/ FeedEnd

Next ==
  \/ \E p \in Packages : Write(p)
  \/ \E n \in 1..(Len(stream) - pos) : TcpRead(n)
  \/ Feed
  \/ Close

Spec == Init /\ [][Next]_vars

\* what has arrived is read in the end, and a feed goes on to its end
FairSpec ==
  /\ Spec
  /\ WF_vars(\E n \in 1..(Len(stream) - pos) : TcpRead(n))
  /\ WF_vars(Feed)
-----------------------------------------------------------------------------
(* Correctness *)

TypeOK ==
  /\ sent \in Seq(Packages) /\ called \in Seq([type : Types, body : Bodies])
  /\ Len(starts) = Len(sent) + 1
  /\ pos \in 0..nread /\ nread \in 0..Len(stream)
  /\ at \in {"idle", "loop", "body"} /\ pstate \in {"head", "body", "closed"}
  /\ Len(head) \in 0..HeadBytes /\ pkg_size \in Nat

(* However the stream was cut, the packages the callback was given are those the
   server wrote, whole and in order (pc__pkg_head, pc__pkg_body). *)
PackagesIntact ==
  /\ Len(called) <= Len(sent)
  /\ \A i \in 1..Len(called) : called[i] = sent[i]

(* Between two reads no package whose last byte was read is held back, one with an
   empty body neither: a heartbeat that waited for the next read would let the
   timeout expire (the order of the two tests in pc_pkg_parser_feed). *)
NothingHeldBack ==
  at = "idle" => \A i \in 1..Len(sent) : starts[i + 1] <= pos => i <= Len(called)

Channel == INSTANCE PackageChannel

(* The parser is a channel of packages (package.h): it makes none up, and loses,
   swaps or repeats none. *)
ImplementsChannel == Channel!Spec

(* Every package that was written reaches the callback, unless the client is
   cleared (pc_pkg_parser_feed). *)
EverySentIsCalled == \A n \in 1..SendMax : Len(sent) >= n ~> Len(called) >= n \/ pstate = "closed"
=============================================================================
