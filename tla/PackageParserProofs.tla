------------------------ MODULE PackageParserProofs ------------------------
(***************************************************************************)
(* Theorems about PackageParser, for any packages, any number of them and  *)
(* any way of cutting their bytes.                                         *)
(***************************************************************************)
EXTENDS PackageParser, TLAPS

\* what the stream is made of
Octets == Types \cup (0..(Radix - 1)) \cup Contents

\* the package the parser is at, and how many bytes of it have been taken
At   == Len(called) + 1
Held == Len(head) + Len(pkg_buf)

\* the lengths and kinds of the variables
ShapeInv ==
  /\ sent \in Seq(Packages) /\ called \in Seq(Packages)
  /\ stream \in Seq(Octets) /\ starts \in Seq(Nat)
  /\ pos \in Nat /\ nread \in Nat /\ pkg_size \in Nat
  /\ head \in Seq(Octets) /\ pkg_buf \in Seq(Octets)
  /\ at \in {"idle", "loop", "body"} /\ pstate \in {"head", "body", "closed"}

\* the stream is the packages that were sent, one after the other
WireInv ==
  /\ Len(starts) = Len(sent) + 1
  /\ starts[Len(starts)] = Len(stream)
  /\ \A i \in 1..Len(sent) : starts[i + 1] = starts[i] + HeadBytes + BodyLen(sent[i])
  /\ \A i, j \in 1..Len(starts) : i <= j => starts[i] <= starts[j]
  /\ \A i \in 1..Len(sent) : \A k \in 1..(HeadBytes + BodyLen(sent[i])) :
       stream[starts[i] + k] = Encode(sent[i])[k]

\* where the parser is in the package it is at
PlaceInv ==
  /\ pos <= nread /\ nread <= Len(stream)
  /\ at = "idle" => pos = nread
  /\ at = "body" => pstate = "body"
  /\ pstate = "closed" => at = "idle"
  /\ pstate # "closed" => pos = starts[At] + Held
  /\ Len(head) <= HeadBytes
  /\ pstate = "head" => Len(head) < HeadBytes /\ pkg_buf = <<>>
  /\ pstate = "body" => /\ At <= Len(sent) /\ Len(head) = HeadBytes
                        /\ pkg_size = BodyLen(sent[At])
                        /\ Len(pkg_buf) <= pkg_size
  /\ at # "body" /\ At <= Len(sent) => pos < starts[At + 1]

\* what the parser holds is what the stream has there
HeldInv ==
  pstate # "closed" =>
    /\ \A k \in 1..Len(head) : head[k] = stream[starts[At] + k]
    /\ \A k \in 1..Len(pkg_buf) : pkg_buf[k] = stream[starts[At] + HeadBytes + k]

IInv == ShapeInv /\ WireInv /\ PackagesIntact /\ PlaceInv /\ HeldInv
-----------------------------------------------------------------------------
\* a quotient and a remainder make the number again
LEMMA Division ==
  ASSUME NEW a \in Nat, NEW b \in Nat, b > 0
  PROVE  /\ a \div b \in Nat /\ a % b \in 0..(b - 1)
         /\ a = b * (a \div b) + (a % b)
  OBVIOUS

\* the three bytes of a length are bytes, and are read as that length
LEMMA LengthRoundTrip ==
  ASSUME NEW n \in Nat, n < MaxBodyBytes
  PROVE  /\ \A k \in 1..3 : LenBytes(n)[k] \in 0..(Radix - 1)
         /\ (LenBytes(n)[1] * Radix + LenBytes(n)[2]) * Radix + LenBytes(n)[3] = n
<1> DEFINE q == n \div Radix
           r == q \div Radix
<1>1. Radix \in Nat /\ Radix > 0
  BY ParserAssumption
<1>2. q \in Nat /\ n % Radix \in 0..(Radix - 1) /\ n = Radix * q + (n % Radix)
  BY <1>1, Division
<1>3. r \in Nat /\ q % Radix \in 0..(Radix - 1) /\ q = Radix * r + (q % Radix)
  BY <1>1, <1>2, Division
<1> HIDE DEF q, r
<1>4. r < Radix
  <2> SUFFICES ASSUME r >= Radix PROVE FALSE
    BY <1>1, <1>3
  <2>1. Radix * r >= Radix * Radix
    BY <1>1, <1>3
  <2>2. q >= Radix * Radix
    BY <1>1, <1>3, <2>1
  <2>3. Radix * q >= Radix * (Radix * Radix)
    BY <1>1, <1>2, <2>2
  <2>4. n >= Radix * (Radix * Radix)
    BY <1>1, <1>2, <2>3
  <2> QED
    BY <1>1, <2>4 DEF MaxBodyBytes
<1>5. r % Radix = r
  BY <1>1, <1>3, <1>4
<1>6. LenBytes(n) = <<r, q % Radix, n % Radix>>
  BY <1>5 DEF LenBytes, q, r
<1>7. (r * Radix + (q % Radix)) * Radix + (n % Radix) = n
  <2>1. r * Radix + (q % Radix) = q
    BY <1>1, <1>3
  <2>2. q * Radix + (n % Radix) = n
    BY <1>1, <1>2
  <2> QED
    BY <2>1, <2>2
<1> QED
  BY <1>1, <1>2, <1>3, <1>4, <1>6, <1>7

\* what \o does to bytes
LEMMA Concatenation ==
  ASSUME NEW s \in Seq(Octets), NEW t \in Seq(Octets)
  PROVE  /\ s \o t \in Seq(Octets)
         /\ Len(s \o t) = Len(s) + Len(t)
         /\ \A k \in 1..Len(s) : (s \o t)[k] = s[k]
         /\ \A k \in 1..Len(t) : (s \o t)[Len(s) + k] = t[k]
  OBVIOUS

\* what Append does to a sequence
LEMMA Appending ==
  ASSUME NEW S, NEW s \in Seq(S), NEW e \in S
  PROVE  /\ Append(s, e) \in Seq(S)
         /\ Len(Append(s, e)) = Len(s) + 1
         /\ \A k \in 1..Len(s) : Append(s, e)[k] = s[k]
         /\ Append(s, e)[Len(s) + 1] = e
  OBVIOUS

\* a package has a type and a body of a length that can be written
LEMMA PackageFacts ==
  ASSUME NEW p \in Packages
  PROVE  /\ p.type \in Types /\ p.body \in Bodies /\ p.body \in Seq(Contents)
         /\ p = [type |-> p.type, body |-> p.body]
         /\ BodyLen(p) = Len(p.body) /\ BodyLen(p) \in Nat /\ BodyLen(p) < MaxBodyBytes
  BY ParserAssumption DEF Packages, BodyLen

\* pc_pkg_encode puts a head of four bytes before the body
LEMMA EncodeFacts ==
  ASSUME NEW p \in Packages
  PROVE  /\ Encode(p) \in Seq(Octets)
         /\ Len(Encode(p)) = HeadBytes + BodyLen(p)
         /\ Encode(p)[1] = p.type
         /\ PkgLength(Encode(p)) = BodyLen(p)
         /\ \A k \in 1..BodyLen(p) : Encode(p)[HeadBytes + k] = p.body[k]
<1>1. p.type \in Types /\ p.body \in Seq(Contents) /\ BodyLen(p) \in Nat
      /\ BodyLen(p) < MaxBodyBytes
  BY PackageFacts
<1> DEFINE b == LenBytes(BodyLen(p))
<1>2. /\ \A k \in 1..3 : b[k] \in 0..(Radix - 1)
      /\ (b[1] * Radix + b[2]) * Radix + b[3] = BodyLen(p)
  BY <1>1, LengthRoundTrip
<1>3. b = <<b[1], b[2], b[3]>>
  BY DEF LenBytes
<1> HIDE DEF b
<1>4. Encode(p) = <<p.type>> \o <<b[1], b[2], b[3]>> \o p.body
  BY <1>3 DEF Encode, b
<1>5. /\ p.type \in Octets /\ b[1] \in Octets /\ b[2] \in Octets /\ b[3] \in Octets
      /\ p.body \in Seq(Octets)
  BY <1>1, <1>2 DEF Octets
<1> DEFINE h == <<p.type>> \o <<b[1], b[2], b[3]>>
<1>6. /\ h \in Seq(Octets) /\ Len(h) = 4
      /\ h[1] = p.type /\ h[2] = b[1] /\ h[3] = b[2] /\ h[4] = b[3]
  BY <1>5
<1>7. Encode(p) = h \o p.body
  BY <1>4
<1> HIDE DEF h
<1> DEFINE t == p.body
<1>8. t \in Seq(Octets) /\ Len(t) = BodyLen(p)
  BY <1>5 DEF BodyLen
<1> HIDE DEF t
<1>9. /\ h \o t \in Seq(Octets)
      /\ Len(h \o t) = Len(h) + BodyLen(p)
      /\ \A k \in 1..Len(h) : (h \o t)[k] = h[k]
      /\ \A k \in 1..BodyLen(p) : (h \o t)[Len(h) + k] = t[k]
  <2>1. h \in Seq(Octets)
    BY <1>6
  <2>2. /\ h \o t \in Seq(Octets)
        /\ Len(h \o t) = Len(h) + Len(t)
        /\ \A k \in 1..Len(h) : (h \o t)[k] = h[k]
        /\ \A k \in 1..Len(t) : (h \o t)[Len(h) + k] = t[k]
    BY <2>1, <1>8, Concatenation
  <2> QED
    BY <1>8, <2>2
<1>10. /\ Encode(p) \in Seq(Octets)
       /\ Len(Encode(p)) = HeadBytes + BodyLen(p)
       /\ \A k \in 1..4 : Encode(p)[k] = h[k]
       /\ \A k \in 1..BodyLen(p) : Encode(p)[HeadBytes + k] = p.body[k]
  BY <1>6, <1>7, <1>9 DEF HeadBytes, t
<1> QED
  BY <1>2, <1>6, <1>10 DEF PkgLength
-----------------------------------------------------------------------------
\* where the bytes of a package lie
LEMMA Places ==
  ASSUME NEW a \in Nat, NEW h \in Nat, NEW b \in Nat
  PROVE  /\ a + (h + b) = a + h + b
         /\ \A l \in Nat, k \in 1..(h + b) : a + h + b <= l => a + k \in 1..l
  OBVIOUS

\* the initial state
LEMMA InitInv == Init => IInv
<1> SUFFICES ASSUME Init PROVE IInv
  OBVIOUS
<1> USE DEF Init, At, Held, HeadBytes
<1>1. ShapeInv
  <2>1. /\ <<>> \in Seq(Packages) /\ <<>> \in Seq(Octets) /\ <<0>> \in Seq(Nat)
    OBVIOUS
  <2> QED
    BY <2>1 DEF ShapeInv
<1>2. WireInv
  BY DEF WireInv
<1>3. PackagesIntact
  BY DEF PackagesIntact
<1>4. PlaceInv
  BY DEF PlaceInv
<1>5. HeldInv
  BY DEF HeldInv
<1> QED
  BY <1>1, <1>2, <1>3, <1>4, <1>5 DEF IInv

\* the invariant, element by element
LEMMA Facts ==
  ASSUME IInv
  PROVE  /\ Len(sent) \in Nat /\ Len(called) \in Nat /\ Len(stream) \in Nat
         /\ Len(head) \in Nat /\ Len(pkg_buf) \in Nat
         /\ pos \in Nat /\ nread \in Nat /\ pkg_size \in Nat
         /\ Len(starts) = Len(sent) + 1
         /\ starts[Len(sent) + 1] = Len(stream)
         /\ \A i \in 1..(Len(sent) + 1) : starts[i] \in Nat /\ starts[i] <= Len(stream)
         /\ \A i \in 1..Len(sent) : /\ BodyLen(sent[i]) \in Nat
                                     /\ starts[i + 1] = starts[i] + HeadBytes + BodyLen(sent[i])
         /\ At = Len(called) + 1 /\ At \in 1..(Len(sent) + 1)
<1>1. ShapeInv /\ WireInv /\ PackagesIntact
  BY DEF IInv
<1>2. /\ Len(sent) \in Nat /\ Len(called) \in Nat /\ Len(stream) \in Nat
      /\ Len(head) \in Nat /\ Len(pkg_buf) \in Nat
      /\ pos \in Nat /\ nread \in Nat /\ pkg_size \in Nat
  BY <1>1 DEF ShapeInv
<1>3. Len(starts) = Len(sent) + 1 /\ starts[Len(sent) + 1] = Len(stream)
  BY <1>1 DEF WireInv
<1>4. ASSUME NEW i \in 1..(Len(sent) + 1) PROVE starts[i] \in Nat /\ starts[i] <= Len(stream)
  <2>1. i \in 1..Len(starts) /\ Len(starts) \in 1..Len(starts) /\ i <= Len(starts)
    BY <1>2, <1>3
  <2>2. starts[i] <= starts[Len(starts)]
    BY <1>1, <2>1 DEF WireInv
  <2>3. starts[i] \in Nat
    BY <1>1, <2>1 DEF ShapeInv
  <2> QED
    BY <1>3, <2>2, <2>3
<1>5. ASSUME NEW i \in 1..Len(sent)
      PROVE  /\ BodyLen(sent[i]) \in Nat
             /\ starts[i + 1] = starts[i] + HeadBytes + BodyLen(sent[i])
  <2>1. sent[i] \in Packages
    BY <1>1 DEF ShapeInv
  <2> QED
    BY <1>1, <2>1, PackageFacts DEF WireInv
<1>6. At = Len(called) + 1 /\ At \in 1..(Len(sent) + 1)
  BY <1>1, <1>2 DEF At, PackagesIntact
<1> QED
  BY <1>2, <1>3, <1>4, <1>5, <1>6

\* a package is added at the end of the stream, and moves nothing before it
LEMMA WriteInv ==
  ASSUME IInv, NEW p \in Packages, Write(p)
  PROVE  IInv'
<1> DEFINE e == Encode(p)
           N == Len(sent)
           L == Len(stream)
<1>1. ShapeInv /\ WireInv /\ PackagesIntact /\ PlaceInv /\ HeldInv
  BY DEF IInv
<1>2. /\ sent' = Append(sent, p) /\ stream' = stream \o e
      /\ starts' = Append(starts, Len(stream'))
      /\ UNCHANGED <<pos, nread, at, pstate, head, pkg_size, pkg_buf, called>>
  BY DEF Write, parser
<1>3. /\ e \in Seq(Octets) /\ BodyLen(p) \in Nat /\ HeadBytes \in Nat
      /\ Len(e) \in Nat /\ Len(e) = HeadBytes + BodyLen(p) /\ Len(e) > 0
  BY EncodeFacts, PackageFacts DEF HeadBytes
<1>4. /\ N \in Nat /\ L \in Nat
      /\ Len(starts) = N + 1 /\ starts[N + 1] = L
      /\ At \in 1..(N + 1) /\ At = Len(called) + 1 /\ Len(called) \in Nat
      /\ \A i \in 1..(N + 1) : starts[i] \in Nat /\ starts[i] <= L
      /\ \A i \in 1..N : /\ BodyLen(sent[i]) \in Nat
                          /\ starts[i + 1] = starts[i] + HeadBytes + BodyLen(sent[i])
  BY Facts
<1> HIDE DEF e
<1>5. /\ stream' \in Seq(Octets) /\ Len(stream') = L + Len(e)
      /\ \A k \in 1..L : stream'[k] = stream[k]
      /\ \A k \in 1..Len(e) : stream'[L + k] = e[k]
  BY <1>1, <1>2, <1>3, Concatenation DEF ShapeInv
<1>6. /\ sent' \in Seq(Packages) /\ Len(sent') = N + 1
      /\ \A i \in 1..N : sent'[i] = sent[i]
      /\ sent'[N + 1] = p
  BY <1>1, <1>2, Appending DEF ShapeInv
<1>7. /\ starts' \in Seq(Nat) /\ Len(starts') = N + 2
      /\ \A i \in 1..(N + 1) : starts'[i] = starts[i]
      /\ starts'[N + 2] = L + Len(e)
  <2>1. Len(stream') \in Nat /\ starts \in Seq(Nat)
    BY <1>1, <1>3, <1>4, <1>5 DEF ShapeInv
  <2>2. /\ starts' \in Seq(Nat) /\ Len(starts') = Len(starts) + 1
        /\ \A k \in 1..Len(starts) : starts'[k] = starts[k]
        /\ starts'[Len(starts) + 1] = Len(stream')
    BY <1>2, <2>1, Appending
  <2>3. Len(starts) + 1 = N + 2
    BY <1>4
  <2> QED
    BY <1>4, <1>5, <2>2, <2>3
<1> HIDE DEF N, L
<1>8. ShapeInv'
  BY <1>1, <1>2, <1>5, <1>6, <1>7 DEF ShapeInv
<1>9. WireInv'
  <2>1. Len(starts') = Len(sent') + 1 /\ starts'[Len(starts')] = Len(stream')
    BY <1>4, <1>5, <1>6, <1>7
  <2>2. ASSUME NEW i \in 1..Len(sent')
        PROVE  starts'[i + 1] = starts'[i] + HeadBytes + BodyLen(sent'[i])
    <3>1. CASE i \in 1..N
      <4>0. i \in 1..(N + 1) /\ i + 1 \in 1..(N + 1)
        BY <3>1, <1>4
      <4>1. starts'[i] = starts[i] /\ starts'[i + 1] = starts[i + 1] /\ sent'[i] = sent[i]
        BY <3>1, <4>0, <1>6, <1>7
      <4> QED
        BY <3>1, <4>1, <1>4
    <3>2. CASE i = N + 1
      <4>1. starts'[i] = L /\ starts'[i + 1] = L + Len(e) /\ sent'[i] = p
        BY <3>2, <1>4, <1>6, <1>7
      <4>2. L + Len(e) = L + HeadBytes + BodyLen(p)
        <5>1. L \in Nat /\ HeadBytes \in Nat /\ BodyLen(p) \in Nat /\ Len(e) = HeadBytes + BodyLen(p)
          BY <1>3, <1>4
        <5> QED
          BY <5>1, Places
      <4> QED
        BY <4>1, <4>2
    <3> QED
      BY <3>1, <3>2, <1>4, <1>6
  <2>3. ASSUME NEW i \in 1..Len(starts'), NEW j \in 1..Len(starts'), i <= j
        PROVE  starts'[i] <= starts'[j]
    <3>1. CASE j \in 1..(N + 1)
      <4>1. starts'[i] = starts[i] /\ starts'[j] = starts[j] /\ i \in 1..(N + 1)
        BY <2>3, <3>1, <1>4, <1>7
      <4> QED
        BY <2>3, <3>1, <4>1, <1>1, <1>4 DEF WireInv
    <3>2. CASE j = N + 2 /\ i \in 1..(N + 1)
      <4>1. starts'[i] = starts[i] /\ starts'[j] = L + Len(e) /\ starts[i] <= L /\ starts[i] \in Nat
        BY <3>2, <1>4, <1>7
      <4>2. L \in Nat
        BY <1>4
      <4> QED
        BY <4>1, <4>2, <1>3
    <3>3. CASE j = N + 2 /\ i = j
      BY <3>3, <1>3, <1>4, <1>7
    <3> QED
      BY <2>3, <3>1, <3>2, <3>3, <1>4, <1>7
  <2>4. ASSUME NEW i \in 1..Len(sent'), NEW k \in 1..(HeadBytes + BodyLen(sent'[i]))
        PROVE  stream'[starts'[i] + k] = Encode(sent'[i])[k]
    <3>1. CASE i \in 1..N
      <4>1. sent'[i] = sent[i] /\ starts'[i] = starts[i]
        BY <3>1, <1>4, <1>6, <1>7
      <4>2. starts[i] + k \in 1..L
        <5>1. starts[i + 1] = starts[i] + HeadBytes + BodyLen(sent[i]) /\ starts[i + 1] <= L
          BY <3>1, <1>4
        <5>2. k \in 1..(HeadBytes + BodyLen(sent[i])) /\ BodyLen(sent[i]) \in Nat /\ starts[i] \in Nat
          BY <2>4, <3>1, <4>1, <1>4
        <5> QED
          <6>1. L \in Nat /\ HeadBytes \in Nat
            BY <1>3, <1>4
          <6> QED
            BY <5>1, <5>2, <6>1, Places, SMTT(60)
      <4>3. stream[starts[i] + k] = Encode(sent[i])[k]
        BY <2>4, <3>1, <4>1, <1>1 DEF WireInv, N
      <4> QED
        BY <4>1, <4>2, <4>3, <1>5
    <3>2. CASE i = N + 1
      <4>1. sent'[i] = p /\ starts'[i] = L
        BY <3>2, <1>4, <1>6, <1>7
      <4>2. k \in 1..Len(e)
        BY <2>4, <4>1, <1>3
      <4> QED
        BY <4>1, <4>2, <1>5 DEF e
    <3> QED
      BY <3>1, <3>2, <1>4, <1>6
  <2> QED
    BY <2>1, <2>2, <2>3, <2>4 DEF WireInv
<1>10. PackagesIntact'
  BY <1>1, <1>2, <1>4, <1>6 DEF PackagesIntact, N
<1>11. At' = At /\ Held' = Held /\ starts'[At] = starts[At]
  BY <1>2, <1>4, <1>7 DEF At, Held
<1>12. PlaceInv'
  <2>1. nread <= Len(stream')
    <3>1. nread <= L /\ nread \in Nat
      BY <1>1 DEF PlaceInv, ShapeInv, L
    <3> QED
      BY <3>1, <1>3, <1>4, <1>5, SMTT(60)
  <2>2. ASSUME At <= N
        PROVE  At <= Len(sent') /\ sent'[At] = sent[At] /\ starts'[At + 1] = starts[At + 1]
    <3>1. At \in 1..N /\ At + 1 \in 1..(N + 1) /\ N \in Nat
      BY <2>2, <1>4, SMTT(60)
    <3> QED
      BY <3>1, <1>6, <1>7, SMTT(60)
  <2>3. ASSUME at # "body", At <= N + 1
        PROVE  pos < starts'[At + 1]
    <3>1. CASE At <= N
      BY <2>3, <3>1, <2>2, <1>1 DEF PlaceInv, N
    <3>2. CASE At = N + 1
      <4>1. pos <= L /\ pos \in Nat
        BY <1>1 DEF PlaceInv, ShapeInv, L
      <4>2. starts'[At + 1] = L + Len(e)
        BY <3>2, <1>4, <1>7
      <4> QED
        BY <4>1, <4>2, <1>3, <1>4, SMTT(60)
    <3> QED
      BY <3>1, <3>2, <2>3, <1>4
  <2> QED
    BY <2>1, <2>2, <2>3, <1>1, <1>2, <1>6, <1>11 DEF PlaceInv, N
<1>13. HeldInv'
  <2> SUFFICES ASSUME pstate # "closed" PROVE HeldInv'
    BY <1>2 DEF HeldInv
  <2>1. /\ Len(head) \in Nat /\ Len(pkg_buf) \in Nat /\ starts[At] \in Nat /\ pos \in Nat
    BY Facts
  <2>2. pos = starts[At] + (Len(head) + Len(pkg_buf)) /\ pos <= L
    BY <1>1, <2>1 DEF PlaceInv, Held, ShapeInv, L
  <2>3. Len(pkg_buf) > 0 => Len(head) = HeadBytes
    BY <1>1, <2>1 DEF PlaceInv, ShapeInv
  <2>4. ASSUME NEW k \in 1..Len(head) PROVE head[k] = stream'[starts[At] + k]
    <3>1. starts[At] + k \in 1..L
      BY <2>1, <2>2, <1>4, SMTT(60)
    <3> QED
      BY <3>1, <1>1, <1>5 DEF HeldInv
  <2>5. ASSUME NEW k \in 1..Len(pkg_buf)
        PROVE  pkg_buf[k] = stream'[starts[At] + HeadBytes + k]
    <3>1. starts[At] + HeadBytes + k \in 1..L
      <4>1. Len(pkg_buf) > 0 /\ k \in Nat /\ k > 0 /\ k <= Len(pkg_buf)
        BY <2>1
      <4>2. L \in Nat /\ HeadBytes \in Nat
        BY <1>3, <1>4
      <4> QED
        BY ONLY <4>1, <4>2, <2>1, <2>2, <2>3
    <3> QED
      BY <3>1, <1>1, <1>5 DEF HeldInv
  <2>6. starts'[At'] = starts[At] /\ head' = head /\ pkg_buf' = pkg_buf
    BY <1>2, <1>11
  <2> QED
    BY <2>4, <2>5, <2>6 DEF HeldInv
<1> QED
  BY <1>8, <1>9, <1>10, <1>12, <1>13 DEF IInv
-----------------------------------------------------------------------------
\* the next bytes of the buffer
LEMMA BytesFacts ==
  ASSUME IInv, NEW n \in Nat, pos + n <= nread
  PROVE  /\ Bytes(n) \in Seq(Octets) /\ Len(Bytes(n)) = n
         /\ \A k \in 1..n : Bytes(n)[k] = stream[pos + k]
<1>1. stream \in Seq(Octets) /\ pos \in Nat /\ nread \in Nat /\ nread <= Len(stream)
  BY DEF IInv, ShapeInv, PlaceInv
<1>2. pos + n <= Len(stream) /\ Len(stream) \in Nat
  BY <1>1
<1>3. SubSeq(stream, pos + 1, pos + n) \in Seq(Octets)
  BY <1>1, <1>2
<1>4. Len(SubSeq(stream, pos + 1, pos + n)) = n
  BY <1>1, <1>2
<1>5. \A k \in 1..n : SubSeq(stream, pos + 1, pos + n)[k] = stream[pos + k]
  BY <1>1, <1>2
<1> QED
  BY <1>3, <1>4, <1>5 DEF Bytes

\* a read leaves the parser alone
LEMMA TcpReadInv ==
  ASSUME IInv, NEW n \in 1..(Len(stream) - pos), TcpRead(n)
  PROVE  IInv'
<1>1. ShapeInv /\ WireInv /\ PackagesIntact /\ PlaceInv /\ HeldInv
  BY DEF IInv
<1>2. /\ at = "idle" /\ pstate # "closed" /\ pos + n <= Len(stream)
      /\ nread' = pos + n /\ at' = "loop"
      /\ UNCHANGED <<sent, stream, starts, pos, pstate, head, pkg_size, pkg_buf, called>>
  BY DEF TcpRead, wire, parser
<1>3. pos \in Nat /\ Len(stream) \in Nat /\ n \in Nat
  BY <1>1 DEF ShapeInv
<1>4. ShapeInv'
  BY <1>1, <1>2, <1>3 DEF ShapeInv
<1>5. At' = At /\ Held' = Held
  BY <1>2 DEF At, Held
<1>6. WireInv' /\ PackagesIntact' /\ HeldInv'
  BY <1>1, <1>2, <1>5 DEF WireInv, PackagesIntact, HeldInv
<1>7. PlaceInv'
  <2>1. pos <= nread' /\ nread' <= Len(stream)
    BY <1>2, <1>3
  <2> QED
    BY <1>1, <1>2, <1>5, <2>1 DEF PlaceInv
<1> QED
  BY <1>4, <1>6, <1>7 DEF IInv

\* the end of a feed
LEMMA FeedEndInv ==
  ASSUME IInv, FeedEnd
  PROVE  IInv'
<1>1. ShapeInv /\ WireInv /\ PackagesIntact /\ PlaceInv /\ HeldInv
  BY DEF IInv
<1>2. /\ at = "loop" /\ pos = nread /\ at' = "idle"
      /\ UNCHANGED <<sent, stream, starts, pos, nread, pstate, head, pkg_size, pkg_buf, called>>
  BY DEF FeedEnd, wire, parser
<1>3. At' = At /\ Held' = Held
  BY <1>2 DEF At, Held
<1>4. WireInv' /\ PackagesIntact' /\ HeldInv'
  BY <1>1, <1>2, <1>3 DEF WireInv, PackagesIntact, HeldInv
<1>5. ShapeInv' /\ PlaceInv'
  BY <1>1, <1>2, <1>3 DEF ShapeInv, PlaceInv
<1> QED
  BY <1>4, <1>5 DEF IInv

\* the parser is closed between two feeds
LEMMA CloseInv ==
  ASSUME IInv, Close
  PROVE  IInv'
<1>1. ShapeInv /\ WireInv /\ PackagesIntact /\ PlaceInv /\ HeldInv
  BY DEF IInv
<1>2. /\ at = "idle" /\ pstate' = "closed"
      /\ UNCHANGED <<sent, stream, starts, pos, nread, at, head, pkg_size, pkg_buf, called>>
  BY DEF Close, wire
<1>3. At' = At /\ Held' = Held
  BY <1>2 DEF At, Held
<1>4. WireInv' /\ PackagesIntact' /\ HeldInv'
  BY <1>1, <1>2, <1>3 DEF WireInv, PackagesIntact, HeldInv
<1>5. ShapeInv' /\ PlaceInv'
  BY <1>1, <1>2, <1>3 DEF ShapeInv, PlaceInv
<1> QED
  BY <1>4, <1>5 DEF IInv

\* a head that is complete is the head of the package the parser is at
LEMMA HeadOfPackage ==
  ASSUME IInv, NEW h, Len(h) = HeadBytes, starts[At] + HeadBytes <= Len(stream),
         \A k \in 1..Len(h) : h[k] = stream[starts[At] + k]
  PROVE  /\ At \in 1..Len(sent)
         /\ h[1] = sent[At].type /\ PkgLength(h) = BodyLen(sent[At])
<1>1. ShapeInv /\ WireInv
  BY DEF IInv
<1>2. /\ Len(sent) \in Nat /\ Len(stream) \in Nat /\ At \in 1..(Len(sent) + 1)
      /\ starts[Len(sent) + 1] = Len(stream)
  BY Facts
<1>3. At \in 1..Len(sent)
  <2>1. At # Len(sent) + 1
    BY <1>2 DEF HeadBytes
  <2> QED
    BY <1>2, <2>1
<1>4. sent[At] \in Packages
  BY <1>1, <1>3 DEF ShapeInv
<1>5. BodyLen(sent[At]) \in Nat
  BY <1>4, PackageFacts
<1> DEFINE e == Encode(sent[At])
<1>6. \A k \in 1..(HeadBytes + BodyLen(sent[At])) : stream[starts[At] + k] = e[k]
  BY <1>1, <1>3 DEF WireInv
<1> HIDE DEF e
<1>7. \A k \in 1..4 : k \in 1..(HeadBytes + BodyLen(sent[At])) /\ k \in 1..Len(h)
  BY <1>5 DEF HeadBytes
<1>8. \A k \in 1..4 : h[k] = e[k]
  BY <1>6, <1>7
<1>9. h[1] = e[1] /\ h[2] = e[2] /\ h[3] = e[3] /\ h[4] = e[4]
  BY <1>8
<1>10. e[1] = sent[At].type /\ PkgLength(e) = BodyLen(sent[At])
  BY <1>4, EncodeFacts DEF e
<1>11. PkgLength(h) = PkgLength(e)
  BY <1>9 DEF PkgLength
<1> QED
  BY <1>3, <1>9, <1>10, <1>11

\* pc__pkg_head copies what is there of the head
LEMMA PkgHeadInv ==
  ASSUME IInv, PkgHead
  PROVE  IInv'
<1> DEFINE n == Minimum(HeadBytes - Len(head), nread - pos)
           b == Bytes(n)
           H == Len(head)
           S == starts[At]
<1>1. ShapeInv /\ WireInv /\ PackagesIntact /\ PlaceInv /\ HeldInv
  BY DEF IInv
<1>2. /\ at = "loop" /\ pos < nread /\ pstate = "head"
      /\ head' = head \o b /\ pos' = pos + n
      /\ UNCHANGED <<sent, stream, starts, nread, called>>
  BY DEF PkgHead, HeadWith, wire
<1>3. \/ /\ H + n = HeadBytes /\ at' = "body" /\ pstate' = "body"
         /\ pkg_size' = PkgLength(head') /\ pkg_buf' = <<>>
      \/ /\ H + n # HeadBytes /\ at' = "loop"
         /\ UNCHANGED <<pstate, pkg_size, pkg_buf>>
  BY DEF PkgHead, AfterHead
<1>4. /\ H \in Nat /\ H < HeadBytes /\ HeadBytes \in Nat /\ pos \in Nat /\ nread \in Nat
      /\ pkg_buf = <<>> /\ S \in Nat /\ Len(stream) \in Nat /\ nread <= Len(stream)
  BY <1>1, <1>2, Facts DEF PlaceInv, HeadBytes
<1>5. n \in Nat /\ n > 0 /\ H + n <= HeadBytes /\ pos + n <= nread
  BY <1>2, <1>4 DEF Minimum
<1>6. pos = S + H
  BY <1>1, <1>2, <1>4 DEF PlaceInv, Held
<1> HIDE DEF n
<1>7. /\ b \in Seq(Octets) /\ Len(b) = n
      /\ \A k \in 1..n : b[k] = stream[pos + k]
  BY <1>5, BytesFacts
<1>8. head \in Seq(Octets)
  BY <1>1 DEF ShapeInv
<1> HIDE DEF b
<1>9. /\ head' \in Seq(Octets) /\ Len(head') = H + n
      /\ \A k \in 1..H : head'[k] = head[k]
      /\ \A k \in 1..n : head'[H + k] = b[k]
  BY <1>2, <1>7, <1>8, Concatenation
<1>10. \A k \in 1..H : head[k] = stream[S + k]
  BY <1>1, <1>2 DEF HeldInv
<1> HIDE DEF H, S
<1>11. ASSUME NEW k \in 1..Len(head') PROVE head'[k] = stream[S + k]
  <2>1. CASE k \in 1..H
    BY <2>1, <1>9, <1>10
  <2>2. CASE k \notin 1..H
    <3>1. k - H \in 1..n /\ k = H + (k - H) /\ pos + (k - H) = S + k
      BY <2>2, <1>4, <1>5, <1>6, <1>9
    <3> QED
      BY <3>1, <1>7, <1>9
  <2> QED
    BY <2>1, <2>2
<1>12. At' = At /\ starts'[At'] = S /\ pos' = S + (H + n)
  BY <1>2, <1>4, <1>5, <1>6, SMTT(60) DEF At, S
<1>13. WireInv' /\ PackagesIntact'
  BY <1>1, <1>2 DEF WireInv, PackagesIntact
<1>14. CASE H + n # HeadBytes
  <2>1. at' = "loop" /\ UNCHANGED <<pstate, pkg_size, pkg_buf>> /\ H + n < HeadBytes
    BY <1>3, <1>4, <1>5, <1>14
  <2>2. ShapeInv'
    <3>1. pos' \in Nat
      BY <1>2, <1>4, <1>5
    <3> QED
      BY <3>1, <2>1, <1>1, <1>2, <1>9 DEF ShapeInv
  <2>3. Held' = H + n
    <3>1. Len(pkg_buf') = 0
      BY <2>1, <1>4
    <3> QED
      BY <3>1, <1>4, <1>5, <1>9 DEF Held
  <2>4. At <= Len(sent) => pos' < starts[At + 1]
    <3> SUFFICES ASSUME At <= Len(sent) PROVE pos' < starts[At + 1]
      OBVIOUS
    <3>1. At \in 1..Len(sent)
      BY Facts
    <3>2. BodyLen(sent[At]) \in Nat /\ starts[At + 1] = S + HeadBytes + BodyLen(sent[At])
      BY <3>1, Facts DEF S
    <3> QED
      BY <3>2, <2>1, <1>4, <1>5, <1>12
  <2>5. PlaceInv'
    <3>1. pos' <= nread
      BY <1>2, <1>5
    <3> QED
      BY <3>1, <2>1, <2>3, <2>4, <1>1, <1>2, <1>4, <1>9, <1>12 DEF PlaceInv
  <2>6. HeldInv'
    <3>1. \A k \in 1..Len(pkg_buf') : pkg_buf'[k] = stream'[starts'[At'] + HeadBytes + k]
      BY <2>1, <1>4
    <3> QED
      BY <3>1, <1>2, <1>11, <1>12 DEF HeldInv
  <2> QED
    BY <2>2, <2>5, <2>6, <1>13 DEF IInv
<1>15. CASE H + n = HeadBytes
  <2>1. at' = "body" /\ pstate' = "body" /\ pkg_size' = PkgLength(head') /\ pkg_buf' = <<>>
    BY <1>3, <1>15
  <2>2. starts[At] + HeadBytes <= Len(stream) /\ Len(head') = HeadBytes
    BY <1>4, <1>5, <1>6, <1>9, <1>15, SMTT(60) DEF S
  <2>3. At \in 1..Len(sent) /\ PkgLength(head') = BodyLen(sent[At])
    BY <2>2, <1>11, HeadOfPackage DEF S
  <2>4. BodyLen(sent[At]) \in Nat
    BY <2>3, Facts
  <2>5. ShapeInv'
    <3>1. pos' \in Nat /\ pkg_size' \in Nat /\ pkg_buf' \in Seq(Octets)
      BY <2>1, <2>3, <2>4, <1>2, <1>4, <1>5
    <3> QED
      BY <3>1, <2>1, <1>1, <1>2, <1>9 DEF ShapeInv
  <2>6. Held' = H + n /\ Len(pkg_buf') = 0
    <3>1. Len(pkg_buf') = 0
      BY <2>1
    <3> QED
      BY <3>1, <1>4, <1>5, <1>9 DEF Held
  <2>7. PlaceInv'
    <3>1. pos' <= nread
      BY <1>2, <1>5
    <3>2. /\ At' <= Len(sent') /\ Len(head') = HeadBytes
          /\ pkg_size' = BodyLen(sent'[At']) /\ Len(pkg_buf') <= pkg_size'
      BY <2>1, <2>2, <2>3, <2>4, <2>6, <1>2, <1>12
    <3> QED
      BY <3>1, <3>2, <2>1, <2>6, <1>1, <1>2, <1>4, <1>12 DEF PlaceInv
  <2>8. HeldInv'
    <3>1. \A k \in 1..Len(pkg_buf') : pkg_buf'[k] = stream'[starts'[At'] + HeadBytes + k]
      BY <2>6
    <3> QED
      BY <3>1, <1>2, <1>11, <1>12 DEF HeldInv
  <2> QED
    BY <2>5, <2>7, <2>8, <1>13 DEF IInv
<1> QED
  BY <1>14, <1>15

\* the bytes after a head are the body of the package the parser is at
LEMMA BodyOfPackage ==
  ASSUME IInv, pstate = "body", NEW t \in Seq(Octets), Len(t) = pkg_size,
         \A k \in 1..Len(t) : t[k] = stream[starts[At] + HeadBytes + k]
  PROVE  [type |-> head[1], body |-> t] = sent[At]
<1>1. ShapeInv /\ WireInv /\ PlaceInv /\ HeldInv
  BY DEF IInv
<1>2. /\ At \in 1..Len(sent) /\ Len(head) = HeadBytes /\ pkg_size = BodyLen(sent[At])
      /\ pkg_size \in Nat /\ starts[At] \in Nat
      /\ \A k \in 1..Len(head) : head[k] = stream[starts[At] + k]
  BY <1>1, Facts DEF PlaceInv, HeldInv, ShapeInv
<1>3. sent[At] \in Packages
  BY <1>1, <1>2 DEF ShapeInv
<1>4. starts[At] + HeadBytes <= Len(stream)
  <2>1. /\ starts[At + 1] = starts[At] + HeadBytes + BodyLen(sent[At])
        /\ BodyLen(sent[At]) \in Nat
    BY <1>2, Facts
  <2>2. At + 1 \in 1..(Len(sent) + 1) /\ Len(stream) \in Nat
    BY <1>2, Facts
  <2>3. starts[At + 1] <= Len(stream)
    BY <2>2, Facts
  <2> HIDE DEF At
  <2> QED
    BY ONLY <1>2, <2>1, <2>2, <2>3, SMTT(60) DEF HeadBytes
<1>5. head[1] = sent[At].type
  BY <1>2, <1>4, HeadOfPackage
<1> DEFINE e == Encode(sent[At])
           r == sent[At].body
<1>6. /\ r \in Seq(Contents) /\ Len(r) = pkg_size
      /\ sent[At] = [type |-> sent[At].type, body |-> r]
  BY <1>2, <1>3, PackageFacts
<1>7. \A k \in 1..BodyLen(sent[At]) : e[HeadBytes + k] = r[k]
  BY <1>3, EncodeFacts
<1>8. \A k \in 1..(HeadBytes + BodyLen(sent[At])) : stream[starts[At] + k] = e[k]
  BY <1>1, <1>2 DEF WireInv
<1> HIDE DEF e, r
<1>9. ASSUME NEW k \in 1..pkg_size PROVE t[k] = r[k]
  <2>1. /\ HeadBytes + k \in 1..(HeadBytes + BodyLen(sent[At])) /\ k \in 1..Len(t)
        /\ starts[At] + (HeadBytes + k) = starts[At] + HeadBytes + k
    <3>1. BodyLen(sent[At]) \in Nat /\ pkg_size = BodyLen(sent[At]) /\ Len(t) = pkg_size
          /\ starts[At] \in Nat
      BY <1>2
    <3> DEFINE z == BodyLen(sent[At])
               a == starts[At]
               l == Len(t)
    <3>2. z \in Nat /\ z = pkg_size /\ l = z /\ a \in Nat /\ k \in 1..z
      BY <3>1
    <3> HIDE DEF z, a, l
    <3>3. HeadBytes + k \in 1..(HeadBytes + z) /\ k \in 1..l /\ a + (HeadBytes + k) = a + HeadBytes + k
      BY ONLY <3>2 DEF HeadBytes
    <3> QED
      BY <3>3 DEF z, a, l
  <2> QED
    BY <2>1, <1>2, <1>7, <1>8, SMTT(60)
<1>10. t = r
  BY <1>2, <1>6, <1>9
<1> QED
  BY <1>5, <1>6, <1>10

\* pc__pkg_body copies what is there of the body, and hands a complete one over
LEMMA PkgBodyInv ==
  ASSUME IInv, PkgBody
  PROVE  IInv'
<1> DEFINE n == BodyCopies
           b == Bytes(n)
           t == pkg_buf \o b
           P == Len(pkg_buf)
           S == starts[At]
<1>1. ShapeInv /\ WireInv /\ PackagesIntact /\ PlaceInv /\ HeldInv
  BY DEF IInv
<1>2. /\ pstate = "body" /\ pos' = pos + n /\ at' = "loop"
      /\ UNCHANGED <<sent, stream, starts, nread>>
  BY DEF PkgBody, wire
<1>3. \/ /\ Len(t) = pkg_size
         /\ called' = Append(called, [type |-> head[1], body |-> t])
         /\ pstate' = "head" /\ head' = <<>> /\ pkg_size' = 0 /\ pkg_buf' = <<>>
      \/ /\ Len(t) # pkg_size
         /\ pkg_buf' = t /\ UNCHANGED <<pstate, head, pkg_size, called>>
  BY DEF PkgBody, Reset
<1>4. /\ P \in Nat /\ pkg_size \in Nat /\ P <= pkg_size /\ HeadBytes \in Nat
      /\ pos \in Nat /\ nread \in Nat /\ pos <= nread /\ nread <= Len(stream)
      /\ S \in Nat /\ Len(stream) \in Nat
      /\ At \in 1..Len(sent) /\ Len(head) = HeadBytes /\ pkg_size = BodyLen(sent[At])
      /\ Len(sent) \in Nat
  BY <1>1, <1>2, Facts, SMTT(60) DEF PlaceInv, HeadBytes
<1>5. n \in Nat /\ P + n <= pkg_size /\ pos + n <= nread
  BY <1>4, SMTT(60) DEF Minimum, BodyCopies
<1>6. pos = S + (HeadBytes + P)
  BY <1>1, <1>2, <1>4 DEF PlaceInv, Held
<1> HIDE DEF n
<1>7. /\ b \in Seq(Octets) /\ Len(b) = n
      /\ \A k \in 1..n : b[k] = stream[pos + k]
  BY <1>5, BytesFacts
<1>8. pkg_buf \in Seq(Octets)
  BY <1>1 DEF ShapeInv
<1> HIDE DEF b
<1>9. /\ t \in Seq(Octets) /\ Len(t) = P + n
      /\ \A k \in 1..P : t[k] = pkg_buf[k]
      /\ \A k \in 1..n : t[P + k] = b[k]
  BY <1>7, <1>8, Concatenation
<1>10. \A k \in 1..P : pkg_buf[k] = stream[S + HeadBytes + k]
  BY <1>1, <1>2 DEF HeldInv
<1> HIDE DEF t, P, S
<1>11. ASSUME NEW k \in 1..Len(t) PROVE t[k] = stream[S + HeadBytes + k]
  <2>1. CASE k \in 1..P
    BY <2>1, <1>9, <1>10
  <2>2. CASE k \notin 1..P
    <3>1. k - P \in 1..n /\ k = P + (k - P) /\ pos + (k - P) = S + HeadBytes + k
      BY <2>2, <1>4, <1>5, <1>6, <1>9
    <3> QED
      BY <3>1, <1>7, <1>9
  <2> QED
    BY <2>1, <2>2
<1>12. starts[At + 1] = S + HeadBytes + pkg_size
  BY <1>4, Facts DEF S
<1>13. pos' = S + HeadBytes + (P + n) /\ pos' \in Nat /\ pos' <= nread
  BY <1>2, <1>4, <1>5, <1>6
<1>14. CASE Len(t) # pkg_size
  <2>1. pkg_buf' = t /\ UNCHANGED <<pstate, head, pkg_size, called>> /\ P + n < pkg_size
    BY <1>3, <1>4, <1>5, <1>9, <1>14
  <2>2. ShapeInv'
    BY <2>1, <1>1, <1>2, <1>9, <1>13 DEF ShapeInv
  <2>3. At' = At /\ starts'[At'] = S /\ Held' = HeadBytes + (P + n)
    BY <2>1, <1>2, <1>4, <1>9 DEF At, Held, S
  <2>4. WireInv' /\ PackagesIntact'
    BY <2>1, <1>1, <1>2 DEF WireInv, PackagesIntact
  <2>5. PlaceInv'
    <3>1. pos' < starts'[At' + 1] /\ pos' = starts'[At'] + Held'
      <4>1. pos' < S + HeadBytes + pkg_size /\ pos' = S + (HeadBytes + (P + n))
        BY <2>1, <1>4, <1>5, <1>13
      <4> QED
        BY <4>1, <2>3, <1>2, <1>12
    <3>2. pos' <= nread' /\ nread' <= Len(stream') /\ Len(pkg_buf') <= pkg_size'
      BY <2>1, <1>2, <1>4, <1>5, <1>9, <1>13
    <3> QED
      BY <3>1, <3>2, <2>1, <2>3, <1>1, <1>2, <1>4 DEF PlaceInv
  <2>6. HeldInv'
    BY <2>1, <2>3, <1>1, <1>2, <1>11 DEF HeldInv, S
  <2> QED
    BY <2>2, <2>4, <2>5, <2>6 DEF IInv
<1>15. CASE Len(t) = pkg_size
  <2>1. /\ called' = Append(called, [type |-> head[1], body |-> t])
        /\ pstate' = "head" /\ head' = <<>> /\ pkg_size' = 0 /\ pkg_buf' = <<>>
    BY <1>3, <1>15
  <2>2. [type |-> head[1], body |-> t] = sent[At]
    BY <1>2, <1>9, <1>11, <1>15, BodyOfPackage DEF S
  <2>3. sent[At] \in Packages /\ called \in Seq(Packages)
    BY <1>1, <1>4 DEF ShapeInv
  <2>4. /\ called' \in Seq(Packages) /\ Len(called') = Len(called) + 1
        /\ \A k \in 1..Len(called) : called'[k] = called[k]
        /\ called'[Len(called) + 1] = sent[At]
    <3>1. called' = Append(called, sent[At])
      BY <2>1, <2>2
    <3> QED
      BY <3>1, <2>3, Appending
  <2>5. /\ At = Len(called) + 1 /\ Len(called) \in Nat /\ At' = At + 1
        /\ starts'[At'] = pos' /\ Held' = 0
    <3>1. At = Len(called) + 1 /\ Len(called) \in Nat /\ At' = At + 1
      BY <2>4, Facts DEF At
    <3>2. pos' = S + HeadBytes + pkg_size
      BY <1>9, <1>13, <1>15
    <3>3. Held' = 0
      BY <2>1 DEF Held
    <3> QED
      BY <3>1, <3>2, <3>3, <1>2, <1>12
  <2>6. ShapeInv'
    <3>1. head' \in Seq(Octets) /\ pkg_buf' \in Seq(Octets) /\ pkg_size' \in Nat
      BY <2>1
    <3> QED
      BY <3>1, <2>1, <2>4, <1>1, <1>2, <1>13 DEF ShapeInv
  <2>7. WireInv'
    BY <1>1, <1>2 DEF WireInv
  <2>8. PackagesIntact'
    <3>1. Len(called') <= Len(sent)
      BY <2>4, <2>5, <1>4
    <3>2. ASSUME NEW i \in 1..Len(called') PROVE called'[i] = sent[i]
      <4>1. CASE i \in 1..Len(called)
        BY <4>1, <2>4, <1>1 DEF PackagesIntact
      <4>2. CASE i = Len(called) + 1
        BY <4>2, <2>4, <2>5
      <4> QED
        BY <4>1, <4>2, <2>4, <2>5
    <3> QED
      BY <3>1, <3>2, <1>2 DEF PackagesIntact
  <2>9. PlaceInv'
    <3>1. At' <= Len(sent') => pos' < starts'[At' + 1]
      <4> SUFFICES ASSUME At' <= Len(sent') PROVE pos' < starts'[At' + 1]
        OBVIOUS
      <4>1. At + 1 \in 1..Len(sent)
        BY <2>5, <1>2, <1>4
      <4>2. /\ BodyLen(sent[At + 1]) \in Nat
            /\ starts[(At + 1) + 1] = starts[At + 1] + HeadBytes + BodyLen(sent[At + 1])
        BY <4>1, Facts
      <4>3. starts[At + 1] = pos'
        BY <2>5, <1>2
      <4> QED
        BY <4>2, <4>3, <2>5, <1>2, <1>13 DEF HeadBytes
    <3>2. /\ pos' <= nread' /\ nread' <= Len(stream') /\ pos' = starts'[At'] + Held'
          /\ Len(head') < HeadBytes
      BY <2>1, <2>5, <1>2, <1>4, <1>13 DEF HeadBytes
    <3>3. Len(head') <= HeadBytes
      BY <2>1 DEF HeadBytes
    <3> QED
      BY <3>1, <3>2, <3>3, <2>1, <1>2 DEF PlaceInv
  <2>10. HeldInv'
    BY <2>1 DEF HeldInv
  <2> QED
    BY <2>6, <2>7, <2>8, <2>9, <2>10 DEF IInv
<1> QED
  BY <1>14, <1>15

LEMMA StutterInv ==
  ASSUME IInv, UNCHANGED vars
  PROVE  IInv'
BY DEF IInv, ShapeInv, WireInv, PackagesIntact, PlaceInv, HeldInv, At, Held, vars, wire, parser

LEMMA StepInv ==
  ASSUME IInv, [Next]_vars
  PROVE  IInv'
<1>1. ASSUME NEW p \in Packages, Write(p) PROVE IInv'
  BY <1>1, WriteInv
<1>2. ASSUME NEW n \in 1..(Len(stream) - pos), TcpRead(n) PROVE IInv'
  BY <1>2, TcpReadInv
<1>3. CASE Feed
  BY <1>3, PkgHeadInv, PkgBodyInv, FeedEndInv DEF Feed
<1>4. CASE Close
  BY <1>4, CloseInv
<1>5. CASE UNCHANGED vars
  BY <1>5, StutterInv
<1> QED
  BY <1>1, <1>2, <1>3, <1>4, <1>5 DEF Next

LEMMA Inductive == Spec => []IInv
<1>1. IInv /\ [Next]_vars => IInv'
  BY StepInv
<1> QED
  BY InitInv, <1>1, PTL DEF Spec
-----------------------------------------------------------------------------
(* The packages pc_pkg_cb is given are those the server wrote, whole and in order,
   whatever they are and however the stream was cut. *)
THEOREM PackagesIntactAlways == Spec => []PackagesIntact
<1>1. IInv => PackagesIntact
  BY DEF IInv
<1> QED
  BY <1>1, Inductive, PTL

(* The variables of the parser have their types, and its place is in the buffer. *)
THEOREM ParserTypeCorrect == Spec => []TypeOK
<1>1. ASSUME IInv PROVE TypeOK
  <2>1. ShapeInv /\ WireInv /\ PlaceInv
    BY <1>1 DEF IInv
  <2>2. Packages \subseteq [type : Types, body : Bodies]
    BY DEF Packages
  <2>3. called \in Seq([type : Types, body : Bodies])
    <3> DEFINE R == [type : Types, body : Bodies]
    <3>1. called \in Seq(Packages) /\ Packages \subseteq R
      BY <2>1, <2>2 DEF ShapeInv
    <3> HIDE DEF R
    <3>2. called \in Seq(R)
      BY ONLY <3>1
    <3> QED
      BY <3>2 DEF R
  <2>4. Len(head) \in 0..HeadBytes /\ pos \in 0..nread /\ nread \in 0..Len(stream)
    <3>1. Len(head) \in Nat /\ pos \in Nat /\ nread \in Nat /\ Len(stream) \in Nat
      BY <1>1, Facts
    <3>2. Len(head) <= HeadBytes /\ pos <= nread /\ nread <= Len(stream)
      BY <2>1 DEF PlaceInv
    <3>3. HeadBytes \in Nat
      BY DEF HeadBytes
    <3> QED
      BY ONLY <3>1, <3>2, <3>3
  <2> QED
    BY <2>1, <2>3, <2>4 DEF TypeOK, ShapeInv, WireInv
<1> QED
  BY <1>1, Inductive, PTL

(* A package that was read to its last byte was handed over before the feed returned,
   one with an empty body as well. *)
THEOREM NothingIsHeldBack == Spec => []NothingHeldBack
<1>1. ASSUME IInv PROVE NothingHeldBack
  <2> SUFFICES ASSUME at = "idle", NEW i \in 1..Len(sent), starts[i + 1] <= pos, i > Len(called)
               PROVE  FALSE
    <3>1. Len(called) \in Nat /\ Len(sent) \in Nat
      BY <1>1, Facts
    <3> QED
      BY <3>1 DEF NothingHeldBack
  <2>1. /\ At = Len(called) + 1 /\ Len(called) \in Nat /\ Len(sent) \in Nat /\ pos \in Nat
        /\ Len(starts) = Len(sent) + 1
    BY <1>1, Facts
  <2>2. At <= Len(sent) /\ At + 1 \in 1..Len(starts) /\ i + 1 \in 1..Len(starts) /\ At + 1 <= i + 1
    BY <2>1
  <2>3. pos < starts[At + 1]
    BY <1>1, <2>2 DEF IInv, PlaceInv
  <2>4. starts[At + 1] <= starts[i + 1]
    BY <1>1, <2>2 DEF IInv, WireInv
  <2>5. starts[At + 1] \in Nat /\ starts[i + 1] \in Nat
    BY <1>1, <2>1, <2>2, Facts
  <2> QED
    BY <2>1, <2>3, <2>4, <2>5
<1> QED
  BY <1>1, Inductive, PTL

\* what pc__pkg_body hands over is the next package: the invariant holds afterwards
LEMMA HandsOver ==
  ASSUME IInv, PkgBody
  PROVE  sent' = sent /\ (called' = called \/ called' = Append(called, sent[At]))
<1> DEFINE x == [type |-> head[1], body |-> pkg_buf \o Bytes(BodyCopies)]
<1>1. sent' = sent /\ (called' = called \/ called' = Append(called, x))
  BY DEF PkgBody, wire
<1>2. called' \in Seq(Packages) /\ PackagesIntact' /\ called \in Seq(Packages)
  BY PkgBodyInv DEF IInv, ShapeInv
<1> HIDE DEF x
<1>3. CASE called' = Append(called, x)
  <2>1. Len(called') = Len(called) + 1 /\ called'[Len(called) + 1] = x /\ Len(called) \in Nat
    BY <1>2, <1>3
  <2>2. Len(called) + 1 \in 1..Len(called')
    BY <2>1
  <2>3. called'[Len(called) + 1] = sent[At]
    BY <1>1, <1>2, <2>2 DEF PackagesIntact, At
  <2> QED
    BY <1>1, <1>3, <2>1, <2>3
<1> QED
  BY <1>1, <1>3

(* Every step of the parser is a step of the channel or does not touch it: a package
   is handed over once, in its turn. *)
THEOREM ParserImplementsChannel == Spec => ImplementsChannel
<1>1. Init => Channel!Init
  BY DEF Init, Channel!Init
<1>2. ASSUME IInv, [Next]_vars PROVE [Channel!Next]_<<sent, called>>
  <2>1. ASSUME NEW p \in Packages, Write(p) PROVE Channel!Next
    BY <2>1 DEF Write, parser, Channel!Next, Channel!Send
  <2>2. ASSUME NEW n \in 1..(Len(stream) - pos), TcpRead(n) PROVE UNCHANGED <<sent, called>>
    BY <2>2 DEF TcpRead, wire, parser
  <2>3. CASE PkgHead \/ FeedEnd \/ Close
    BY <2>3 DEF PkgHead, FeedEnd, Close, wire
  <2>4. CASE PkgBody
    <3>1. sent' = sent /\ (called' = called \/ called' = Append(called, sent[At]))
      BY <2>4, <1>2, HandsOver
    <3>2. pstate = "body"
      BY <2>4 DEF PkgBody
    <3>3. At = Len(called) + 1 /\ Len(called) < Len(sent)
      <4>1. Len(called) \in Nat /\ Len(sent) \in Nat /\ At = Len(called) + 1
        BY <1>2, Facts
      <4>2. At <= Len(sent)
        BY <1>2, <3>2 DEF IInv, PlaceInv
      <4> QED
        BY <4>1, <4>2
    <3> QED
      BY <3>1, <3>3 DEF Channel!Next, Channel!Call
  <2>5. CASE UNCHANGED vars
    BY <2>5 DEF vars, wire
  <2> QED
    BY <1>2, <2>1, <2>2, <2>3, <2>4, <2>5 DEF Next, Feed
<1> QED
  BY <1>1, <1>2, Inductive, PTL DEF Spec, ImplementsChannel, Channel!Spec, Channel!vars
=============================================================================
