------------------------- MODULE PomeloCodecProofs -------------------------
(***************************************************************************)
(* Theorems about the encoding of PomeloWire, for bytes of any size: what  *)
(* message.c encodes it decodes again, the digits of an id, a route in     *)
(* full or by its code, and the body.                                      *)
(***************************************************************************)
EXTENDS PomeloWire, TLAPS, WellFoundedInduction, SequenceTheorems

-----------------------------------------------------------------------------
(* Numbers and sequences *)

\* a set of natural numbers has a least one: the induction of the proofs below
LEMMA Least ==
  ASSUME NEW T, T \subseteq Nat, T # {}
  PROVE  \E x \in T : \A y \in T : x <= y
<1>1. IsWellFoundedOn(OpToRel(<, Nat), Nat)
  BY NatLessThanWellFounded
<1>2. PICK x \in T : \A y \in T : <<y, x>> \notin OpToRel(<, Nat)
  BY <1>1, WFMin
<1>3. \A y \in T : ~(y < x)
  BY <1>2 DEF OpToRel
<1> QED
  BY <1>3

LEMMA HalfIsNat == Half \in Nat /\ Half >= 2 /\ Byte \in Nat /\ Byte = 2 * Half
  BY WireAssumption DEF Byte

\* a quotient and a remainder make the number again
LEMMA Division ==
  ASSUME NEW a \in Nat, NEW b \in Nat, b > 0
  PROVE  /\ a \div b \in Nat /\ a % b \in 0..(b - 1)
         /\ a = b * (a \div b) + (a % b)
  OBVIOUS

\* and they are the only ones
LEMMA DivisionUnique ==
  ASSUME NEW b \in Nat, b > 0, NEW q \in Nat, NEW r \in 0..(b - 1)
  PROVE  (b * q + r) \div b = q /\ (b * q + r) % b = r
  OBVIOUS

LEMMA SmallRemainder == ASSUME NEW a \in Nat, NEW b \in Nat, a < b PROVE a % b = a
  OBVIOUS

\* the rest of a number that has more than one digit is smaller
LEMMA Smaller == ASSUME NEW n \in Nat, n >= Half PROVE n \div Half \in 0..(n - 1)
<1>1. n \div Half \in Nat /\ n % Half \in 0..(Half - 1) /\ n = Half * (n \div Half) + (n % Half)
  BY HalfIsNat, Division
<1> DEFINE q == n \div Half
<1>2. q > 0
  BY <1>1, HalfIsNat
<1>3. Half * q >= 2 * q
  BY <1>1, HalfIsNat
<1> HIDE DEF q
<1> QED
  BY <1>1, <1>2, <1>3, HalfIsNat DEF q

\* a byte before a sequence
LEMMA ByteBefore ==
  ASSUME NEW d \in Nat, NEW s \in Seq(Nat)
  PROVE  /\ <<d>> \o s \in Seq(Nat) /\ <<d>> \o s # <<>>
         /\ Len(<<d>> \o s) = Len(s) + 1
         /\ (<<d>> \o s)[1] = d
         /\ \A k \in 1..Len(s) : (<<d>> \o s)[k + 1] = s[k]
         /\ Head(<<d>> \o s) = d /\ Tail(<<d>> \o s) = s
<1>1. /\ <<d>> \o s \in Seq(Nat) /\ Len(<<d>> \o s) = Len(s) + 1 /\ Len(s) \in Nat
      /\ (<<d>> \o s)[1] = d
      /\ \A k \in 1..Len(s) : (<<d>> \o s)[k + 1] = s[k]
  OBVIOUS
<1>2. <<d>> \o s # <<>>
  BY <1>1
<1>3. /\ Tail(<<d>> \o s) \in Seq(Nat) /\ Len(Tail(<<d>> \o s)) = Len(s)
      /\ \A k \in 1..Len(s) : Tail(<<d>> \o s)[k] = (<<d>> \o s)[k + 1]
  BY <1>1, <1>2, HeadTailProperties
<1>4. Tail(<<d>> \o s) = s
  BY <1>1, <1>3, SeqEqual
<1> QED
  BY <1>1, <1>2, <1>4

-----------------------------------------------------------------------------
(* The recursive functions are what their equations say *)

IdStep(f, n) == IF n < Half THEN <<n>> ELSE <<Half + (n % Half)>> \o f[n \div Half]
IdUpto(g, n) == \A m \in 0..n : g[m] = IdStep(g, m)

LEMMA SameIdStep ==
  ASSUME NEW n \in Nat, NEW f, NEW g, \A m \in 0..(n - 1) : f[m] = g[m]
  PROVE  IdStep(f, n) = IdStep(g, n)
  BY Smaller, HalfIsNat DEF IdStep

LEMMA IdExists == \A n \in Nat : \E g : IdUpto(g, n)
<1> DEFINE T == {n \in Nat : ~ \E g : IdUpto(g, n)}
<1> SUFFICES ASSUME T # {} PROVE FALSE
  OBVIOUS
<1>1. PICK n \in T : \A y \in T : n <= y
  BY Least
<1>2. \E g : \A m \in 0..(n - 1) : g[m] = IdStep(g, m)
  <2>1. CASE n = 0
    BY <2>1
  <2>2. CASE n # 0
    <3>1. n - 1 \in Nat /\ n - 1 \notin T
      BY <1>1, <2>2
    <3> QED
      BY <3>1 DEF IdUpto
  <2> QED
    BY <2>1, <2>2
<1>3. PICK g : \A m \in 0..(n - 1) : g[m] = IdStep(g, m)
  BY <1>2
<1> DEFINE h == [m \in 0..n |-> IF m < n THEN g[m] ELSE IdStep(g, m)]
<1>4. ASSUME NEW m \in 0..n PROVE h[m] = IdStep(h, m)
  <2>1. \A k \in 0..(m - 1) : h[k] = g[k]
    BY <1>1
  <2>2. IdStep(h, m) = IdStep(g, m)
    BY <2>1, SameIdStep
  <2>3. h[m] = IdStep(g, m)
    BY <1>3, <1>1
  <2> QED
    BY <2>2, <2>3
<1> HIDE DEF h
<1>5. IdUpto(h, n)
  BY <1>4 DEF IdUpto
<1> QED
  BY <1>1, <1>5

LEMMA IdUnique ==
  ASSUME NEW n \in Nat, NEW k \in Nat, NEW g, NEW h, IdUpto(g, n), IdUpto(h, k), n <= k
  PROVE  g[n] = h[n]
<1> DEFINE T == {m \in 0..n : g[m] # h[m]}
<1> SUFFICES ASSUME T # {} PROVE FALSE
  OBVIOUS
<1>1. PICK m \in T : \A y \in T : m <= y
  <2>1. T \subseteq Nat
    OBVIOUS
  <2> HIDE DEF T
  <2> QED
    BY <2>1, Least
<1>2. \A j \in 0..(m - 1) : g[j] = h[j]
  BY <1>1
<1>3. IdStep(g, m) = IdStep(h, m)
  BY <1>1, <1>2, SameIdStep
<1> QED
  BY <1>1, <1>3 DEF IdUpto

LEMMA EncodeIdIs == \A n \in Nat : EncodeId[n] = IdStep(EncodeId, n)
<1> DEFINE Pick(n) == CHOOSE g : IdUpto(g, n)
           F == [n \in Nat |-> Pick(n)[n]]
<1>1. \A n \in Nat : IdUpto(Pick(n), n)
  BY IdExists
<1>2. ASSUME NEW n \in Nat PROVE F[n] = IdStep(F, n)
  <2>1. ASSUME NEW m \in 0..(n - 1) PROVE F[m] = Pick(n)[m]
    <3>1. Pick(m)[m] = Pick(n)[m]
      BY <1>1, IdUnique
    <3> QED
      BY <3>1
  <2>2. IdStep(F, n) = IdStep(Pick(n), n)
    BY <2>1, SameIdStep
  <2>3. Pick(n)[n] = IdStep(Pick(n), n)
    BY <1>1 DEF IdUpto
  <2> QED
    BY <2>2, <2>3
<1>3. F = [n \in Nat |-> IdStep(F, n)]
  BY <1>2
<1>4. \E f : f = [n \in Nat |-> IdStep(f, n)]
  BY <1>3
<1>5. EncodeId = CHOOSE f : f = [n \in Nat |-> IdStep(f, n)]
  BY DEF EncodeId, IdStep
<1>6. EncodeId = [n \in Nat |-> IdStep(EncodeId, n)]
  BY <1>4, <1>5
<1> QED
  BY <1>6

ValueStep(f, s) == IF s = <<>> THEN 0 ELSE (Head(s) % Half) + (Half * f[Tail(s)])
ValueUpto(g, n) == \A s \in Seq(Nat) : Len(s) <= n => g[s] = ValueStep(g, s)

LEMMA SameValueStep ==
  ASSUME NEW s \in Seq(Nat), NEW f, NEW g, \A t \in Seq(Nat) : Len(t) < Len(s) => f[t] = g[t]
  PROVE  ValueStep(f, s) = ValueStep(g, s)
<1>1. CASE s = <<>>
  BY <1>1 DEF ValueStep
<1>2. CASE s # <<>>
  <2>1. Tail(s) \in Seq(Nat) /\ Len(Tail(s)) < Len(s)
    BY <1>2, HeadTailProperties
  <2> QED
    BY <2>1 DEF ValueStep
<1> QED
  BY <1>1, <1>2

LEMMA ValueExists == \A n \in Nat : \E g : ValueUpto(g, n)
<1> DEFINE T == {n \in Nat : ~ \E g : ValueUpto(g, n)}
<1> SUFFICES ASSUME T # {} PROVE FALSE
  OBVIOUS
<1>1. PICK n \in T : \A y \in T : n <= y
  BY Least
<1>2. \E g : \A s \in Seq(Nat) : Len(s) < n => g[s] = ValueStep(g, s)
  <2>1. CASE n = 0
    BY <2>1
  <2>2. CASE n # 0
    <3>1. n - 1 \in Nat /\ n - 1 \notin T
      BY <1>1, <2>2
    <3>2. PICK g : ValueUpto(g, n - 1)
      BY <3>1
    <3>3. \A s \in Seq(Nat) : Len(s) < n => Len(s) <= n - 1
      BY <1>1
    <3> QED
      BY <3>2, <3>3 DEF ValueUpto
  <2> QED
    BY <2>1, <2>2
<1>3. PICK g : \A s \in Seq(Nat) : Len(s) < n => g[s] = ValueStep(g, s)
  BY <1>2
<1> DEFINE h == [s \in Seq(Nat) |-> IF Len(s) < n THEN g[s] ELSE ValueStep(g, s)]
<1>4. ASSUME NEW s \in Seq(Nat), Len(s) <= n PROVE h[s] = ValueStep(h, s)
  <2>1. \A t \in Seq(Nat) : Len(t) < Len(s) => h[t] = g[t]
    BY <1>4, <1>1
  <2>2. ValueStep(h, s) = ValueStep(g, s)
    BY <2>1, SameValueStep
  <2>3. h[s] = ValueStep(g, s)
    BY <1>3, <1>4
  <2> QED
    BY <2>2, <2>3
<1> HIDE DEF h
<1>5. ValueUpto(h, n)
  BY <1>4 DEF ValueUpto
<1> QED
  BY <1>1, <1>5

LEMMA ValueUnique ==
  ASSUME NEW n \in Nat, NEW k \in Nat, NEW g, NEW h, ValueUpto(g, n), ValueUpto(h, k), n <= k
  PROVE  \A s \in Seq(Nat) : Len(s) <= n => g[s] = h[s]
<1> DEFINE T == {m \in Nat : m <= n /\ \E s \in Seq(Nat) : Len(s) = m /\ g[s] # h[s]}
<1> SUFFICES ASSUME T # {} PROVE FALSE
  <2>1. \A s \in Seq(Nat) : Len(s) \in Nat
    OBVIOUS
  <2> QED
    BY <2>1
<1>1. PICK m \in T : \A y \in T : m <= y
  <2>1. T \subseteq Nat
    OBVIOUS
  <2> HIDE DEF T
  <2> QED
    BY <2>1, Least
<1>2. PICK s \in Seq(Nat) : Len(s) = m /\ g[s] # h[s]
  BY <1>1
<1>3. \A t \in Seq(Nat) : Len(t) < Len(s) => g[t] = h[t]
  <2> SUFFICES ASSUME NEW t \in Seq(Nat), Len(t) < Len(s), g[t] # h[t] PROVE FALSE
    OBVIOUS
  <2>1. Len(t) \in T
    BY <1>1, <1>2
  <2> QED
    BY <1>1, <1>2, <2>1
<1>4. ValueStep(g, s) = ValueStep(h, s)
  BY <1>3, SameValueStep
<1> QED
  BY <1>1, <1>2, <1>4 DEF ValueUpto

LEMMA ValueIs == \A s \in Seq(Nat) : Value[s] = ValueStep(Value, s)
<1> DEFINE Pick(n) == CHOOSE g : ValueUpto(g, n)
           F == [s \in Seq(Nat) |-> Pick(Len(s))[s]]
<1>1. \A n \in Nat : ValueUpto(Pick(n), n)
  BY ValueExists
<1>2. ASSUME NEW s \in Seq(Nat) PROVE F[s] = ValueStep(F, s)
  <2>a. Len(s) \in Nat
    OBVIOUS
  <2>1. ASSUME NEW t \in Seq(Nat), Len(t) < Len(s) PROVE F[t] = Pick(Len(s))[t]
    <3>1. Len(t) \in Nat /\ Len(t) <= Len(s) /\ Len(t) <= Len(t)
      BY <2>1
    <3>2. ValueUpto(Pick(Len(t)), Len(t)) /\ ValueUpto(Pick(Len(s)), Len(s))
      BY <1>1, <2>a, <3>1
    <3>3. \A u \in Seq(Nat) : Len(u) <= Len(t) => Pick(Len(t))[u] = Pick(Len(s))[u]
      <4> HIDE DEF Pick
      <4> QED
        BY <2>a, <3>1, <3>2, ValueUnique
    <3>4. Pick(Len(t))[t] = Pick(Len(s))[t]
      BY <3>1, <3>3
    <3> QED
      BY <3>4
  <2>2. ValueStep(F, s) = ValueStep(Pick(Len(s)), s)
    BY <2>1, SameValueStep
  <2>3. Pick(Len(s))[s] = ValueStep(Pick(Len(s)), s)
    BY <1>1, <2>a DEF ValueUpto
  <2> QED
    BY <2>2, <2>3
<1>3. F = [s \in Seq(Nat) |-> ValueStep(F, s)]
  BY <1>2
<1>4. \E f : f = [s \in Seq(Nat) |-> ValueStep(f, s)]
  BY <1>3
<1>5. Value = CHOOSE f : f = [s \in Seq(Nat) |-> ValueStep(f, s)]
  BY DEF Value, ValueStep
<1>6. Value = [s \in Seq(Nat) |-> ValueStep(Value, s)]
  BY <1>4, <1>5
<1> QED
  BY <1>6
-----------------------------------------------------------------------------
(* The digits of an id *)

\* a byte more in front counts least
LEMMA ValueCons ==
  ASSUME NEW d \in Nat, NEW s \in Seq(Nat)
  PROVE  Value[<<d>> \o s] = (d % Half) + (Half * Value[s])
<1> DEFINE t == <<d>> \o s
<1>1. t \in Seq(Nat) /\ t # <<>> /\ Head(t) = d /\ Tail(t) = s
  BY ByteBefore
<1> HIDE DEF t
<1>2. Value[t] = ValueStep(Value, t)
  BY <1>1, ValueIs
<1>3. Value[t] = (d % Half) + (Half * Value[s])
  BY <1>1, <1>2 DEF ValueStep
<1> QED
  BY <1>3 DEF t

LEMMA ValueEmpty == Value[<<>>] = 0
<1>1. <<>> \in Seq(Nat)
  OBVIOUS
<1>2. Value[<<>>] = ValueStep(Value, <<>>)
  BY <1>1, ValueIs
<1> QED
  BY <1>2 DEF ValueStep

\* the bytes of an id: all but the last have the continuation bit, and they make the id again
Digits(s, n) ==
  /\ s \in Seq(Nat) /\ Len(s) >= 1
  /\ s[Len(s)] < Half /\ \A k \in 1..(Len(s) - 1) : s[k] >= Half
  /\ Value[s] = n

LEMMA IdDigits == \A n \in Nat : Digits(EncodeId[n], n)
<1> DEFINE T == {n \in Nat : ~Digits(EncodeId[n], n)}
<1> SUFFICES ASSUME T # {} PROVE FALSE
  OBVIOUS
<1>1. PICK n \in T : \A y \in T : n <= y
  BY Least
<1>2. CASE n < Half
  <2>1. EncodeId[n] = <<n>>
    BY <1>1, <1>2, EncodeIdIs DEF IdStep
  <2>2. n % Half = n
    BY <1>1, <1>2, HalfIsNat
  <2>3. <<n>> \in Seq(Nat) /\ Len(<<n>>) = 1 /\ <<n>>[1] = n
    BY <1>1
  <2>4. Value[<<n>>] = n
    <3>1. <<n>> # <<>> /\ Head(<<n>>) = n /\ Tail(<<n>>) = <<>>
      BY <1>1
    <3>2. Value[<<n>>] = ValueStep(Value, <<n>>)
      BY <2>3, ValueIs
    <3>3. Value[<<n>>] = (n % Half) + (Half * 0)
      BY <3>1, <3>2, ValueEmpty DEF ValueStep
    <3> QED
      BY <1>1, <2>2, <3>3, HalfIsNat
  <2>5. Digits(<<n>>, n)
    BY <1>2, <2>3, <2>4 DEF Digits
  <2> QED
    BY <1>1, <2>1, <2>5
<1>3. CASE n >= Half
  <2> DEFINE q == n \div Half
             r == n % Half
             s == EncodeId[q]
  <2>1. q \in Nat /\ r \in 0..(Half - 1) /\ n = Half * q + r
    BY <1>1, HalfIsNat, Division
  <2>2. Digits(s, q)
    <3>1. q \in Nat /\ q < n
      BY <1>1, <1>3, <2>1, Smaller
    <3> QED
      BY <1>1, <3>1
  <2>3. EncodeId[n] = <<Half + r>> \o s
    <3>1. EncodeId[n] = IdStep(EncodeId, n) /\ ~(n < Half)
      BY <1>1, <1>3, EncodeIdIs, HalfIsNat
    <3> QED
      BY <3>1 DEF IdStep
  <2>4. (Half + r) % Half = r
    BY <2>1, HalfIsNat
  <2> HIDE DEF q, r, s
  <2>5. Half + r \in Nat
    BY <2>1, HalfIsNat
  <2>6. Value[<<Half + r>> \o s] = n
    <3>1. Value[<<Half + r>> \o s] = r + (Half * q)
      BY <2>2, <2>4, <2>5, ValueCons DEF Digits
    <3> QED
      BY <2>1, <3>1, HalfIsNat
  <2>7. /\ <<Half + r>> \o s \in Seq(Nat) /\ Len(<<Half + r>> \o s) = Len(s) + 1 /\ Len(s) \in Nat
        /\ (<<Half + r>> \o s)[1] = Half + r
        /\ \A k \in 1..Len(s) : (<<Half + r>> \o s)[k + 1] = s[k]
    <3>1. s \in Seq(Nat) /\ Len(s) \in Nat
      BY <2>2 DEF Digits
    <3> QED
      BY ONLY <2>5, <3>1, ByteBefore
  <2>8. (<<Half + r>> \o s)[Len(s) + 1] < Half
    BY <2>2, <2>7 DEF Digits
  <2>9. ASSUME NEW k \in 1..Len(s) PROVE (<<Half + r>> \o s)[k] >= Half
    <3>1. CASE k = 1
      BY <2>1, <2>7, <3>1, HalfIsNat
    <3>2. CASE k # 1
      <4>1. k - 1 \in 1..(Len(s) - 1) /\ k - 1 \in 1..Len(s) /\ (k - 1) + 1 = k
        BY <2>7, <3>2
      <4>2. (<<Half + r>> \o s)[k] = s[k - 1]
        BY <2>7, <4>1
      <4> QED
        BY <2>2, <4>1, <4>2 DEF Digits
    <3> QED
      BY <3>1, <3>2
  <2>10. Digits(<<Half + r>> \o s, n)
    BY <2>6, <2>7, <2>8, <2>9 DEF Digits
  <2> QED
    BY <1>1, <2>3, <2>10
<1> QED
  BY <1>1, <1>2, <1>3, HalfIsNat

(* An id is decoded to what it was encoded from, however many bytes it takes
   (pc__msg_encode_id and pc_msg_decode of message.c). *)
THEOREM IdRoundTrip == \A n \in Nat : DecodeId(EncodeId[n]) = n
  BY IdDigits DEF Digits, DecodeId

-----------------------------------------------------------------------------
(* The parts of a message *)

\* a sequence that is made of two
LEMMA TwoParts ==
  ASSUME NEW s \in Seq(Nat), NEW t \in Seq(Nat)
  PROVE  /\ s \o t \in Seq(Nat)
         /\ Len(s) \in Nat /\ Len(t) \in Nat /\ Len(s \o t) = Len(s) + Len(t)
         /\ \A k \in 1..Len(s) : (s \o t)[k] = s[k]
         /\ \A k \in 1..Len(t) : (s \o t)[Len(s) + k] = t[k]
         /\ SubSeq(s \o t, 1, Len(s)) = s
         /\ SubSeq(s \o t, Len(s) + 1, Len(s) + Len(t)) = t
<1> DEFINE m == s \o t
<1>1. /\ m \in Seq(Nat) /\ Len(s) \in Nat /\ Len(t) \in Nat /\ Len(m) = Len(s) + Len(t)
      /\ \A k \in 1..Len(s) : m[k] = s[k]
      /\ \A k \in 1..Len(t) : m[Len(s) + k] = t[k]
  OBVIOUS
<1> HIDE DEF m
<1>2. \A k \in 1..Len(m) : m[k] \in Nat
  BY <1>1
<1>3. SubSeq(m, 1, Len(s)) = s
  <2>1. /\ SubSeq(m, 1, Len(s)) \in Seq(Nat) /\ Len(SubSeq(m, 1, Len(s))) = Len(s)
        /\ \A k \in 1..Len(s) : SubSeq(m, 1, Len(s))[k] = m[k]
    BY <1>1, <1>2
  <2> QED
    BY <1>1, <2>1, SeqEqual
<1>4. SubSeq(m, Len(s) + 1, Len(s) + Len(t)) = t
  <2> DEFINE u == SubSeq(m, Len(s) + 1, Len(s) + Len(t))
  <2>1. /\ u \in Seq(Nat) /\ Len(u) = Len(t)
        /\ \A k \in 1..Len(t) : u[k] = m[Len(s) + k]
    BY <1>1, <1>2
  <2> HIDE DEF u
  <2>2. \A k \in 1..Len(t) : u[k] = t[k]
    BY <1>1, <2>1
  <2>3. u = t
    BY <2>1, <2>2, SeqEqual
  <2> QED
    BY <2>3 DEF u
<1> QED
  BY <1>1, <1>3, <1>4 DEF m

LEMMA Associative ==
  ASSUME NEW s \in Seq(Nat), NEW t \in Seq(Nat), NEW u \in Seq(Nat)
  PROVE  (s \o t) \o u = s \o (t \o u)
  BY ConcatAssociative, SMTT(60)

\* a flag, an id and what follows
Message(f, P, R, B) == <<f>> \o P \o R \o B

IsMessage(m, f, P, X) ==
  /\ m \in Seq(Nat) /\ Len(m) = Len(P) + 1 + Len(X) /\ Len(X) \in Nat
  /\ m[1] = f
  /\ \A k \in 1..Len(P) : m[k + 1] = P[k]
  /\ SubSeq(m, 2, Len(P) + 1) = P
  /\ SubSeq(m, Len(P) + 2, Len(m)) = X

LEMMA MessageParts ==
  ASSUME NEW f \in Nat, NEW P \in Seq(Nat), NEW R \in Seq(Nat), NEW B \in Seq(Nat)
  PROVE  IsMessage(Message(f, P, R, B), f, P, R \o B)
<1>m. PICK m : m = Message(f, P, R, B)
  OBVIOUS
<1>1. PICK X : X = R \o B
  OBVIOUS
<1>2. PICK H : H = <<f>> \o P
  OBVIOUS
<1>3. X \in Seq(Nat) /\ Len(X) \in Nat
  BY <1>1, TwoParts
<1>4. /\ H \in Seq(Nat) /\ Len(H) = Len(P) + 1 /\ Len(P) \in Nat /\ H[1] = f
      /\ \A k \in 1..Len(P) : H[k + 1] = P[k]
  BY <1>2, ByteBefore
<1>5. m = H \o X
  <2>1. (H \o R) \o B = H \o (R \o B)
    BY <1>4, Associative
  <2> QED
    BY <1>m, <1>1, <1>2, <2>1 DEF Message
<1>6. /\ H \o X \in Seq(Nat) /\ Len(H \o X) = Len(H) + Len(X)
      /\ \A k \in 1..Len(H) : (H \o X)[k] = H[k]
      /\ SubSeq(H \o X, Len(H) + 1, Len(H) + Len(X)) = X
  BY ONLY <1>3, <1>4, TwoParts
<1>7. /\ m \in Seq(Nat) /\ Len(m) = Len(H) + Len(X)
      /\ \A k \in 1..Len(H) : m[k] = H[k]
      /\ SubSeq(m, Len(H) + 1, Len(H) + Len(X)) = X
  BY ONLY <1>5, <1>6
<1>8. \A k \in 1..Len(P) : m[k + 1] = P[k]
  <2> SUFFICES ASSUME NEW k \in 1..Len(P) PROVE m[k + 1] = P[k]
    OBVIOUS
  <2>1. k + 1 \in 1..Len(H)
    BY <1>4
  <2> QED
    BY <1>4, <1>7, <2>1
<1>9. SubSeq(m, 2, Len(P) + 1) = P
  <2>1. Len(m) \in Nat /\ Len(P) + 1 <= Len(m)
    BY <1>3, <1>4, <1>7
  <2>2. ASSUME NEW k \in 2..(Len(P) + 1) PROVE m[k] \in Nat
    <3>1. k \in 1..Len(m)
      BY <1>4, <2>1
    <3> QED
      BY <1>7, <3>1, ElementOfSeq
  <2>3. PICK u : u = SubSeq(m, 2, Len(P) + 1)
    OBVIOUS
  <2>4. /\ u \in Seq(Nat) /\ Len(u) = Len(P)
        /\ \A k \in 1..Len(P) : u[k] = m[k + 1]
    BY <1>4, <2>2, <2>3
  <2>5. \A k \in 1..Len(P) : u[k] = P[k]
    BY <1>8, <2>4
  <2> QED
    BY <2>3, <2>4, <2>5, SeqEqual
<1>10. m[1] = f /\ Len(m) = Len(P) + 1 + Len(X)
  <2>1. 1 \in 1..Len(H)
    BY <1>4
  <2> QED
    BY <1>3, <1>4, <1>7, <2>1
<1>11. SubSeq(m, Len(P) + 2, Len(m)) = X
  <2>1. Len(H) + 1 = Len(P) + 2 /\ Len(H) + Len(X) = Len(m)
    BY <1>4, <1>7
  <2> QED
    BY <1>7, <2>1
<1> QED
  BY <1>m, <1>1, <1>3, <1>7, <1>8, <1>9, <1>10, <1>11 DEF IsMessage

\* the id ends at its first byte without the continuation bit
LEMMA IdEnds ==
  ASSUME NEW f \in Nat, NEW id \in Nat, NEW R \in Seq(Nat), NEW B \in Seq(Nat)
  PROVE  IdLength(Message(f, EncodeId[id], R, B)) = Len(EncodeId[id])
<1>m. PICK m : m = Message(f, EncodeId[id], R, B)
  OBVIOUS
<1>1. PICK P : P = EncodeId[id]
  OBVIOUS
<1>2. Digits(P, id)
  BY <1>1, IdDigits
<1>3. P \in Seq(Nat) /\ Len(P) \in Nat /\ Len(P) >= 1
  BY <1>2 DEF Digits
<1>4. m = Message(f, P, R, B)
  BY <1>m, <1>1
<1>5. /\ m \in Seq(Nat) /\ Len(m) = Len(P) + 1 + Len(R \o B) /\ Len(R \o B) \in Nat
      /\ \A k \in 1..Len(P) : m[k + 1] = P[k]
  <2>1. f \in Nat /\ R \in Seq(Nat) /\ B \in Seq(Nat)
    OBVIOUS
  <2>2. IsMessage(m, f, P, R \o B)
    BY <1>3, <1>4, <2>1, MessageParts
  <2> QED
    BY <2>2 DEF IsMessage
<1>6. Len(P) \in 1..(Len(m) - 1)
  BY <1>3, <1>5
\* what the byte after the k-th one of a message is
<1>7. ASSUME NEW k \in 1..Len(P)
      PROVE  /\ m[k + 1] \in Nat
             /\ k = Len(P) => m[k + 1] < Half /\ ~(m[k + 1] >= Half)
             /\ k # Len(P) => m[k + 1] >= Half /\ ~(m[k + 1] < Half)
  <2>1. m[k + 1] = P[k]
    BY <1>5
  <2>2. P[k] \in Nat
    BY <1>3, ElementOfSeq
  <2>3. k # Len(P) => k \in 1..(Len(P) - 1)
    BY <1>3
  <2>4. k # Len(P) => P[k] >= Half
    BY <1>2, <2>3 DEF Digits
  <2>5. k = Len(P) => P[k] < Half
    BY <1>2 DEF Digits
  <2> QED
    BY <2>1, <2>2, <2>4, <2>5, HalfIsNat
<1>8. m[Len(P) + 1] < Half /\ \A k \in 2..Len(P) : m[k] >= Half
  <2>1. Len(P) \in 1..Len(P)
    BY <1>3
  <2>2. ASSUME NEW k \in 2..Len(P) PROVE m[k] >= Half
    <3>1. k - 1 \in 1..Len(P) /\ k - 1 # Len(P) /\ (k - 1) + 1 = k
      BY <1>3
    <3> QED
      BY <1>7, <3>1
  <2> QED
    BY <1>7, <2>1, <2>2
<1>9. ASSUME NEW n \in 1..(Len(m) - 1), m[n + 1] < Half, \A k \in 2..n : m[k] >= Half
      PROVE  n = Len(P)
  <2>0. Len(m) \in Nat /\ n \in Nat /\ Len(P) \in Nat
    BY <1>3, <1>5
  <2>1. ASSUME n < Len(P) PROVE FALSE
    <3>1. n \in 1..Len(P) /\ n # Len(P)
      BY <1>3, <1>5, <2>1
    <3> QED
      BY <1>7, <1>9, <3>1
  <2>2. ASSUME n > Len(P) PROVE FALSE
    <3>1. Len(P) + 1 \in 2..n /\ Len(P) \in 1..Len(P)
      BY <1>3, <2>0, <2>2
    <3> QED
      BY <1>7, <1>9, <3>1
  <2> QED
    BY <2>0, <2>1, <2>2
<1>10. IdLength(m) = Len(P)
  <2>1. \E n \in 1..(Len(m) - 1) : m[n + 1] < Half /\ \A k \in 2..n : m[k] >= Half
    BY <1>6, <1>8
  <2>2. PICK n : n = IdLength(m)
    OBVIOUS
  <2>3. n \in 1..(Len(m) - 1) /\ m[n + 1] < Half /\ \A k \in 2..n : m[k] >= Half
    BY <2>1, <2>2 DEF IdLength
  <2> QED
    BY <1>9, <2>2, <2>3
<1> QED
  BY <1>m, <1>1, <1>10

LEMMA FlagParts ==
  ASSUME NEW type \in 0..3, NEW compress \in BOOLEAN
  PROVE  /\ Flag(type, compress) \in Nat /\ Flag(type, compress) \div 2 = type
         /\ Flag(type, compress) % 2 = 1 <=> compress
<1>1. CASE compress
  <2>1. (2 * type + 1) \div 2 = type /\ (2 * type + 1) % 2 = 1 /\ 2 * type + 1 \in Nat
    OBVIOUS
  <2> QED
    BY <1>1, <2>1 DEF Flag
<1>2. CASE ~compress
  <2>1. (2 * type + 0) \div 2 = type /\ (2 * type + 0) % 2 = 0 /\ 2 * type + 0 \in Nat
    OBVIOUS
  <2> QED
    BY <1>2, <2>1 DEF Flag
<1> QED
  BY <1>1, <1>2

\* what is read of a message before its route, and what is left
HeadLength(m) == IF HasId(m[1] \div 2) THEN IdLength(m) ELSE 0
Rest(m) == SubSeq(m, HeadLength(m) + 2, Len(m))

IsHead(m, type, compress, id, X) ==
  /\ m[1] \div 2 = type /\ (m[1] % 2 = 1 <=> compress)
  /\ DecodeId(SubSeq(m, 2, HeadLength(m) + 1)) = id
  /\ Rest(m) = X

LEMMA DecodeHead ==
  ASSUME NEW type \in 0..3, NEW compress \in BOOLEAN, NEW id \in Nat, HasId(type) \/ id = 0,
         NEW R \in Seq(Nat), NEW B \in Seq(Nat)
  PROVE  IsHead(Message(Flag(type, compress), IdPart(type, id), R, B), type, compress, id, R \o B)
<1>m. PICK m : m = Message(Flag(type, compress), IdPart(type, id), R, B)
  OBVIOUS
<1>n. PICK n : n = HeadLength(m)
  OBVIOUS
<1>1. PICK f : f = Flag(type, compress)
  OBVIOUS
<1>2. f \in Nat /\ f \div 2 = type /\ (f % 2 = 1 <=> compress)
  BY <1>1, FlagParts
<1>3. PICK P : P = IdPart(type, id)
  OBVIOUS
<1>4. P \in Seq(Nat)
  <2>1. EncodeId[id] \in Seq(Nat)
    BY IdDigits DEF Digits
  <2>2. <<>> \in Seq(Nat)
    OBVIOUS
  <2> QED
    BY <1>3, <2>1, <2>2 DEF IdPart
<1>5. m = Message(f, P, R, B)
  BY <1>m, <1>1, <1>3
<1>6. R \in Seq(Nat) /\ B \in Seq(Nat)
  OBVIOUS
<1>7. /\ m[1] = f /\ SubSeq(m, 2, Len(P) + 1) = P
      /\ SubSeq(m, Len(P) + 2, Len(m)) = R \o B
  <2>1. IsMessage(m, f, P, R \o B)
    BY <1>2, <1>4, <1>5, <1>6, MessageParts
  <2> QED
    BY <2>1 DEF IsMessage
<1>8. n = Len(P) /\ DecodeId(P) = id
  <2>1. CASE HasId(type)
    <3>1. P = EncodeId[id]
      BY <1>3, <2>1 DEF IdPart
    <3>2. m = Message(f, EncodeId[id], R, B) /\ id \in Nat
      BY <1>5, <3>1
    <3>3. IdLength(m) = Len(EncodeId[id])
      BY <1>2, <1>6, <3>2, IdEnds
    <3> QED
      BY <1>n, <1>2, <1>7, <2>1, <3>1, <3>3, IdRoundTrip DEF HeadLength
  <2>2. CASE ~HasId(type)
    <3>1. P = <<>> /\ id = 0
      BY <1>3, <2>2 DEF IdPart
    <3> QED
      BY <1>n, <1>2, <1>7, <2>2, <3>1, ValueEmpty DEF DecodeId, HeadLength
  <2> QED
    BY <2>1, <2>2
<1> QED
  BY <1>m, <1>n, <1>2, <1>7, <1>8 DEF IsHead, Rest

-----------------------------------------------------------------------------
(* What is encoded is decoded *)

\* what is decoded of a message without a route, with a route, and with a code
LEMMA DecodeBare ==
  ASSUME NEW m, NEW type, NEW id, NEW X, IsHead(m, type, FALSE, id, X), ~HasRoute(type)
  PROVE  /\ Decode(m).ok <=> 0 <= Len(X)
         /\ Decode(m).type = type /\ Decode(m).id = id
         /\ Decode(m).code = 0 /\ Decode(m).route = <<>>
         /\ Decode(m).body = SubSeq(X, 0 + 1, Len(X))
  BY DEF Decode, IsHead, Rest, HeadLength

LEMMA DecodeRoute ==
  ASSUME NEW m, NEW type, NEW id, NEW X, IsHead(m, type, FALSE, id, X), HasRoute(type)
  PROVE  /\ Decode(m).ok <=> X[1] + 1 <= Len(X) /\ X[1] < Half
         /\ Decode(m).type = type /\ Decode(m).id = id
         /\ Decode(m).code = 0 /\ Decode(m).route = SubSeq(X, 2, X[1] + 1)
         /\ Decode(m).body = SubSeq(X, (X[1] + 1) + 1, Len(X))
  BY DEF Decode, IsHead, Rest, HeadLength

LEMMA DecodeCode ==
  ASSUME NEW m, NEW type, NEW id, NEW X, IsHead(m, type, TRUE, id, X), HasRoute(type)
  PROVE  /\ Decode(m).ok <=> 2 <= Len(X)
         /\ Decode(m).type = type /\ Decode(m).id = id
         /\ Decode(m).code = (X[1] * Byte) + X[2] /\ Decode(m).route = <<>>
         /\ Decode(m).body = SubSeq(X, 2 + 1, Len(X))
  BY DEF Decode, IsHead, Rest, HeadLength

LEMMA EmptyLast == ASSUME NEW s \in Seq(Nat) PROVE s \o <<>> = s
  OBVIOUS

\* a byte, a sequence and another
LEMMA ByteAndTwo ==
  ASSUME NEW f \in Nat, NEW s \in Seq(Nat), NEW t \in Seq(Nat)
  PROVE  IsMessage((<<f>> \o s) \o t, f, s, t)
<1>1. <<>> \in Seq(Nat)
  OBVIOUS
<1>2. IsMessage(Message(f, s, t, <<>>), f, s, t \o <<>>)
  BY <1>1, MessageParts
<1>3. (<<f>> \o s) \o t \in Seq(Nat)
  BY ByteBefore, TwoParts
<1>4. ((<<f>> \o s) \o t) \o <<>> = (<<f>> \o s) \o t /\ t \o <<>> = t
  BY <1>3, EmptyLast
<1> QED
  BY <1>2, <1>4 DEF Message

(* A message with its route in full, or without one, is decoded to what it was encoded
   from, if the length of the route fits a byte; the client accepts a route whose length fits
   a signed char (pc_msg_encode_route and pc_msg_decode of message.c). *)
THEOREM RouteRoundTrip ==
  ASSUME NEW type \in 0..3, NEW id \in Nat, HasId(type) \/ id = 0,
         NEW route \in Seq(Nat), NEW body \in Seq(Nat), Len(route) < Byte,
         HasRoute(type) \/ route = <<>>
  PROVE  LET raw == Decode(EncodeRoute(id, type, route, body))
         IN /\ raw.type = type /\ raw.id = id /\ raw.code = 0
            /\ raw.route = route /\ raw.body = body
            /\ raw.ok <=> Len(route) < Half
<1>1. PICK m : m = EncodeRoute(id, type, route, body)
  OBVIOUS
<1>2. Len(route) \in Nat /\ FALSE \in BOOLEAN
  OBVIOUS
<1>3. CASE HasRoute(type)
  <2>1. PICK L : L = Len(route)
    OBVIOUS
  <2>2. L \in Nat /\ Len(route) % Byte = L
    <3>1. L \in Nat /\ L < Byte
      BY <1>2, <2>1
    <3>2. L % Byte = L
      BY <3>1, HalfIsNat, SmallRemainder
    <3> QED
      BY <2>1, <3>1, <3>2
  <2>3. PICK R : R = <<L>> \o route
    OBVIOUS
  <2>4. R \in Seq(Nat)
    BY <2>2, <2>3, ByteBefore
  <2>5. m = Message(Flag(type, FALSE), IdPart(type, id), R, body)
    BY <1>1, <1>3, <2>2, <2>3 DEF EncodeRoute, Message
  <2>6. PICK X : X = R \o body
    OBVIOUS
  <2>7. IsHead(m, type, FALSE, id, X)
    BY <1>2, <2>4, <2>5, <2>6, DecodeHead
  <2>8. IsMessage(X, L, route, body)
    BY <2>2, <2>3, <2>6, ByteAndTwo
  <2>9. /\ X[1] = L /\ Len(X) = L + 1 + Len(body) /\ Len(body) \in Nat
        /\ SubSeq(X, 2, L + 1) = route /\ SubSeq(X, (L + 1) + 1, Len(X)) = body
    <3>1. (L + 1) + 1 = L + 2
      BY <2>2
    <3> QED
      BY <2>1, <2>8, <3>1 DEF IsMessage
  <2>10. L + 1 <= Len(X)
    BY <2>2, <2>9
  <2>11. /\ Decode(m).ok <=> X[1] + 1 <= Len(X) /\ X[1] < Half
         /\ Decode(m).type = type /\ Decode(m).id = id
         /\ Decode(m).code = 0 /\ Decode(m).route = SubSeq(X, 2, X[1] + 1)
         /\ Decode(m).body = SubSeq(X, (X[1] + 1) + 1, Len(X))
    BY <1>3, <2>7, DecodeRoute
  <2> QED
    BY <1>1, <2>1, <2>9, <2>10, <2>11
<1>4. CASE ~HasRoute(type)
  <2>1. route = <<>> /\ Len(route) = 0
    BY <1>4
  <2>2. <<>> \in Seq(Nat) /\ <<>> \o body = body /\ Len(body) \in Nat
    OBVIOUS
  <2>3. m = Message(Flag(type, FALSE), IdPart(type, id), <<>>, body)
    BY <1>1, <1>4 DEF EncodeRoute, Message
  <2>4. IsHead(m, type, FALSE, id, body)
    BY <1>2, <2>2, <2>3, DecodeHead
  <2>5. SubSeq(body, 0 + 1, Len(body)) = body /\ 0 <= Len(body)
    BY <2>2
  <2>6. Len(route) < Half
    BY <2>1, HalfIsNat
  <2>7. /\ Decode(m).ok <=> 0 <= Len(body)
        /\ Decode(m).type = type /\ Decode(m).id = id
        /\ Decode(m).code = 0 /\ Decode(m).route = <<>>
        /\ Decode(m).body = SubSeq(body, 0 + 1, Len(body))
    BY <1>4, <2>4, DecodeBare
  <2> QED
    BY <1>1, <2>1, <2>5, <2>6, <2>7
<1> QED
  BY <1>3, <1>4

(* A message with a code for its route is decoded to what it was encoded from: the high byte
   of the code comes first (pc_msg_encode_code and pc_msg_decode of message.c). *)
THEOREM CodeRoundTrip ==
  ASSUME NEW type \in 0..3, NEW id \in Nat, HasId(type) \/ id = 0, HasRoute(type),
         NEW code \in 0..((Byte * Byte) - 1), NEW body \in Seq(Nat)
  PROVE  LET raw == Decode(EncodeCode(id, type, code, body))
         IN /\ raw.type = type /\ raw.id = id /\ raw.code = code /\ raw.route = <<>>
            /\ raw.body = body /\ raw.ok
<1>1. PICK m : m = EncodeCode(id, type, code, body)
  OBVIOUS
<1>2. PICK q : q = code \div Byte
  OBVIOUS
<1>3. PICK r : r = code % Byte
  OBVIOUS
<1>4. code \in Nat /\ code < Byte * Byte
  BY HalfIsNat
<1>5. q \in Nat /\ r \in 0..(Byte - 1) /\ code = Byte * q + r
  <2>1. Byte \in Nat /\ Byte > 0
    BY HalfIsNat
  <2> QED
    BY <1>2, <1>3, <1>4, <2>1, Division
<1>6. q < Byte
  <2> SUFFICES ASSUME q >= Byte PROVE FALSE
    BY <1>5, HalfIsNat
  <2>1. Byte * q >= Byte * Byte
    BY <1>5, HalfIsNat
  <2> QED
    BY <1>4, <1>5, <2>1, HalfIsNat
<1>7. q % Byte = q
  BY <1>5, <1>6, HalfIsNat
<1>8. CodeBytes(code) = <<q, r>> /\ (q * Byte) + r = code /\ r \in Nat
  <2>1. CodeBytes(code) = <<q, r>>
    BY <1>2, <1>3, <1>7 DEF CodeBytes
  <2>2. Byte * q = q * Byte
    BY <1>5, HalfIsNat
  <2>3. r \in Nat /\ Byte * q \in Nat
    BY <1>5, HalfIsNat
  <2> QED
    BY <1>5, <2>1, <2>2, <2>3
<1>9. m = Message(Flag(type, TRUE), IdPart(type, id), <<q, r>>, body)
  BY <1>1, <1>8 DEF EncodeCode, Message
<1>10. PICK X : X = <<q, r>> \o body
  OBVIOUS
<1>11. <<q, r>> \in Seq(Nat) /\ TRUE \in BOOLEAN
  BY <1>5, <1>8
<1>12. IsHead(m, type, TRUE, id, X)
  BY <1>9, <1>10, <1>11, DecodeHead
<1>13. /\ X[1] = q /\ X[2] = r /\ Len(body) \in Nat /\ Len(X) = 2 + Len(body)
       /\ SubSeq(X, 2 + 1, Len(X)) = body
  <2>1. PICK s : s = <<r>>
    OBVIOUS
  <2>2. s \in Seq(Nat) /\ Len(s) = 1 /\ s[1] = r /\ <<q>> \o s = <<q, r>>
    <3>1. s \in Seq(Nat) /\ Len(s) = 1 /\ s[1] = r
      BY <1>8, <2>1
    <3>2. <<q>> \o s = <<q, r>>
      <4>1. /\ <<q>> \o s \in Seq(Nat) /\ Len(<<q>> \o s) = 2
            /\ (<<q>> \o s)[1] = q /\ (<<q>> \o s)[1 + 1] = r
        <5>1. /\ <<q>> \o s \in Seq(Nat) /\ Len(<<q>> \o s) = Len(s) + 1
              /\ (<<q>> \o s)[1] = q
              /\ \A k \in 1..Len(s) : (<<q>> \o s)[k + 1] = s[k]
          BY <1>5, <3>1, ByteBefore
        <5>2. 1 \in 1..Len(s)
          BY <3>1
        <5> QED
          BY <3>1, <5>1, <5>2
      <4>2. /\ <<q, r>> \in Seq(Nat) /\ Len(<<q, r>>) = 2
            /\ <<q, r>>[1] = q /\ <<q, r>>[2] = r
        BY <1>11
      <4>3. \A k \in 1..2 : (<<q>> \o s)[k] = <<q, r>>[k]
        BY <4>1, <4>2
      <4> QED
        BY <4>1, <4>2, <4>3, SeqEqual
    <3> QED
      BY <2>1, <3>1, <3>2
  <2>3. IsMessage(X, q, s, body)
    BY <1>5, <1>10, <2>2, ByteAndTwo
  <2>4. 1 \in 1..Len(s) /\ 1 + 1 = 2 /\ Len(s) + 2 = 2 + 1 /\ Len(s) + 1 = 2
    BY <2>2
  <2> QED
    BY <2>2, <2>3, <2>4 DEF IsMessage
<1>14. 2 <= Len(X)
  BY <1>13
<1>15. /\ Decode(m).ok <=> 2 <= Len(X)
       /\ Decode(m).type = type /\ Decode(m).id = id
       /\ Decode(m).code = (X[1] * Byte) + X[2] /\ Decode(m).route = <<>>
       /\ Decode(m).body = SubSeq(X, 2 + 1, Len(X))
  BY <1>12, DecodeCode
<1> QED
  BY <1>1, <1>8, <1>13, <1>14, <1>15
=============================================================================
