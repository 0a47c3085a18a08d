-------------------------- MODULE PlayerDataProofs --------------------------
(***************************************************************************)
(* Theorems about PlayerData: the robot's copy of the player's data is the *)
(* server's when nothing is on the way, for any values, lengths and number *)
(* of messages.                                                            *)
(***************************************************************************)
EXTENDS PlayerData, SequenceTheorems, TLAPS

Data == {d \in [field : Values, list : Seq(Values)] : Len(d.list) <= ListMax}
Copies == [field : Values, list : Lists]
Change == [key : {"field", "list"}, index : Nat, value : Values \cup {Null}]
Messages == [n : Nat, what : {"login", "push", "answer"}, content : Data \cup Change]

Of(q) == {q[i] : i \in 1..Len(q)}
Waiting == Of(events) \cup Of(answers)
Pending == Of(wire) \cup Waiting

\* a change c makes e of d
Follows(d, c, e) ==
  \/ \E v \in Values : c = Set(v) /\ e = [d EXCEPT !.field = v]
  \/ \E i \in 0..(Len(d.list) - 1), v \in Values :
       c = SetItem(i, v) /\ e = [d EXCEPT !.list[i + 1] = v]
  \/ \E v \in Values : /\ Len(d.list) < ListMax /\ c = SetItem(Len(d.list), v)
                       /\ e = [d EXCEPT !.list = Append(@, v)]
  \/ \E i \in 0..(Len(d.list) - 1) : c = RemovedAt(i) /\ e = [d EXCEPT !.list = RemoveAt(@, i + 1)]

\* the message m was sent when the data was d, which is e after it
Sends(d, m, e) ==
  IF m.what = "login" THEN m.n = 0 /\ m.content = d /\ e = d
                      ELSE m.n # 0 /\ Follows(d, m.content, e)

Touches(m, k) == m.what = "login" \/ m.content.key = k
View(d, k) == IF k = "field" THEN d.field ELSE d.list

Sorted(q) == \A i, j \in 1..Len(q) : i < j => q[i].n < q[j].n

\* what was sent: message n was log[n], and made the data h[n + 1] of h[n]
HistoryInv(h, log) ==
  /\ h[sent] = server /\ sent \in Nat
  /\ \A n \in 0..(sent - 1) : log[n].n = n /\ Sends(h[n], log[n], h[n + 1])

\* the order of the messages that are on the way
OrderInv(log) ==
  /\ wire \in Seq(Messages) /\ events \in Seq(Messages) /\ answers \in Seq(Messages)
  /\ Sorted(wire) /\ Sorted(events) /\ Sorted(answers)
  /\ \A m \in Pending : m.n \in 0..(sent - 1) /\ m = log[m.n]
  /\ \A m \in Of(wire), k \in Waiting : k.n < m.n
  /\ \A m \in Of(events) : m.what = "push"
  /\ \A m \in Of(answers) : m.what # "push"
  /\ user = None => sent = 0 \/ \E m \in Pending : m.n = 0

\* of the key k, the copy is what the data was before message c
CutInv(h, k, c) ==
  /\ c \in 0..sent
  /\ user = None => c = 0
  /\ user # None => View(user, k) = View(h[c], k)
  /\ \A m \in Pending : Touches(m, k) => c <= m.n
  /\ \A a, b \in c..sent :
       a <= b /\ (\A m \in Pending : Touches(m, k) => ~(a <= m.n /\ m.n < b))
         => View(h[a], k) = View(h[b], k)

Types ==
  /\ server \in Data /\ asked \in {"login", "request", "answer", None} /\ turn \in {"event", "answer"}
  /\ user = None \/ user \in Copies
  /\ overtaken \in BOOLEAN /\ sent \in 0..SendMax

Good(h, log) ==
  /\ HistoryInv(h, log) /\ OrderInv(log)
  /\ ~overtaken => \A k \in {"field", "list"} : \E c \in 0..sent : CutInv(h, k, c)

IInv == Types /\ \E h \in [Nat -> Data], log \in [Nat -> Messages] : Good(h, log)
-----------------------------------------------------------------------------
(* The lists, and what a change makes of them *)

LEMMA ListsAre ==
  ASSUME NEW f
  PROVE  f \in Lists <=> f \in [DOMAIN f -> Values] /\ DOMAIN f \subseteq 1..(ListMax + SendMax)
<1>1. ASSUME f \in Lists
      PROVE  f \in [DOMAIN f -> Values] /\ DOMAIN f \subseteq 1..(ListMax + SendMax)
  <2>1. PICK S \in SUBSET (1..(ListMax + SendMax)) : f \in [S -> Values]
    BY <1>1 DEF Lists
  <2> QED
    BY <2>1
<1>2. ASSUME f \in [DOMAIN f -> Values], DOMAIN f \subseteq 1..(ListMax + SendMax)
      PROVE  f \in Lists
  <2>1. PICK S : S = DOMAIN f
    OBVIOUS
  <2>2. S \in SUBSET (1..(ListMax + SendMax)) /\ f \in [S -> Values]
    BY <1>2, <2>1
  <2> QED
    BY <2>2 DEF Lists
<1> QED
  BY <1>1, <1>2

\* a list of the server has no holes: it is removed from, set and appended to as a sequence is
LEMMA WithoutHoles ==
  ASSUME NEW s \in Seq(Values), Len(s) <= ListMax
  PROVE  /\ s \in Lists
         /\ Borders(s) = {Len(s)}
         /\ \A k \in 1..Len(s) :
              /\ RemoveAt(s, k) \in Seq(Values) /\ Len(RemoveAt(s, k)) = Len(s) - 1
              /\ TableRemove(s, k, Len(s)) = RemoveAt(s, k)
         /\ \A k \in 1..Len(s), v \in Values :
              [j \in DOMAIN s \cup {k} |-> IF j = k THEN v ELSE s[j]] = [s EXCEPT ![k] = v]
         /\ \A v \in Values :
              [j \in DOMAIN s \cup {Len(s) + 1} |-> IF j = Len(s) + 1 THEN v ELSE s[j]] = Append(s, v)
<1>1. /\ Len(s) \in Nat /\ s \in [1..Len(s) -> Values] /\ DOMAIN s = 1..Len(s)
      /\ ListMax \in Nat /\ SendMax \in Nat
  BY LenProperties, DataAssumption
<1>2. s \in Lists
  BY <1>1, ListsAre
<1>3. Borders(s) = {Len(s)}
  BY <1>1 DEF Borders
<1>4. ASSUME NEW k \in 1..Len(s)
      PROVE  /\ RemoveAt(s, k) \in Seq(Values) /\ Len(RemoveAt(s, k)) = Len(s) - 1
             /\ TableRemove(s, k, Len(s)) = RemoveAt(s, k)
  <2> DEFINE a == SubSeq(s, 1, k - 1)
             b == SubSeq(s, k + 1, Len(s))
             t == [j \in 1..(Len(s) - 1) |-> IF j \in k..(Len(s) - 1) THEN s[j + 1] ELSE s[j]]
  <2>1. /\ a \in Seq(Values) /\ Len(a) = k - 1 /\ \A i \in 1..(k - 1) : a[i] = s[i]
    <3>1. 1 \in Int /\ k - 1 \in Int /\ \A i \in 1..(k - 1) : s[i] \in Values
      BY <1>1
    <3> HIDE DEF a
    <3>2. /\ a \in Seq(Values) /\ Len(a) = IF 1 <= k - 1 THEN (k - 1) - 1 + 1 ELSE 0
          /\ \A i \in 1..((k - 1) - 1 + 1) : a[i] = s[1 + i - 1]
      BY <3>1, SubSeqProperties DEF a
    <3> QED
      BY <1>1, <3>2
  <2>2. /\ b \in Seq(Values) /\ Len(b) = Len(s) - k /\ \A i \in 1..(Len(s) - k) : b[i] = s[k + i]
    <3>1. k + 1 \in Int /\ Len(s) \in Int /\ \A i \in (k + 1)..Len(s) : s[i] \in Values
      BY <1>1
    <3> HIDE DEF b
    <3>2. /\ b \in Seq(Values) /\ Len(b) = IF k + 1 <= Len(s) THEN Len(s) - (k + 1) + 1 ELSE 0
          /\ \A i \in 1..(Len(s) - (k + 1) + 1) : b[i] = s[(k + 1) + i - 1]
      BY <3>1, SubSeqProperties DEF b
    <3>3. \A i \in 1..(Len(s) - k) : i \in 1..(Len(s) - (k + 1) + 1) /\ (k + 1) + i - 1 = k + i
      BY <1>1
    <3>4. ASSUME NEW i \in 1..(Len(s) - k) PROVE b[i] = s[k + i]
      BY <3>2, <3>3
    <3>5. Len(b) = Len(s) - k
      <4>1. k \in Nat /\ k <= Len(s)
        BY <1>1
      <4>2. CASE k = Len(s)
        BY <1>1, <3>2, <4>2
      <4>3. CASE k < Len(s)
        <5>1. k + 1 <= Len(s) /\ Len(s) - (k + 1) + 1 = Len(s) - k
          BY <1>1, <4>1, <4>3
        <5> QED
          BY <3>2, <5>1
      <4>4. k = Len(s) \/ k < Len(s)
        <5>1. \A x, y \in Nat : x <= y => x = y \/ x < y
          OBVIOUS
        <5> QED
          BY <1>1, <4>1, <5>1, Zenon
      <4> QED
        BY <4>2, <4>3, <4>4
    <3> QED
      BY <3>2, <3>4, <3>5
  <2>3. RemoveAt(s, k) = a \o b
    BY DEF RemoveAt
  <2> HIDE DEF a, b
  <2>4. /\ a \o b \in Seq(Values) /\ Len(a \o b) = Len(s) - 1
        /\ \A i \in 1..(Len(s) - 1) : (a \o b)[i] = IF i <= k - 1 THEN a[i] ELSE b[i - (k - 1)]
    <3>1. /\ a \o b \in Seq(Values) /\ Len(a \o b) = Len(a) + Len(b)
          /\ \A i \in 1..(Len(a) + Len(b)) : (a \o b)[i] = IF i <= Len(a) THEN a[i] ELSE b[i - Len(a)]
      BY <2>1, <2>2, ConcatProperties
    <3>2. Len(a) + Len(b) = Len(s) - 1
      BY <1>1, <2>1, <2>2
    <3> QED
      BY <2>1, <3>1, <3>2
  <2>5. (DOMAIN s \ (k..Len(s))) \cup {i \in k..(Len(s) - 1) : i + 1 \in DOMAIN s} = 1..(Len(s) - 1)
    BY <1>1
  <2>6. TableRemove(s, k, Len(s)) = t
    BY <2>5 DEF TableRemove
  <2>7. a \o b \in [1..(Len(s) - 1) -> Values]
    BY <2>4, LenProperties
  <2>8. ASSUME NEW i \in 1..(Len(s) - 1) PROVE (a \o b)[i] = t[i]
    <3>1. CASE i <= k - 1
      BY <1>1, <2>1, <2>4, <3>1
    <3>2. CASE ~(i <= k - 1)
      <4>1. i - (k - 1) \in 1..(Len(s) - k) /\ k + (i - (k - 1)) = i + 1 /\ i \in k..(Len(s) - 1)
        BY <1>1, <3>2
      <4> QED
        BY <2>2, <2>4, <3>2, <4>1
    <3> QED
      BY <3>1, <3>2
  <2> QED
    BY <2>3, <2>4, <2>6, <2>7, <2>8
<1>5. ASSUME NEW k \in 1..Len(s), NEW v \in Values
      PROVE  [j \in DOMAIN s \cup {k} |-> IF j = k THEN v ELSE s[j]] = [s EXCEPT ![k] = v]
  <2>1. DOMAIN s \cup {k} = DOMAIN s
    BY <1>1
  <2> QED
    BY <1>1, <2>1
<1>6. ASSUME NEW v \in Values
      PROVE  [j \in DOMAIN s \cup {Len(s) + 1} |-> IF j = Len(s) + 1 THEN v ELSE s[j]] = Append(s, v)
  <2> DEFINE f == [j \in DOMAIN s \cup {Len(s) + 1} |-> IF j = Len(s) + 1 THEN v ELSE s[j]]
             t == Append(s, v)
  <2>1. /\ t \in Seq(Values) /\ Len(t) = Len(s) + 1
        /\ \A i \in 1..Len(s) : t[i] = s[i]
        /\ t[Len(s) + 1] = v
    BY AppendProperties
  <2> HIDE DEF t
  <2>2. DOMAIN s \cup {Len(s) + 1} = 1..(Len(s) + 1)
    BY <1>1
  <2>3. t \in [1..(Len(s) + 1) -> Values]
    BY <2>1, LenProperties
  <2>4. \A i \in 1..(Len(s) + 1) : f[i] = t[i]
    BY <1>1, <2>1, <2>2
  <2>5. f = t
    BY <2>2, <2>3, <2>4
  <2> QED
    BY <2>5 DEF t
<1> QED
  BY <1>2, <1>3, <1>4, <1>5, <1>6

\* a change of the server fits its data, and what DiffFunction makes of a copy is what the server made
\* of the data, if the copy was the same in what the change is about
LEMMA ChangeFits ==
  ASSUME NEW d \in Data, NEW c, NEW e, Follows(d, c, e)
  PROVE  /\ c \in Change /\ e \in Data
         /\ \A k \in {"field", "list"} : c.key # k => View(e, k) = View(d, k)
<1>1. /\ d.field \in Values /\ d.list \in Seq(Values) /\ Len(d.list) \in Nat /\ Len(d.list) <= ListMax
      /\ d = [field |-> d.field, list |-> d.list] /\ ListMax \in Nat
  BY LenProperties, DataAssumption DEF Data
<1>2. ASSUME NEW f \in Values, NEW s \in Seq(Values), Len(s) <= ListMax, e = [field |-> f, list |-> s]
      PROVE  e \in Data
  BY <1>2 DEF Data
<1>3. CASE \E v \in Values : c = Set(v) /\ e = [d EXCEPT !.field = v]
  <2>1. PICK v \in Values : c = Set(v) /\ e = [field |-> v, list |-> d.list]
    BY <1>1, <1>3
  <2> QED
    BY <1>1, <1>2, <2>1 DEF Set, Change, View
<1>4. CASE \E i \in 0..(Len(d.list) - 1), v \in Values :
             c = SetItem(i, v) /\ e = [d EXCEPT !.list[i + 1] = v]
  <2>1. PICK i \in 0..(Len(d.list) - 1), v \in Values :
          c = SetItem(i, v) /\ e = [d EXCEPT !.list[i + 1] = v]
    BY <1>4
  <2>2. e = [field |-> d.field, list |-> [d.list EXCEPT ![i + 1] = v]]
    BY <1>1, <2>1
  <2>3. i + 1 \in 1..Len(d.list)
    BY <1>1
  <2>4. [d.list EXCEPT ![i + 1] = v] \in Seq(Values) /\ Len([d.list EXCEPT ![i + 1] = v]) = Len(d.list)
    BY <1>1, <2>3, ExceptSeq
  <2>5. c \in Change /\ c.key = "list"
    BY <1>1, <2>1 DEF SetItem, Change
  <2>6. e.field = d.field
    BY <2>2
  <2> QED
    BY <1>1, <1>2, <2>2, <2>4, <2>5, <2>6 DEF View
<1>5. CASE \E v \in Values : /\ Len(d.list) < ListMax /\ c = SetItem(Len(d.list), v)
                             /\ e = [d EXCEPT !.list = Append(@, v)]
  <2>1. PICK v \in Values : /\ Len(d.list) < ListMax /\ c = SetItem(Len(d.list), v)
                            /\ e = [field |-> d.field, list |-> Append(d.list, v)]
    BY <1>1, <1>5
  <2>2. Append(d.list, v) \in Seq(Values) /\ Len(Append(d.list, v)) = Len(d.list) + 1
    BY <1>1, AppendProperties
  <2>3. Len(d.list) + 1 <= ListMax
    BY <1>1, <2>1
  <2>4. c \in Change /\ c.key = "list"
    BY <1>1, <2>1 DEF SetItem, Change
  <2>5. e.field = d.field
    BY <2>1
  <2> QED
    BY <1>1, <1>2, <2>1, <2>2, <2>3, <2>4, <2>5 DEF View
<1>6. CASE \E i \in 0..(Len(d.list) - 1) :
             c = RemovedAt(i) /\ e = [d EXCEPT !.list = RemoveAt(@, i + 1)]
  <2>1. PICK i \in 0..(Len(d.list) - 1) :
          c = RemovedAt(i) /\ e = [field |-> d.field, list |-> RemoveAt(d.list, i + 1)]
    BY <1>1, <1>6
  <2>2. RemoveAt(d.list, i + 1) \in Seq(Values) /\ Len(RemoveAt(d.list, i + 1)) <= ListMax
    <3>1. i + 1 \in 1..Len(d.list)
      BY <1>1
    <3>2. /\ RemoveAt(d.list, i + 1) \in Seq(Values)
          /\ Len(RemoveAt(d.list, i + 1)) = Len(d.list) - 1
      BY <1>1, <3>1, WithoutHoles
    <3> QED
      BY <1>1, <3>2
  <2>3. c \in Change /\ c.key = "list"
    BY <1>1, <2>1 DEF RemovedAt, Change
  <2>4. e.field = d.field
    BY <2>1
  <2> QED
    BY <1>1, <1>2, <2>1, <2>2, <2>3, <2>4 DEF View
<1> QED
  BY <1>3, <1>4, <1>5, <1>6 DEF Follows

LEMMA ApplyFits ==
  ASSUME NEW d \in Data, NEW c, NEW e, Follows(d, c, e), NEW u \in Copies, NEW w \in Apply(u, c)
  PROVE  /\ w \in Copies
         /\ \A k \in {"field", "list"} :
              IF c.key = k THEN View(u, k) = View(d, k) => View(w, k) = View(e, k)
              ELSE View(w, k) = View(u, k) /\ View(e, k) = View(d, k)
<1>1. /\ d.field \in Values /\ d.list \in Seq(Values) /\ Len(d.list) \in Nat /\ Len(d.list) <= ListMax
      /\ d = [field |-> d.field, list |-> d.list] /\ ListMax \in Nat /\ SendMax \in Nat
      /\ Null \notin Values
  BY LenProperties, DataAssumption DEF Data
<1>2. /\ u.field \in Values /\ u.list \in Lists /\ u = [field |-> u.field, list |-> u.list]
      /\ u.list \in [DOMAIN u.list -> Values] /\ DOMAIN u.list \subseteq 1..(ListMax + SendMax)
  BY ListsAre DEF Copies
<1>3. CASE \E v \in Values : c = Set(v) /\ e = [d EXCEPT !.field = v]
  <2>1. PICK v \in Values : c = Set(v) /\ e = [field |-> v, list |-> d.list]
    BY <1>1, <1>3
  <2>2. c.key = "field" /\ c.value = v
    BY <2>1 DEF Set
  <2>3. w = [field |-> v, list |-> u.list]
    BY <1>2, <2>2 DEF Apply
  <2> QED
    BY <1>2, <2>1, <2>2, <2>3 DEF Copies, View
<1>4. ASSUME NEW i \in 0..(ListMax - 1), NEW v \in Values, c = SetItem(i, v),
             e.field = d.field, i <= Len(d.list),
             e.list = [j \in DOMAIN d.list \cup {i + 1} |-> IF j = i + 1 THEN v ELSE d.list[j]]
      PROVE  /\ w \in Copies /\ w.field = u.field /\ e.field = d.field /\ c.key = "list"
             /\ u.list = d.list => w.list = e.list
  <2>1. c.key = "list" /\ c.value = v /\ c.value # Null /\ Index(c) = i + 1
    BY <1>1, <1>4 DEF SetItem, Index
  <2>2. PICK s : s = [j \in DOMAIN u.list \cup {i + 1} |-> IF j = i + 1 THEN v ELSE u.list[j]]
    OBVIOUS
  <2>3. w = [field |-> u.field, list |-> s]
    BY <1>2, <2>1, <2>2 DEF Apply
  <2>4. s \in Lists
    <3>1. DOMAIN s = DOMAIN u.list \cup {i + 1} /\ i + 1 \in 1..(ListMax + SendMax)
      BY <1>1, <1>4, <2>2
    <3>2. s \in [DOMAIN s -> Values]
      BY <1>2, <2>2, <3>1
    <3> QED
      BY <1>2, <3>1, <3>2, ListsAre
  <2>5. w \in Copies /\ w.field = u.field /\ w.list = s
    BY <1>2, <2>3, <2>4 DEF Copies
  <2> QED
    BY <1>4, <2>1, <2>2, <2>5
<1>5. CASE \E i \in 0..(Len(d.list) - 1), v \in Values :
             c = SetItem(i, v) /\ e = [d EXCEPT !.list[i + 1] = v]
  <2>1. PICK i \in 0..(Len(d.list) - 1), v \in Values :
          c = SetItem(i, v) /\ e = [d EXCEPT !.list[i + 1] = v]
    BY <1>5
  <2>2. e = [field |-> d.field, list |-> [d.list EXCEPT ![i + 1] = v]]
    BY <1>1, <2>1
  <2>3. i + 1 \in 1..Len(d.list) /\ i \in 0..(ListMax - 1) /\ i <= Len(d.list)
    BY <1>1
  <2>4. [j \in DOMAIN d.list \cup {i + 1} |-> IF j = i + 1 THEN v ELSE d.list[j]]
          = [d.list EXCEPT ![i + 1] = v]
    BY <1>1, <2>3, WithoutHoles
  <2>5. /\ w \in Copies /\ w.field = u.field /\ e.field = d.field /\ c.key = "list"
        /\ u.list = d.list => w.list = e.list
    BY <1>4, <2>1, <2>2, <2>3, <2>4
  <2> QED
    BY <2>5 DEF View
<1>6. CASE \E v \in Values : /\ Len(d.list) < ListMax /\ c = SetItem(Len(d.list), v)
                             /\ e = [d EXCEPT !.list = Append(@, v)]
  <2>1. PICK v \in Values : /\ Len(d.list) < ListMax /\ c = SetItem(Len(d.list), v)
                            /\ e = [field |-> d.field, list |-> Append(d.list, v)]
    BY <1>1, <1>6
  <2>2. Len(d.list) \in 0..(ListMax - 1) /\ Len(d.list) <= Len(d.list)
    BY <1>1, <2>1
  <2>3. [j \in DOMAIN d.list \cup {Len(d.list) + 1} |-> IF j = Len(d.list) + 1 THEN v ELSE d.list[j]]
          = Append(d.list, v)
    BY <1>1, WithoutHoles
  <2>4. /\ w \in Copies /\ w.field = u.field /\ e.field = d.field /\ c.key = "list"
        /\ u.list = d.list => w.list = e.list
    BY <1>4, <2>1, <2>2, <2>3
  <2> QED
    BY <2>4 DEF View
<1>7. CASE \E i \in 0..(Len(d.list) - 1) :
             c = RemovedAt(i) /\ e = [d EXCEPT !.list = RemoveAt(@, i + 1)]
  <2>1. PICK i \in 0..(Len(d.list) - 1) :
          c = RemovedAt(i) /\ e = [field |-> d.field, list |-> RemoveAt(d.list, i + 1)]
    BY <1>1, <1>7
  <2>2. c.key = "list" /\ c.value = Null /\ Index(c) = i + 1
    BY <1>1, <2>1 DEF RemovedAt, Index
  <2>3. PICK n \in Borders(u.list) : w = [u EXCEPT !.list = TableRemove(@, i + 1, n)]
    BY <2>2 DEF Apply, RemoveItem
  <2>4. PICK s : s = TableRemove(u.list, i + 1, n)
    OBVIOUS
  <2>5. w = [field |-> u.field, list |-> s]
    BY <1>2, <2>3, <2>4
  <2>6. s \in Lists
    <3>1. n \in 0..(ListMax + SendMax)
      BY <2>3 DEF Borders
    <3>2. CASE i + 1 \notin 1..n
      BY <1>2, <2>4, <3>2 DEF TableRemove
    <3>3. CASE i + 1 \in 1..n
      <4>1. PICK D : D = (DOMAIN u.list \ ((i + 1)..n)) \cup {j \in (i + 1)..(n - 1) : j + 1 \in DOMAIN u.list}
        OBVIOUS
      <4>2. s = [j \in D |-> IF j \in (i + 1)..(n - 1) THEN u.list[j + 1] ELSE u.list[j]]
        BY <2>4, <3>3, <4>1 DEF TableRemove
      <4>3. D \subseteq 1..(ListMax + SendMax)
        BY <1>1, <1>2, <3>1, <4>1
      <4>4. ASSUME NEW j \in D
            PROVE  (IF j \in (i + 1)..(n - 1) THEN u.list[j + 1] ELSE u.list[j]) \in Values
        <5>1. \A x \in DOMAIN u.list : u.list[x] \in Values
          BY <1>2
        <5>2. CASE j \in (i + 1)..(n - 1)
          BY <1>1, <3>1, <4>1, <5>1, <5>2
        <5>3. CASE j \notin (i + 1)..(n - 1)
          BY <4>1, <5>1, <5>3
        <5> QED
          BY <5>2, <5>3
      <4>5. s \in [D -> Values]
        BY <4>2, <4>4
      <4>6. DOMAIN s = D
        BY <4>2
      <4> QED
        BY <4>3, <4>5, <4>6, ListsAre
    <3> QED
      BY <3>2, <3>3
  <2>7. ASSUME u.list = d.list PROVE s = e.list
    <3>1. n = Len(d.list) /\ i + 1 \in 1..Len(d.list)
      BY <1>1, <2>3, <2>7, WithoutHoles
    <3> QED
      BY <1>1, <2>1, <2>4, <2>7, <3>1, WithoutHoles
  <2>8. w \in Copies /\ w.field = u.field /\ w.list = s /\ e.field = d.field
    BY <1>2, <2>1, <2>5, <2>6 DEF Copies
  <2> QED
    BY <2>2, <2>7, <2>8 DEF View
<1> QED
  BY <1>3, <1>5, <1>6, <1>7 DEF Follows
-----------------------------------------------------------------------------
(* The queues *)

LEMMA OfTail ==
  ASSUME NEW q \in Seq(Messages), q # <<>>, Sorted(q)
  PROVE  /\ Tail(q) \in Seq(Messages) /\ Sorted(Tail(q))
         /\ Head(q) \in Messages /\ Of(q) = {Head(q)} \cup Of(Tail(q))
         /\ \A m \in Of(Tail(q)) : Head(q).n < m.n
<1>1. /\ Len(q) \in Nat \ {0} /\ Tail(q) \in Seq(Messages) /\ Head(q) \in Messages
      /\ Len(Tail(q)) = Len(q) - 1 /\ Head(q) = q[1]
      /\ \A i \in 1..(Len(q) - 1) : Tail(q)[i] = q[i + 1]
  BY HeadTailProperties, EmptySeq
<1>2. \A i \in 1..(Len(q) - 1) : i + 1 \in 1..Len(q) /\ 1 < i + 1
  BY <1>1
<1>3. Sorted(Tail(q))
  <2> SUFFICES ASSUME NEW i \in 1..(Len(q) - 1), NEW j \in 1..(Len(q) - 1), i < j
               PROVE  Tail(q)[i].n < Tail(q)[j].n
    BY <1>1 DEF Sorted
  <2>1. i + 1 \in 1..Len(q) /\ j + 1 \in 1..Len(q) /\ i + 1 < j + 1
    BY <1>1
  <2>2. q[i + 1].n < q[j + 1].n
    BY <2>1 DEF Sorted
  <2> QED
    BY <1>1, <2>2
<1>4. Of(q) = {Head(q)} \cup Of(Tail(q))
  <2>1. ASSUME NEW m \in Of(q) PROVE m \in {Head(q)} \cup Of(Tail(q))
    <3>1. PICK i \in 1..Len(q) : m = q[i]
      BY <2>1 DEF Of
    <3>2. CASE i = 1
      BY <1>1, <3>1, <3>2
    <3>3. CASE i # 1
      <4>1. i - 1 \in 1..(Len(q) - 1) /\ (i - 1) + 1 = i
        BY <1>1, <3>3
      <4>2. m = Tail(q)[i - 1] /\ i - 1 \in 1..Len(Tail(q))
        BY <1>1, <3>1, <4>1
      <4> QED
        BY <4>2 DEF Of
    <3> QED
      BY <3>2, <3>3
  <2>2. Head(q) \in Of(q)
    <3>1. 1 \in 1..Len(q)
      BY <1>1
    <3> QED
      BY <1>1, <3>1 DEF Of
  <2>3. ASSUME NEW m \in Of(Tail(q)) PROVE m \in Of(q)
    BY <1>1, <1>2, <2>3 DEF Of
  <2> QED
    BY <2>1, <2>2, <2>3
<1>5. ASSUME NEW m \in Of(Tail(q)) PROVE Head(q).n < m.n
  <2>1. PICK i \in 1..(Len(q) - 1) : m = q[i + 1]
    BY <1>1, <1>5 DEF Of
  <2>2. 1 \in 1..Len(q) /\ i + 1 \in 1..Len(q) /\ 1 < i + 1
    BY <1>1
  <2>3. q[1].n < q[i + 1].n
    BY <2>2 DEF Sorted
  <2> QED
    BY <1>1, <2>1, <2>3
<1> QED
  BY <1>1, <1>3, <1>4, <1>5

LEMMA OfAppend ==
  ASSUME NEW q \in Seq(Messages), NEW m \in Messages, Sorted(q), \A k \in Of(q) : k.n < m.n
  PROVE  /\ Append(q, m) \in Seq(Messages) /\ Sorted(Append(q, m))
         /\ Of(Append(q, m)) = Of(q) \cup {m}
<1>1. PICK r : r = Append(q, m)
  OBVIOUS
<1>2. /\ r \in Seq(Messages) /\ Len(r) = Len(q) + 1 /\ Len(q) \in Nat
      /\ \A i \in 1..Len(q) : r[i] = q[i]
      /\ r[Len(q) + 1] = m
  BY <1>1, AppendProperties, LenProperties
<1>3. \A i \in 1..Len(r) : i \in 1..Len(q) \/ i = Len(q) + 1
  BY <1>2
<1>4. Sorted(r)
  <2> SUFFICES ASSUME NEW i \in 1..Len(r), NEW j \in 1..Len(r), i < j
               PROVE  r[i].n < r[j].n
    BY DEF Sorted
  <2>1. i \in 1..Len(q)
    BY <1>2
  <2>2. CASE j \in 1..Len(q)
    BY <1>2, <2>1, <2>2 DEF Sorted
  <2>3. CASE j = Len(q) + 1
    BY <1>2, <2>1, <2>3 DEF Of
  <2> QED
    BY <1>3, <2>2, <2>3
<1>5. Of(r) = Of(q) \cup {m}
  <2>1. ASSUME NEW x \in Of(r) PROVE x \in Of(q) \cup {m}
    BY <1>2, <1>3, <2>1 DEF Of
  <2>2. \A i \in 1..Len(q) : i \in 1..Len(r)
    BY <1>2
  <2>3. Of(q) \subseteq Of(r)
    BY <1>2, <2>2 DEF Of
  <2>4. m \in Of(r)
    <3>1. Len(q) + 1 \in 1..Len(r)
      BY <1>2
    <3> QED
      BY <1>2, <3>1 DEF Of
  <2> QED
    BY <2>1, <2>3, <2>4
<1> QED
  BY <1>1, <1>2, <1>4, <1>5

LEMMA OvertakesIs ==
  ASSUME NEW m
  PROVE  Overtakes(m) <=> \E k \in Waiting : k.n < m.n /\ Touch(m, k)
  BY DEF Overtakes, Waiting, Of
-----------------------------------------------------------------------------
(* The steps *)

\* the server sends a message, and its data is as the message says
LEMMA SentKeeps ==
  ASSUME Types, NEW h \in [Nat -> Data], NEW log \in [Nat -> Messages], Good(h, log),
         NEW m \in Messages, m.n = sent, Sends(server, m, server'), server' \in Data,
         wire' = Append(wire, m), sent' = sent + 1, UNCHANGED <<events, answers, user, overtaken>>
  PROVE  \E h2 \in [Nat -> Data], log2 \in [Nat -> Messages] : Good(h2, log2)'
<1>1. PICK h2 : h2 = [h EXCEPT ![sent + 1] = server']
  OBVIOUS
<1>2. PICK log2 : log2 = [log EXCEPT ![sent] = m]
  OBVIOUS
<1>3. /\ sent \in Nat /\ h[sent] = server /\ h2 \in [Nat -> Data] /\ log2 \in [Nat -> Messages]
      /\ h2[sent + 1] = server' /\ \A n \in 0..sent : h2[n] = h[n]
      /\ log2[sent] = m /\ \A n \in 0..(sent - 1) : log2[n] = log[n] /\ n \in 0..sent /\ n + 1 \in 0..sent
  BY <1>1, <1>2 DEF Good, HistoryInv
<1>4. HistoryInv(h2, log2)'
  <2>1. ASSUME NEW n \in 0..sent PROVE log2[n].n = n /\ Sends(h2[n], log2[n], h2[n + 1])
    <3>1. CASE n = sent
      BY <1>3, <3>1
    <3>2. CASE n # sent
      <4>1. n \in 0..(sent - 1) /\ n + 1 \in 0..sent
        BY <1>3, <3>2
      <4> QED
        BY <1>3, <4>1 DEF Good, HistoryInv
    <3> QED
      BY <3>1, <3>2
  <2>2. 0..(sent' - 1) = 0..sent
    BY <1>3
  <2> QED
    BY <1>3, <2>1, <2>2 DEF HistoryInv
<1>5. /\ wire' \in Seq(Messages) /\ Sorted(wire)' /\ Of(wire)' = Of(wire) \cup {m}
      /\ \A k \in Of(wire) \cup Waiting : k.n < m.n
  <2>1. \A k \in Pending : k.n < m.n
    BY <1>3 DEF Good, OrderInv
  <2>2. \A k \in Of(wire) : k.n < m.n
    BY <2>1 DEF Pending
  <2>3. wire \in Seq(Messages) /\ Sorted(wire)
    BY DEF Good, OrderInv
  <2>4. /\ Append(wire, m) \in Seq(Messages) /\ Sorted(Append(wire, m))
        /\ Of(Append(wire, m)) = Of(wire) \cup {m}
    BY <2>2, <2>3, OfAppend
  <2>5. (Sorted(wire)' <=> Sorted(wire')) /\ Of(wire)' = Of(wire')
    BY DEF Sorted, Of
  <2> QED
    BY <2>1, <2>4, <2>5 DEF Pending
<1>6. /\ Of(events)' = Of(events) /\ Of(answers)' = Of(answers) /\ Waiting' = Waiting
      /\ Pending' = Pending \cup {m}
  <2>1. Of(events)' = Of(events) /\ Of(answers)' = Of(answers)
    BY DEF Of
  <2> QED
    BY <1>5, <2>1 DEF Pending, Waiting
<1>7. OrderInv(log2)'
  <2>1. \A k \in Pending : k.n \in 0..(sent - 1) /\ k = log2[k.n] /\ k.n \in 0..(sent' - 1)
    BY <1>3 DEF Good, OrderInv
  <2>2. m.n \in 0..(sent' - 1) /\ m = log2[m.n]
    BY <1>3
  <2>3. user = None => \E k \in Pending' : k.n = 0
    BY <1>6 DEF Good, OrderInv
  <2>4. /\ events' \in Seq(Messages) /\ answers' \in Seq(Messages) /\ Sorted(events)' /\ Sorted(answers)'
        /\ \A k \in Of(events) : k.what = "push"
        /\ \A k \in Of(answers) : k.what # "push"
        /\ \A x \in Of(wire), k \in Waiting : k.n < x.n
    BY DEF Good, OrderInv, Sorted
  <2> QED
    BY <1>5, <1>6, <2>1, <2>2, <2>3, <2>4 DEF OrderInv
<1>8. ASSUME NEW k \in {"field", "list"}, NEW c \in 0..sent, CutInv(h, k, c)
      PROVE  c \in 0..sent' /\ CutInv(h2, k, c)'
  <2>1. \A p \in Pending' : Touches(p, k) => c <= p.n
    BY <1>3, <1>6, <1>8 DEF CutInv
  <2>2. ASSUME NEW a \in c..(sent + 1), NEW b \in c..(sent + 1), a <= b,
               \A p \in Pending' : Touches(p, k) => ~(a <= p.n /\ p.n < b)
        PROVE  View(h2[a], k) = View(h2[b], k)
    <3>1. CASE b \in c..sent
      <4>1. a \in c..sent /\ h2[a] = h[a] /\ h2[b] = h[b]
        BY <1>3, <2>2, <3>1
      <4> QED
        BY <1>6, <1>8, <2>2, <3>1, <4>1 DEF CutInv
    <3>2. CASE b = sent + 1 /\ a \in c..sent
      <4>1. ~Touches(m, k)
        <5>1. a <= m.n /\ m.n < b
          BY <1>3, <3>2
        <5> QED
          BY <1>6, <2>2, <5>1
      <4>2. View(h[a], k) = View(h[sent], k)
        <5>1. ASSUME NEW p \in Pending, Touches(p, k) PROVE ~(a <= p.n /\ p.n < sent)
          <6>1. ~(a <= p.n /\ p.n < b) /\ p.n \in 0..(sent - 1)
            BY <1>6, <2>2, <5>1 DEF Good, OrderInv
          <6> QED
            BY <1>3, <3>2, <6>1
        <5>2. sent \in c..sent /\ a <= sent
          BY <1>3, <3>2
        <5> QED
          BY <1>8, <3>2, <5>1, <5>2 DEF CutInv
      <4>3. View(server', k) = View(server, k)
        BY <4>1, ChangeFits DEF Sends, Touches, Types
      <4>4. h2[a] = h[a]
        BY <1>3, <3>2
      <4> QED
        BY <1>3, <3>2, <4>2, <4>3, <4>4
    <3>3. CASE a = b
      BY <3>3
    <3> QED
      BY <1>3, <2>2, <3>1, <3>2, <3>3
  <2>3. h2[c] = h[c] /\ c \in 0..sent'
    BY <1>3
  <2> QED
    BY <1>8, <2>1, <2>2, <2>3 DEF CutInv
<1>9. Good(h2, log2)'
  BY <1>4, <1>7, <1>8 DEF Good
<1> QED
  BY <1>3, <1>9

\* a message leaves the wire for its queue
LEMMA ReceiveKeeps ==
  ASSUME Types, NEW h, NEW log, Good(h, log), Receive
  PROVE  Good(h, log)'
<1>1. PICK m : m = Head(wire)
  OBVIOUS
<1>2. /\ wire # <<>> /\ wire' = Tail(wire) /\ Enqueue(m)
      /\ UNCHANGED <<server, user, overtaken, sent>>
  BY <1>1 DEF Receive
<1>3. /\ wire \in Seq(Messages) /\ events \in Seq(Messages) /\ answers \in Seq(Messages)
      /\ Sorted(wire) /\ Sorted(events) /\ Sorted(answers)
  BY DEF Good, OrderInv
<1>4. /\ wire' \in Seq(Messages) /\ Sorted(wire') /\ m \in Messages /\ Of(wire) = {m} \cup Of(wire')
      /\ \A k \in Of(wire') : m.n < k.n
  BY <1>1, <1>2, <1>3, OfTail
<1>5. /\ \A k \in Waiting : k.n < m.n
      /\ \A k \in Of(wire'), x \in Waiting : x.n < k.n
  BY <1>4 DEF Good, OrderInv
<1>6. /\ events' \in Seq(Messages) /\ answers' \in Seq(Messages)
      /\ Sorted(events') /\ Sorted(answers')
      /\ Of(events') \cup Of(answers') = Waiting \cup {m}
      /\ \A k \in Of(events') : k.what = "push"
      /\ \A k \in Of(answers') : k.what # "push"
  <2>1. /\ \A k \in Of(events) : k.what = "push"
        /\ \A k \in Of(answers) : k.what # "push"
        /\ \A k \in Of(events) : k.n < m.n
        /\ \A k \in Of(answers) : k.n < m.n
    BY <1>5 DEF Good, OrderInv, Waiting
  <2>2. CASE m.what = "push"
    <3>1. events' = Append(events, m) /\ answers' = answers
      BY <1>2, <2>2 DEF Enqueue
    <3>2. events' \in Seq(Messages) /\ Sorted(events') /\ Of(events') = Of(events) \cup {m}
      BY <1>3, <1>4, <2>1, <3>1, OfAppend
    <3> QED
      BY <1>3, <2>1, <2>2, <3>1, <3>2 DEF Waiting
  <2>3. CASE m.what # "push"
    <3>1. answers' = Append(answers, m) /\ events' = events
      BY <1>2, <2>3 DEF Enqueue
    <3>2. answers' \in Seq(Messages) /\ Sorted(answers') /\ Of(answers') = Of(answers) \cup {m}
      BY <1>3, <1>4, <2>1, <3>1, OfAppend
    <3> QED
      BY <1>3, <2>1, <2>3, <3>1, <3>2 DEF Waiting
  <2> QED
    BY <2>2, <2>3
<1>7. /\ Of(wire)' = Of(wire') /\ Of(events)' = Of(events') /\ Of(answers)' = Of(answers')
      /\ (Sorted(wire)' <=> Sorted(wire')) /\ (Sorted(events)' <=> Sorted(events'))
      /\ (Sorted(answers)' <=> Sorted(answers'))
  BY DEF Of, Sorted
<1>8. Waiting' = Waiting \cup {m} /\ Pending' = Pending
  BY <1>4, <1>6, <1>7 DEF Waiting, Pending
<1>9. OrderInv(log)'
  <2>1. \A k \in Of(wire'), x \in Waiting \cup {m} : x.n < k.n
    BY <1>4, <1>5
  <2>2. /\ \A k \in Pending : k.n \in 0..(sent - 1) /\ k = log[k.n]
        /\ user = None => sent = 0 \/ \E k \in Pending : k.n = 0
    BY DEF Good, OrderInv
  <2> QED
    BY <1>2, <1>4, <1>6, <1>7, <1>8, <2>1, <2>2 DEF OrderInv
<1>10. HistoryInv(h, log)'
  BY <1>2 DEF Good, HistoryInv
<1>11. ASSUME NEW k, NEW c, CutInv(h, k, c) PROVE CutInv(h, k, c)'
  BY <1>2, <1>8, <1>11 DEF CutInv
<1> QED
  BY <1>2, <1>9, <1>10, <1>11 DEF Good

\* a message that is dispatched before the login was overtakes it
LEMMA LoginFirst ==
  ASSUME NEW h, NEW log, Good(h, log), user = None, NEW m \in Waiting, m.what # "login"
  PROVE  \E k \in Of(answers) : k.n = 0 /\ k.n < m.n /\ k.what = "login"
<1>1. m \in Pending /\ m.n \in 0..(sent - 1) /\ m = log[m.n] /\ sent \in Nat
  BY DEF Good, OrderInv, HistoryInv, Pending
<1>2. m.n # 0
  BY <1>1 DEF Good, HistoryInv, Sends
<1>3. PICK k \in Pending : k.n = 0
  BY <1>1 DEF Good, OrderInv
<1>4. k.what = "login" /\ k.n < m.n
  <2>1. 0 \in 0..(sent - 1) /\ k = log[0]
    BY <1>1, <1>3 DEF Good, OrderInv
  <2> QED
    BY <1>1, <1>2, <1>3, <2>1 DEF Good, HistoryInv, Sends
<1>5. k \notin Of(wire)
  <2>1. ASSUME k \in Of(wire) PROVE FALSE
    <3>1. m.n < k.n
      BY <2>1 DEF Good, OrderInv
    <3> QED
      BY <1>1, <1>3, <3>1
  <2> QED
    BY <2>1
<1>6. k \notin Of(events)
  BY <1>4 DEF Good, OrderInv
<1> QED
  BY <1>3, <1>4, <1>5, <1>6 DEF Pending, Waiting

\* a message is dispatched, the login or a change, and a change before the login is dropped
LEMMA DispatchKeeps ==
  ASSUME Types, NEW h \in [Nat -> Data], NEW log, Good(h, log), NEW m \in Waiting,
         Pending' = Pending \ {m}, Waiting' \subseteq Waiting, Of(events)' \subseteq Of(events),
         Of(answers)' \subseteq Of(answers),
         events' \in Seq(Messages), answers' \in Seq(Messages), Sorted(events)', Sorted(answers)',
         overtaken' = (overtaken \/ Overtakes(m)), UNCHANGED <<server, wire, sent>>,
         \/ m.what = "login" /\ user' = m.content
         \/ m.what # "login" /\ user # None /\ user' \in Apply(user, m.content)
         \/ m.what # "login" /\ user = None /\ user' = None
  PROVE  Good(h, log)' /\ (user' = None \/ user' \in Copies)
<1>1. /\ m \in Pending /\ m.n \in 0..(sent - 1) /\ m = log[m.n] /\ sent \in Nat
      /\ Sends(h[m.n], m, h[m.n + 1]) /\ h[m.n] \in Data /\ h[m.n + 1] \in Data
      /\ m.n + 1 \in 0..sent
  BY DEF Good, OrderInv, HistoryInv, Pending
<1>2. \A p \in Pending : p.n \in 0..(sent - 1) /\ p = log[p.n]
  BY DEF Good, OrderInv
<1>3. m.what = "login" => user' \in Copies /\ m.n = 0
  <2> SUFFICES ASSUME m.what = "login" PROVE user' \in Copies /\ m.n = 0
    OBVIOUS
  <2>1. user' = h[0] /\ m.n = 0 /\ h[0] \in Data
    BY <1>1 DEF Sends
  <2>2. h[0].list \in Lists
    BY <2>1, WithoutHoles DEF Data
  <2> QED
    BY <2>1, <2>2 DEF Data, Copies
<1>4. m.what # "login" => m.n # 0 /\ Follows(h[m.n], m.content, h[m.n + 1])
  BY <1>1 DEF Sends
<1>5. m.what # "login" /\ user # None => user \in Copies /\ user' \in Copies
  BY <1>1, <1>4, ApplyFits DEF Types
<1>6. None \notin Copies
  BY DataAssumption DEF Copies
<1>7. user' = None => user = None /\ m.what # "login"
  BY <1>3, <1>5, <1>6
<1>8. user' = None \/ user' \in Copies
  BY <1>3, <1>5
<1>9. m.what # "login" /\ user = None => \E k \in Waiting : k.n = 0 /\ k.n < m.n /\ k.what = "login"
  BY LoginFirst DEF Waiting
<1>10. HistoryInv(h, log)'
  BY DEF Good, HistoryInv
<1>11. OrderInv(log)'
  <2>1. Of(wire)' = Of(wire) /\ (Sorted(wire)' <=> Sorted(wire))
    BY DEF Of, Sorted
  <2>2. \A k \in Of(wire)', x \in Waiting' : x.n < k.n
    BY <2>1 DEF Good, OrderInv
  <2>3. \A p \in Pending' : p.n \in 0..(sent' - 1) /\ p = log[p.n]
    BY <1>2
  <2>4. user' = None => \E k \in Pending' : k.n = 0
    <3> SUFFICES ASSUME user' = None PROVE \E k \in Pending' : k.n = 0
      OBVIOUS
    <3>1. PICK k \in Waiting : k.n = 0 /\ k.n < m.n
      BY <1>7, <1>9
    <3>2. k # m
      BY <1>1, <3>1
    <3> QED
      BY <3>1, <3>2 DEF Pending
  <2>5. /\ \A k \in Of(events)' : k.what = "push"
        /\ \A k \in Of(answers)' : k.what # "push"
    BY DEF Good, OrderInv
  <2>6. wire' \in Seq(Messages) /\ Sorted(wire)'
    BY <2>1 DEF Good, OrderInv
  <2> QED
    BY <2>2, <2>3, <2>4, <2>5, <2>6 DEF OrderInv
<1>12. ASSUME ~overtaken', NEW k \in {"field", "list"} PROVE \E c \in 0..sent : CutInv(h, k, c)'
  <2>1. ~overtaken /\ ~\E p \in Waiting : p.n < m.n /\ Touch(m, p)
    BY <1>12, OvertakesIs
  <2>2. PICK c \in 0..sent : CutInv(h, k, c)
    BY <2>1 DEF Good
  <2>3. user # None \/ m.what = "login"
    BY <1>9, <2>1 DEF Touch
  <2>4. user' # None
    BY <1>7, <2>3
  <2>5. ASSUME NEW p \in Pending', Touches(m, k), Touches(p, k) PROVE m.n + 1 <= p.n
    <3>1. p \in Pending /\ p # m /\ p.n \in 0..(sent - 1) /\ p.n # m.n
      BY <1>1, <1>2
    <3>2. ~(p.n < m.n)
      <4>1. CASE p \in Of(wire)
        <5>1. m.n < p.n
          BY <4>1 DEF Good, OrderInv
        <5> QED
          BY <1>1, <3>1, <5>1
      <4>2. CASE p \in Waiting
        BY <2>1, <2>5, <4>2 DEF Touch, Touches
      <4> QED
        BY <3>1, <4>1, <4>2 DEF Pending
    <3> QED
      BY <1>1, <3>1, <3>2
  <2>6. CASE Touches(m, k)
    <3>1. View(user', k) = View(h[m.n + 1], k)
      <4>1. CASE m.what = "login"
        BY <1>1, <4>1 DEF Sends
      <4>2. CASE m.what # "login"
        <5>1. user # None /\ user' \in Apply(user, m.content) /\ user \in Copies /\ m.content.key = k
          BY <1>5, <2>3, <2>6, <4>2 DEF Touches
        <5>2. View(user, k) = View(h[c], k) /\ c <= m.n
          BY <1>1, <2>2, <2>6, <5>1 DEF CutInv
        <5>3. ASSUME NEW p \in Pending, Touches(p, k) PROVE ~(c <= p.n /\ p.n < m.n)
          <6>1. p = m \/ p \in Pending'
            OBVIOUS
          <6>2. p \in Pending' => m.n + 1 <= p.n
            BY <2>5, <2>6, <5>3
          <6>3. p.n \in 0..(sent - 1)
            BY <1>2
          <6> QED
            BY <1>1, <6>1, <6>2, <6>3
        <5>4. View(h[c], k) = View(h[m.n], k)
          <6>1. c \in c..sent /\ m.n \in c..sent
            BY <1>1, <5>2
          <6> QED
            BY <2>2, <5>2, <5>3, <6>1 DEF CutInv
        <5> QED
          BY <1>1, <1>4, <4>2, <5>1, <5>2, <5>4, ApplyFits
      <4> QED
        BY <4>1, <4>2
    <3>2. ASSUME NEW a \in (m.n + 1)..sent, NEW b \in (m.n + 1)..sent, a <= b,
                 \A p \in Pending' : Touches(p, k) => ~(a <= p.n /\ p.n < b)
          PROVE  View(h[a], k) = View(h[b], k)
      <4>1. a \in c..sent /\ b \in c..sent
        <5>1. c <= m.n
          BY <1>1, <2>2, <2>6 DEF CutInv
        <5> QED
          BY <1>1, <5>1
      <4>2. ASSUME NEW p \in Pending, Touches(p, k) PROVE ~(a <= p.n /\ p.n < b)
        <5>1. CASE p = m
          BY <1>1, <5>1
        <5>2. CASE p # m
          BY <3>2, <4>2, <5>2
        <5> QED
          BY <5>1, <5>2
      <4> QED
        BY <2>2, <3>2, <4>1, <4>2 DEF CutInv
    <3>3. CutInv(h, k, m.n + 1)'
      BY <1>1, <2>4, <2>5, <2>6, <3>1, <3>2 DEF CutInv
    <3> QED
      BY <1>1, <3>3
  <2>7. CASE ~Touches(m, k)
    <3>1. m.what # "login" /\ user # None /\ user' \in Apply(user, m.content) /\ m.content.key # k
      BY <2>3, <2>7 DEF Touches
    <3>2. View(user', k) = View(user, k)
      BY <1>1, <1>4, <1>5, <3>1, ApplyFits
    <3>3. ASSUME NEW a, NEW b, \A p \in Pending' : Touches(p, k) => ~(a <= p.n /\ p.n < b)
          PROVE  \A p \in Pending : Touches(p, k) => ~(a <= p.n /\ p.n < b)
      BY <2>7, <3>3
    <3>4. CutInv(h, k, c)'
      BY <2>2, <2>4, <3>1, <3>2, <3>3 DEF CutInv
    <3> QED
      BY <3>4
  <2> QED
    BY <2>6, <2>7
<1>13. Good(h, log)'
  BY <1>10, <1>11, <1>12 DEF Good
<1> QED
  BY <1>8, <1>13

LEMMA DispatchEventKeeps ==
  ASSUME Types, NEW h \in [Nat -> Data], NEW log, Good(h, log), DispatchEvent
  PROVE  Good(h, log)' /\ (user' = None \/ user' \in Copies)
<1>1. UNCHANGED <<server, asked, wire, answers, sent>>
  BY DEF DispatchEvent
<1>2. CASE events = <<>>
  <2>1. UNCHANGED <<server, wire, events, answers, user, overtaken, sent>>
    BY <1>1, <1>2 DEF DispatchEvent
  <2>2. Pending' = Pending /\ Waiting' = Waiting /\ Of(wire)' = Of(wire)
        /\ Of(events)' = Of(events) /\ Of(answers)' = Of(answers)
    BY <2>1 DEF Pending, Waiting, Of
  <2>3. HistoryInv(h, log)' /\ OrderInv(log)'
    BY <2>1, <2>2 DEF Good, HistoryInv, OrderInv, Sorted
  <2>4. ASSUME NEW k, NEW c, CutInv(h, k, c) PROVE CutInv(h, k, c)'
    BY <2>1, <2>2, <2>4 DEF CutInv
  <2> QED
    BY <2>1, <2>3, <2>4 DEF Good, Types
<1>3. CASE events # <<>>
  <2>1. PICK m : m = Head(events)
    OBVIOUS
  <2>2. /\ events' = Tail(events) /\ overtaken' = (overtaken \/ Overtakes(m))
        /\ user # None => user' \in Apply(user, m.content)
        /\ user = None => user' = None
    BY <1>3, <2>1 DEF DispatchEvent, Inited
  <2>3. /\ events' \in Seq(Messages) /\ Sorted(events') /\ Of(events) = {m} \cup Of(events')
        /\ \A k \in Of(events') : m.n < k.n
    BY <1>3, <2>1, <2>2, OfTail DEF Good, OrderInv
  <2>4. /\ Of(wire)' = Of(wire) /\ Of(events)' = Of(events') /\ Of(answers)' = Of(answers)
        /\ (Sorted(events)' <=> Sorted(events')) /\ (Sorted(answers)' <=> Sorted(answers))
    BY <1>1 DEF Of, Sorted
  <2>5. /\ m \in Waiting /\ m.what = "push" /\ m.n \in Nat
        /\ m \notin Of(answers) /\ m \notin Of(events') /\ m \notin Of(wire)
    <3>1. m \in Waiting /\ m.what = "push" /\ m \notin Of(answers) /\ m.n \in 0..(sent - 1)
      BY <2>3 DEF Waiting, Pending, Good, OrderInv
    <3>2. \A k \in Of(wire) : m.n < k.n
      BY <3>1 DEF Good, OrderInv
    <3>3. m.n \in Nat /\ ~(m.n < m.n)
      BY <3>1 DEF Good, HistoryInv
    <3> QED
      BY <2>3, <3>1, <3>2, <3>3
  <2>6. Waiting' = Waiting \ {m} /\ Pending' = Pending \ {m}
    BY <2>3, <2>4, <2>5 DEF Waiting, Pending
  <2>7. /\ Waiting' \subseteq Waiting /\ Of(events)' \subseteq Of(events) /\ Of(answers)' \subseteq Of(answers)
        /\ events' \in Seq(Messages) /\ answers' \in Seq(Messages) /\ Sorted(events)' /\ Sorted(answers)'
        /\ UNCHANGED <<server, wire, sent>>
    BY <1>1, <2>3, <2>4, <2>6 DEF Good, OrderInv
  <2>8. \/ m.what = "login" /\ user' = m.content
        \/ m.what # "login" /\ user # None /\ user' \in Apply(user, m.content)
        \/ m.what # "login" /\ user = None /\ user' = None
    BY <2>2, <2>5
  <2> QED
    BY <2>2, <2>5, <2>6, <2>7, <2>8, DispatchKeeps
<1> QED
  BY <1>2, <1>3

LEMMA DispatchAnswerKeeps ==
  ASSUME Types, NEW h \in [Nat -> Data], NEW log, Good(h, log), DispatchAnswer
  PROVE  Good(h, log)' /\ (user' = None \/ user' \in Copies)
<1>1. UNCHANGED <<server, wire, events, sent>>
  BY DEF DispatchAnswer
<1>2. CASE answers = <<>>
  <2>1. UNCHANGED <<server, wire, events, answers, user, overtaken, sent>>
    BY <1>1, <1>2 DEF DispatchAnswer
  <2>2. Pending' = Pending /\ Waiting' = Waiting /\ Of(wire)' = Of(wire)
        /\ Of(events)' = Of(events) /\ Of(answers)' = Of(answers)
    BY <2>1 DEF Pending, Waiting, Of
  <2>3. HistoryInv(h, log)' /\ OrderInv(log)'
    BY <2>1, <2>2 DEF Good, HistoryInv, OrderInv, Sorted
  <2>4. ASSUME NEW k, NEW c, CutInv(h, k, c) PROVE CutInv(h, k, c)'
    BY <2>1, <2>2, <2>4 DEF CutInv
  <2> QED
    BY <2>1, <2>3, <2>4 DEF Good, Types
<1>3. CASE answers # <<>>
  <2>1. PICK m : m = Head(answers)
    OBVIOUS
  <2>2. /\ answers' = Tail(answers) /\ overtaken' = (overtaken \/ Overtakes(m))
        /\ m.what = "login" => user' = m.content
        /\ m.what # "login" => user' \in Apply(user, m.content)
    BY <1>3, <2>1 DEF DispatchAnswer
  <2>3. /\ answers' \in Seq(Messages) /\ Sorted(answers') /\ Of(answers) = {m} \cup Of(answers')
        /\ \A k \in Of(answers') : m.n < k.n
    BY <1>3, <2>1, <2>2, OfTail DEF Good, OrderInv
  <2>4. /\ Of(wire)' = Of(wire) /\ Of(answers)' = Of(answers') /\ Of(events)' = Of(events)
        /\ (Sorted(answers)' <=> Sorted(answers')) /\ (Sorted(events)' <=> Sorted(events))
    BY <1>1 DEF Of, Sorted
  <2>5. /\ m \in Waiting /\ m.what # "push" /\ m.n \in Nat
        /\ m \notin Of(events) /\ m \notin Of(answers') /\ m \notin Of(wire)
    <3>1. m \in Waiting /\ m.what # "push" /\ m \notin Of(events) /\ m.n \in 0..(sent - 1)
      BY <2>3 DEF Waiting, Pending, Good, OrderInv
    <3>2. \A k \in Of(wire) : m.n < k.n
      BY <3>1 DEF Good, OrderInv
    <3>3. m.n \in Nat /\ ~(m.n < m.n)
      BY <3>1 DEF Good, HistoryInv
    <3> QED
      BY <2>3, <3>1, <3>2, <3>3
  <2>6. Waiting' = Waiting \ {m} /\ Pending' = Pending \ {m}
    BY <2>3, <2>4, <2>5 DEF Waiting, Pending
  <2>7. /\ Waiting' \subseteq Waiting /\ Of(events)' \subseteq Of(events) /\ Of(answers)' \subseteq Of(answers)
        /\ events' \in Seq(Messages) /\ answers' \in Seq(Messages) /\ Sorted(events)' /\ Sorted(answers)'
        /\ UNCHANGED <<server, wire, sent>>
    BY <1>1, <2>3, <2>4, <2>6 DEF Good, OrderInv
  <2>8. m.what # "login" => user # None
    <3> SUFFICES ASSUME m.what # "login", user = None PROVE FALSE
      OBVIOUS
    <3>1. PICK k \in Of(answers) : k.n = 0 /\ k.n < m.n
      BY <2>5, LoginFirst
    <3>2. k = m \/ m.n < k.n
      BY <2>3
    <3> QED
      BY <2>5, <3>1, <3>2
  <2>9. \/ m.what = "login" /\ user' = m.content
        \/ m.what # "login" /\ user # None /\ user' \in Apply(user, m.content)
        \/ m.what # "login" /\ user = None /\ user' = None
    BY <2>2, <2>8
  <2> QED
    BY <2>2, <2>5, <2>6, <2>7, <2>9, DispatchKeeps
<1> QED
  BY <1>2, <1>3

\* what the server makes of its own change is what the message says
LEMMA ChangedIs ==
  ASSUME server \in Data, NEW change \in Changes
  PROVE  Follows(server, change, Changed(change))
<1>1. Null \notin Values /\ Len(server.list) \in Nat
  BY LenProperties, DataAssumption DEF Data
<1>2. CASE change \in {Set(v) : v \in Values}
  <2>1. PICK v \in Values : change = Set(v)
    BY <1>2
  <2>2. Changed(change) = [server EXCEPT !.field = v]
    BY <2>1 DEF Changed, Set
  <2> QED
    BY <2>1, <2>2 DEF Follows
<1>3. CASE change \in {SetItem(i, v) : i \in 0..(Len(server.list) - 1), v \in Values}
  <2>1. PICK i \in 0..(Len(server.list) - 1), v \in Values : change = SetItem(i, v)
    BY <1>3
  <2>2. change.key # "field" /\ change.value = v /\ v # Null /\ change.index = i /\ i # Len(server.list)
    BY <1>1, <2>1 DEF SetItem
  <2>3. Changed(change) = [server EXCEPT !.list[i + 1] = v]
    BY <2>2 DEF Changed
  <2> QED
    BY <2>1, <2>3 DEF Follows
<1>4. CASE change \in {SetItem(Len(server.list), v) : v \in {w \in Values : Len(server.list) < ListMax}}
  <2>1. PICK v \in Values : Len(server.list) < ListMax /\ change = SetItem(Len(server.list), v)
    BY <1>4
  <2>2. change.key # "field" /\ change.value = v /\ v # Null /\ change.index = Len(server.list)
    BY <1>1, <2>1 DEF SetItem
  <2>3. Changed(change) = [server EXCEPT !.list = Append(@, v)]
    BY <2>2 DEF Changed
  <2> QED
    BY <2>1, <2>3 DEF Follows
<1>5. CASE change \in {RemovedAt(i) : i \in 0..(Len(server.list) - 1)}
  <2>1. PICK i \in 0..(Len(server.list) - 1) : change = RemovedAt(i)
    BY <1>5
  <2>2. change.key # "field" /\ change.value = Null /\ change.index = i
    BY <2>1 DEF RemovedAt
  <2>3. Changed(change) = [server EXCEPT !.list = RemoveAt(@, i + 1)]
    BY <2>2 DEF Changed
  <2> QED
    BY <2>1, <2>3 DEF Follows
<1> QED
  BY <1>2, <1>3, <1>4, <1>5 DEF Changes

LEMMA ServerStep ==
  ASSUME Types, NEW h \in [Nat -> Data], NEW log \in [Nat -> Messages], Good(h, log),
         ServerLogin \/ \E change \in Changes : ServerPush(change) \/ ServerAnswers(change)
  PROVE  Types' /\ \E h2 \in [Nat -> Data], log2 \in [Nat -> Messages] : Good(h2, log2)'
<1>0. sent \in Nat /\ SendMax \in Nat \ {0} /\ server \in Data
  BY DataAssumption DEF Types
<1>1. CASE ServerLogin
  <2>1. PICK m : m = Message("login", server)
    OBVIOUS
  <2>2. /\ sent = 0 /\ m.n = sent /\ m.what = "login" /\ m.content = server /\ m \in Messages
        /\ wire' = Append(wire, m) /\ sent' = sent + 1 /\ asked' = "answer"
        /\ UNCHANGED <<server, events, answers, turn, user, overtaken>>
    BY <1>0, <1>1, <2>1 DEF ServerLogin, Message, Messages
  <2>3. Sends(server, m, server') /\ server' \in Data
    BY <1>0, <2>2 DEF Sends
  <2>4. Types'
    BY <1>0, <2>2 DEF Types
  <2> QED
    BY <2>2, <2>3, <2>4, SentKeeps
<1>2. ASSUME NEW change \in Changes, NEW what \in {"push", "answer"}, ServerSends(what, change),
             asked' \in {asked, "answer"}, UNCHANGED <<events, answers, turn, user, overtaken>>
      PROVE  Types' /\ \E h2 \in [Nat -> Data], log2 \in [Nat -> Messages] : Good(h2, log2)'
  <2>1. PICK m : m = Message(what, change)
    OBVIOUS
  <2>2. Follows(server, change, Changed(change))
    BY <1>0, ChangedIs
  <2>3. change \in Change /\ Changed(change) \in Data
    BY <1>0, <2>2, ChangeFits
  <2>4. /\ sent > 0 /\ sent < SendMax /\ m.n = sent /\ m.what = what /\ m.content = change /\ m \in Messages
        /\ wire' = Append(wire, m) /\ sent' = sent + 1 /\ server' = Changed(change)
    BY <1>0, <1>2, <2>1, <2>3 DEF ServerSends, Message, Messages
  <2>5. Sends(server, m, server') /\ server' \in Data
    BY <1>0, <1>2, <2>2, <2>3, <2>4 DEF Sends
  <2>6. Types'
    BY <1>0, <1>2, <2>4, <2>5 DEF Types
  <2> QED
    BY <1>2, <2>4, <2>5, <2>6, SentKeeps
<1>3. CASE \E change \in Changes : ServerPush(change) \/ ServerAnswers(change)
  <2>1. PICK change \in Changes : ServerPush(change) \/ ServerAnswers(change)
    BY <1>3
  <2>2. CASE ServerPush(change)
    BY <1>2, <2>2 DEF ServerPush
  <2>3. CASE ServerAnswers(change)
    BY <1>2, <2>3 DEF ServerAnswers
  <2> QED
    BY <2>1, <2>2, <2>3
<1> QED
  BY <1>1, <1>3
-----------------------------------------------------------------------------
(* The inductive invariant *)

LEMMA InitIsGood ==
  ASSUME Init
  PROVE  IInv
<1>1. /\ server \in Data /\ asked = "login" /\ turn = "event" /\ user = None /\ overtaken = FALSE /\ sent = 0
      /\ wire = <<>> /\ events = <<>> /\ answers = <<>>
  <2>1. server \in [field : Values, list : {<<>>} \cup {<<v>> : v \in Values}]
    BY DEF Init
  <2>2. /\ server.field \in Values /\ server = [field |-> server.field, list |-> server.list]
        /\ server.list = <<>> \/ \E v \in Values : server.list = <<v>>
    BY <2>1
  <2>3. server.list \in Seq(Values) /\ Len(server.list) <= ListMax
    <3>1. CASE server.list = <<>>
      BY <3>1, DataAssumption
    <3>2. CASE \E v \in Values : server.list = <<v>>
      <4>1. PICK v \in Values : server.list = <<v>>
        BY <3>2
      <4> QED
        BY <4>1, DataAssumption
    <3> QED
      BY <2>2, <3>1, <3>2
  <2>4. server \in Data
    BY <2>2, <2>3 DEF Data
  <2> QED
    BY <2>4 DEF Init
<1>2. Types
  <2>1. 0 \in 0..SendMax
    BY DataAssumption
  <2>2. <<>> \in Seq(Messages)
    OBVIOUS
  <2> QED
    BY <1>1, <2>1, <2>2 DEF Types
<1>3. PICK h : h = [n \in Nat |-> server]
  OBVIOUS
<1>4. PICK log : log = [n \in Nat |-> Message("login", server)]
  OBVIOUS
<1>5. h \in [Nat -> Data] /\ log \in [Nat -> Messages] /\ h[0] = server
  <2>1. Message("login", server) \in Messages
    BY <1>1 DEF Message, Messages
  <2> QED
    BY <1>1, <1>3, <1>4, <2>1
<1>6. /\ Of(wire) = {} /\ Of(events) = {} /\ Of(answers) = {}
      /\ Sorted(wire) /\ Sorted(events) /\ Sorted(answers)
      /\ <<>> \in Seq(Messages)
  BY <1>1 DEF Of, Sorted
<1>7. HistoryInv(h, log)
  BY <1>1, <1>5 DEF HistoryInv
<1>8. OrderInv(log)
  BY <1>1, <1>6 DEF OrderInv, Pending, Waiting
<1>9. ASSUME NEW k \in {"field", "list"} PROVE 0 \in 0..sent /\ CutInv(h, k, 0)
  <2>1. \A a, b \in 0..sent : a = b
    BY <1>1
  <2> QED
    BY <1>1, <1>6, <2>1 DEF CutInv, Pending, Waiting
<1> QED
  BY <1>2, <1>5, <1>7, <1>8, <1>9 DEF IInv, Good

LEMMA StepIsGood ==
  ASSUME IInv, [Next]_vars
  PROVE  IInv'
<1>1. PICK h \in [Nat -> Data], log \in [Nat -> Messages] : Good(h, log)
  BY DEF IInv
<1>2. Types
  BY DEF IInv
<1>3. CASE ServerLogin \/ \E change \in Changes : ServerPush(change) \/ ServerAnswers(change)
  BY <1>1, <1>2, <1>3, ServerStep DEF IInv
<1>4. CASE Receive
  <2>1. Good(h, log)'
    BY <1>1, <1>2, <1>4, ReceiveKeeps
  <2>2. Types'
    BY <1>2, <1>4 DEF Receive, Types
  <2> QED
    BY <1>1, <2>1, <2>2 DEF IInv
<1>5. CASE DispatchEvent
  <2>1. Good(h, log)' /\ (user' = None \/ user' \in Copies)
    BY <1>1, <1>2, <1>5, DispatchEventKeeps
  <2>2. overtaken' \in BOOLEAN
    BY <1>2, <1>5 DEF DispatchEvent, Types
  <2>3. Types'
    BY <1>2, <1>5, <2>1, <2>2 DEF DispatchEvent, Types
  <2> QED
    BY <1>1, <2>1, <2>3 DEF IInv
<1>6. CASE DispatchAnswer
  <2>1. Good(h, log)' /\ (user' = None \/ user' \in Copies)
    BY <1>1, <1>2, <1>6, DispatchAnswerKeeps
  <2>2. overtaken' \in BOOLEAN /\ asked' \in {"login", "request", "answer", None}
    BY <1>2, <1>6 DEF DispatchAnswer, Types
  <2>3. Types'
    BY <1>2, <1>6, <2>1, <2>2 DEF DispatchAnswer, Types
  <2> QED
    BY <1>1, <2>1, <2>3 DEF IInv
<1>7. CASE Ask \/ UNCHANGED vars
  <2>1. /\ UNCHANGED <<server, wire, events, answers, turn, user, overtaken, sent>>
        /\ asked' \in {asked, "request"}
    BY <1>7 DEF Ask, vars
  <2>2. Pending' = Pending /\ Waiting' = Waiting /\ Of(wire)' = Of(wire)
        /\ Of(events)' = Of(events) /\ Of(answers)' = Of(answers)
    BY <2>1 DEF Pending, Waiting, Of
  <2>3. HistoryInv(h, log)' /\ OrderInv(log)'
    BY <1>1, <2>1, <2>2 DEF Good, HistoryInv, OrderInv, Sorted
  <2>4. ASSUME NEW k, NEW c, CutInv(h, k, c) PROVE CutInv(h, k, c)'
    BY <2>1, <2>2, <2>4 DEF CutInv
  <2>5. Good(h, log)'
    BY <1>1, <2>1, <2>3, <2>4 DEF Good
  <2>6. Types'
    BY <1>2, <2>1 DEF Types
  <2> QED
    BY <1>1, <2>5, <2>6 DEF IInv
<1> QED
  BY <1>3, <1>4, <1>5, <1>6, <1>7 DEF Next

LEMMA AlwaysGood == Spec => []IInv
<1>1. Init => IInv
  BY InitIsGood
<1>2. IInv /\ [Next]_vars => IInv'
  BY StepIsGood
<1> QED
  BY <1>1, <1>2, PTL DEF Spec
-----------------------------------------------------------------------------
(* What the copy promises *)

\* The server's list has no more items than it may, and the robot's copy is a table of values, whatever
\* the messages did to it.
THEOREM DataTypes == Spec => []TypeOK
<1>1. IInv => TypeOK
  BY DEF IInv, Types, TypeOK, Data, Copies
<1> QED
  BY <1>1, AlwaysGood, PTL

\* When nothing is on the way the copy is the server's data, unless a message was dispatched before an
\* earlier one about the same key: no index of a list means another item then, and none is lost.
THEOREM CopyIsCurrent == Spec => []DataCurrent
<1>1. IInv => DataCurrent
  <2> SUFFICES ASSUME IInv, AtRest, ~overtaken PROVE user = server
    BY DEF DataCurrent
  <2>1. PICK h \in [Nat -> Data], log \in [Nat -> Messages] : Good(h, log)
    BY DEF IInv
  <2>2. Pending = {} /\ user # None /\ user \in Copies /\ server \in Data /\ sent \in Nat /\ h[sent] = server
    BY <2>1 DEF AtRest, Pending, Waiting, Of, IInv, Types, Good, HistoryInv
  <2>3. ASSUME NEW k \in {"field", "list"} PROVE View(user, k) = View(server, k)
    <3>1. PICK c \in 0..sent : CutInv(h, k, c)
      BY <2>1, <2>3 DEF Good
    <3>2. View(user, k) = View(h[c], k)
      BY <2>2, <3>1 DEF CutInv
    <3>3. c \in c..sent /\ sent \in c..sent /\ c <= sent
      BY <2>2
    <3>4. View(h[c], k) = View(h[sent], k)
      BY <2>2, <3>1, <3>3 DEF CutInv
    <3> QED
      BY <2>2, <3>2, <3>4
  <2>4. user.field = server.field /\ user.list = server.list
    BY <2>3 DEF View
  <2>5. user = [field |-> user.field, list |-> user.list]
        /\ server = [field |-> server.field, list |-> server.list]
    BY <2>2 DEF Copies, Data
  <2> QED
    BY <2>4, <2>5
<1> QED
  BY <1>1, AlwaysGood, PTL
=============================================================================
