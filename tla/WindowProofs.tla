---------------------------- MODULE WindowProofs ----------------------------
(***************************************************************************)
(* How much lies in memory between the channel and the disk: of the first  *)
(* file a page asks for, at most one window for each connection so far.    *)
(*                                                                         *)
(* The argument keeps accounts.  A connection lets one window in, and what *)
(* stands for the right to it changes its form: the hello of the channel,  *)
(* the "get" that answers it, the request in the server's queue and the    *)
(* "start" it is served with are one and the same (Asks).  Of as many      *)
(* windows as there were connections, those no longer asked for are the    *)
(* ones used up, and every offset that is asked for, every chunk under way *)
(* and every byte received is within these (AccountsAt).  Once the end of  *)
(* the file is on its way the whole file is within the windows let in      *)
(* (Fits), and its size is the bound from then on.                         *)
(***************************************************************************)
EXTENDS SinkProofs, FiniteSetTheorems

USE ProtocolAssumption, EnvironmentAssumption

-----------------------------------------------------------------------------
(* Counting messages. *)

At(q, t) == {i \in DOMAIN q : q[i].t = t}
Count(q, t) == Cardinality(At(q, t))

LEMMA CountNat ==
    ASSUME NEW S, NEW q \in Seq(S), NEW t
    PROVE  IsFiniteSet(At(q, t)) /\ Count(q, t) \in Nat
<1>1. Len(q) \in Nat /\ DOMAIN q = 1 .. Len(q)
  BY LenProperties
<1>2. IsFiniteSet(1 .. Len(q))
  BY <1>1, FS_Interval
<1>3. At(q, t) \in SUBSET (1 .. Len(q))
  BY <1>1 DEF At
<1>4. IsFiniteSet(At(q, t))
  BY <1>2, <1>3, FS_Subset
<1>5. QED
  BY <1>4, FS_CardinalityType DEF Count

LEMMA Shifted ==
    ASSUME NEW A \in SUBSET Int, IsFiniteSet(A), NEW k \in Int
    PROVE  LET B == {i + k : i \in A}
           IN  IsFiniteSet(B) /\ Cardinality(B) = Cardinality(A)
<1> DEFINE B == {i + k : i \in A}
           h == [i \in A |-> i + k]
<1>1. h \in Bijection(A, B)
  BY DEF Bijection, Injection, Surjection, IsInjective
<1>2. ExistsBijection(A, B)
  BY <1>1 DEF ExistsBijection
<1>3. QED
  BY <1>2, FS_Bijection

LEMMA CountConcat ==
    ASSUME NEW S, NEW q \in Seq(S), NEW s \in Seq(S), NEW t
    PROVE  Count(q \o s, t) = Count(q, t) + Count(s, t)
<1> DEFINE k == Len(q)
           A == At(q, t)
           B == At(s, t)
           C == {i + k : i \in B}
           b == q \o s
<1>1. /\ k \in Nat /\ Len(s) \in Nat
      /\ DOMAIN q = 1 .. k /\ DOMAIN s = 1 .. Len(s)
  BY LenProperties
<1>2. /\ b \in Seq(S) /\ Len(b) = k + Len(s)
      /\ \A i \in 1 .. k : b[i] = q[i]
      /\ \A i \in k + 1 .. k + Len(s) : b[i] = s[i - k]
  BY <1>1, ConcatProperties
<1>3. DOMAIN b = 1 .. k + Len(s)
  BY <1>2, LenProperties
<1>4. IsFiniteSet(A) /\ IsFiniteSet(B)
  BY CountNat
<1>5. A \in SUBSET (1 .. k) /\ B \in SUBSET (1 .. Len(s))
  BY <1>1 DEF At
<1>6. IsFiniteSet(C) /\ Cardinality(C) = Cardinality(B)
  <2>1. B \in SUBSET Int /\ k \in Int
    BY <1>1, <1>5
  <2> HIDE DEF B, k
  <2>2. QED
    BY <1>4, <2>1, Shifted
<1>7. C \in SUBSET (k + 1 .. k + Len(s))
  BY <1>1, <1>5
<1> HIDE DEF b
<1>8. At(b, t) = A \cup C
  <2>1. ASSUME NEW i \in At(b, t) PROVE i \in A \cup C
    <3>1. i \in 1 .. k + Len(s) /\ b[i].t = t
      BY <1>3, <2>1 DEF At
    <3>2. CASE i \in 1 .. k
      BY <1>1, <1>2, <3>1, <3>2 DEF At
    <3>3. CASE i \notin 1 .. k
      <4>1. i - k \in 1 .. Len(s) /\ i \in k + 1 .. k + Len(s)
        BY <1>1, <3>1, <3>3
      <4>2. i - k \in B /\ (i - k) + k = i
        BY <1>1, <1>2, <3>1, <4>1 DEF At
      <4>3. QED
        BY <4>2
    <3>4. QED
      BY <3>2, <3>3
  <2>2. ASSUME NEW i \in A PROVE i \in At(b, t)
    <3>1. i \in 1 .. k /\ q[i].t = t
      BY <1>1 DEF At
    <3>2. QED
      BY <1>1, <1>2, <1>3, <3>1 DEF At
  <2>3. ASSUME NEW i \in C PROVE i \in At(b, t)
    <3>1. PICK j \in B : i = j + k
      OBVIOUS
    <3>2. j \in 1 .. Len(s) /\ s[j].t = t
      BY <1>1 DEF At
    <3>3. i \in k + 1 .. k + Len(s) /\ i - k = j
      BY <1>1, <3>1, <3>2
    <3>4. i \in 1 .. k + Len(s)
      BY <1>1, <3>3
    <3>5. QED
      BY <1>2, <1>3, <3>2, <3>3, <3>4 DEF At
  <2>4. QED
    BY <2>1, <2>2, <2>3
<1>9. A \cap C = {}
  BY <1>1, <1>5, <1>7
<1>10. Cardinality(A \cup C) = Cardinality(A) + Cardinality(C)
  <2>1. Cardinality({}) = 0 /\ Cardinality(A) \in Nat /\ Cardinality(C) \in Nat
    BY <1>4, <1>6, FS_EmptySet, FS_CardinalityType
  <2> HIDE DEF A, C
  <2>2. Cardinality(A \cup C) =
            Cardinality(A) + Cardinality(C) - Cardinality(A \cap C)
    BY <1>4, <1>6, FS_Union
  <2>3. Cardinality(A \cap C) = 0
    BY <1>9, <2>1
  <2>4. QED
    BY <2>1, <2>2, <2>3
<1>11. QED
  BY <1>6, <1>8, <1>10 DEF Count, b

LEMMA CountNone ==
    ASSUME NEW S, NEW q \in Seq(S), NEW t
    PROVE  Count(q, t) = 0 <=> \A i \in DOMAIN q : q[i].t # t
<1>1. IsFiniteSet(At(q, t))
  BY CountNat
<1>2. Cardinality(At(q, t)) = 0 <=> At(q, t) = {}
  BY <1>1, FS_EmptySet
<1>3. QED
  BY <1>2 DEF At, Count

LEMMA CountEmpty == \A t : Count(<<>>, t) = 0
<1>1. <<>> \in Seq({})
  BY EmptySeq
<1>2. DOMAIN <<>> = {}
  OBVIOUS
<1>3. QED
  BY <1>1, <1>2, CountNone

LEMMA CountOne ==
    ASSUME NEW m, NEW t
    PROVE  Count(<<m>>, t) = IF m.t = t THEN 1 ELSE 0
<1>1. DOMAIN <<m>> = {1} /\ <<m>>[1] = m
  OBVIOUS
<1>2. At(<<m>>, t) = IF m.t = t THEN {1} ELSE {}
  BY <1>1 DEF At
<1>3. Cardinality({1}) = 1 /\ Cardinality({}) = 0
  BY FS_Singleton, FS_EmptySet
<1>4. QED
  BY <1>2, <1>3 DEF Count

LEMMA CountHead ==
    ASSUME NEW S, NEW q \in Seq(S), q # <<>>, NEW t
    PROVE  Count(q, t) = (IF Head(q).t = t THEN 1 ELSE 0) + Count(Tail(q), t)
<1>1. /\ Head(q) \in S /\ Tail(q) \in Seq(S) /\ <<Head(q)>> \in Seq(S)
  BY HeadTailProperties
<1>2. q = <<Head(q)>> \o Tail(q)
  BY HeadTailProperties
<1>3. PICK m, a, r : m = Head(q) /\ a = <<m>> /\ r = Tail(q)
  OBVIOUS
<1>4. a \in Seq(S) /\ r \in Seq(S) /\ q = a \o r
  BY <1>1, <1>2, <1>3
<1>5. Count(a \o r, t) = Count(a, t) + Count(r, t)
  BY <1>4, CountConcat
<1>6. Count(a, t) = IF m.t = t THEN 1 ELSE 0
  BY <1>3, CountOne
<1>7. QED
  BY <1>3, <1>4, <1>5, <1>6

-----------------------------------------------------------------------------
(* Windows. *)

Window1 == WINDOW + CHUNK

LEMMA WindowNat == Window1 \in Nat /\ Window1 >= 1
BY DEF Window1

LEMMA Rest ==
    ASSUME NEW n \in Nat, NEW y \in Nat, NEW k \in Nat, y + k <= n
    PROVE  \E j \in Nat : k <= j /\ y + j = n
<1>1. n - y \in Nat /\ k <= n - y /\ y + (n - y) = n
  OBVIOUS
<1>2. QED
  BY <1>1

LEMMA TimesNat == ASSUME NEW n \in Nat, NEW w \in Nat PROVE n * w \in Nat
OBVIOUS

LEMMA TimesMore ==
    ASSUME NEW n \in Nat, NEW m \in Nat, NEW w \in Nat, n <= m
    PROVE  n * w <= m * w
<1>1. PICK d \in Nat : m = n + d
  <2>1. m - n \in Nat /\ m = n + (m - n)
    OBVIOUS
  <2>2. QED
    BY <2>1
<1>2. m * w = n * w + d * w
  BY <1>1
<1>3. d * w \in Nat /\ n * w \in Nat
  BY TimesNat
<1>4. QED
  BY <1>2, <1>3

LEMMA TimesNext ==
    ASSUME NEW n \in Nat, NEW w \in Nat
    PROVE  (n + 1) * w = n * w + w
OBVIOUS

-----------------------------------------------------------------------------
(* What the messages of a download may say: f is its file, what it has     *)
(* acknowledged is a, and what it may receive is b.                        *)

GetsOK(box, f, a, b) ==
    \A i \in 1 .. Len(box) :
        /\ box[i].t = "get" => box[i].id = f /\ box[i].offset <= b
        /\ box[i].t = "ack" => box[i].received <= a

QueueOK(q, f, b) ==
    \A i \in 1 .. Len(q) : q[i].id = f /\ q[i].offset <= b

\* A start is under way before message i.
Begun(box, i) == \E j \in 1 .. i - 1 : box[j].t = "start"

\* Behind a start one more window may be used up: taking the start allows it.
BoxOK(box, acc, f, b) ==
    \A i \in 1 .. Len(box) :
        /\ box[i].t # "end"
        /\ box[i].t = "chunk" =>
               /\ box[i].id = f
               /\ Begun(box, i) => box[i].at + box[i].len <= b + Window1
               /\ ~Begun(box, i) /\ acc => box[i].at + box[i].len <= b

LEMMA GetsMore ==
    ASSUME NEW box \in Seq(ReceiverMsg), NEW f \in Files,
           NEW a \in Nat, NEW b \in Nat, NEW c \in Nat, NEW d \in Nat,
           a <= c, b <= d, GetsOK(box, f, a, b)
    PROVE  GetsOK(box, f, c, d)
<1> SUFFICES ASSUME NEW i \in 1 .. Len(box)
             PROVE  /\ box[i].t = "get" => box[i].id = f /\ box[i].offset <= d
                    /\ box[i].t = "ack" => box[i].received <= c
  BY DEF GetsOK
<1>1. box[i] \in ReceiverMsg
  BY ElementOfSeq
<1>2. CASE box[i].t = "get"
  <2>1. box[i].offset \in Nat
    BY <1>1, <1>2 DEF ReceiverMsg
  <2>2. QED
    BY <1>2, <2>1 DEF GetsOK
<1>3. CASE box[i].t = "ack"
  <2>1. box[i].received \in Nat
    BY <1>1, <1>3 DEF ReceiverMsg
  <2>2. QED
    BY <1>3, <2>1 DEF GetsOK
<1>4. QED
  BY <1>2, <1>3

LEMMA GetsTail ==
    ASSUME NEW box \in Seq(ReceiverMsg), box # <<>>, NEW f, NEW a, NEW b,
           GetsOK(box, f, a, b)
    PROVE  GetsOK(Tail(box), f, a, b)
<1>1. /\ Len(box) \in Nat /\ Len(Tail(box)) = Len(box) - 1
      /\ \A i \in 1 .. Len(box) - 1 : Tail(box)[i] = box[i + 1]
  BY TailElements
<1>2. ASSUME NEW i \in 1 .. Len(Tail(box))
      PROVE  i + 1 \in 1 .. Len(box) /\ Tail(box)[i] = box[i + 1]
  BY <1>1
<1>3. QED
  BY <1>2 DEF GetsOK

LEMMA GetsAppend ==
    ASSUME NEW box \in Seq(ReceiverMsg), NEW s \in Seq(ReceiverMsg),
           NEW f, NEW a, NEW b,
           GetsOK(box, f, a, b), GetsOK(s, f, a, b)
    PROVE  GetsOK(box \o s, f, a, b)
<1> DEFINE r == box \o s
<1>1. /\ Len(box) \in Nat /\ Len(s) \in Nat /\ Len(r) = Len(box) + Len(s)
      /\ \A i \in 1 .. Len(box) : r[i] = box[i]
      /\ \A i \in Len(box) + 1 .. Len(box) + Len(s) : r[i] = s[i - Len(box)]
  BY LenProperties, ConcatProperties
<1> HIDE DEF r
<1>2. ASSUME NEW i \in 1 .. Len(r)
      PROVE  \/ i \in 1 .. Len(box) /\ r[i] = box[i]
             \/ i - Len(box) \in 1 .. Len(s) /\ r[i] = s[i - Len(box)]
  BY <1>1
<1>3. GetsOK(r, f, a, b)
  BY <1>2 DEF GetsOK
<1>4. QED
  BY <1>3 DEF r

LEMMA QueueMore ==
    ASSUME NEW q \in Seq(Request), NEW f, NEW b \in Nat, NEW d \in Nat,
           b <= d, QueueOK(q, f, b)
    PROVE  QueueOK(q, f, d)
<1>1. ASSUME NEW i \in 1 .. Len(q) PROVE q[i].offset \in Nat
  <2>1. q[i] \in Request
    BY ElementOfSeq
  <2>2. QED
    BY <2>1 DEF Request
<1>2. QED
  BY <1>1 DEF QueueOK

LEMMA WithoutSome ==
    ASSUME NEW q \in Seq(Request), NEW f \in Files, NEW g, NEW b,
           QueueOK(q, g, b)
    PROVE  QueueOK(Without(q, f), g, b) /\ Len(Without(q, f)) <= Len(q)
<1> DEFINE at == {i \in DOMAIN q : q[i].id = f}
<1>1. Len(q) \in Nat /\ DOMAIN q = 1 .. Len(q)
  BY LenProperties
<1>2. CASE at = {}
  BY <1>1, <1>2 DEF Without
<1>3. CASE at # {}
  <2>1. PICK k : k = CHOOSE i \in at : TRUE
    OBVIOUS
  <2>2. k \in 1 .. Len(q) /\ Without(q, f) = RemoveAt(q, k)
    BY <1>1, <1>3, <2>1 DEF Without
  <2>3. PICK r : r = RemoveAt(q, k)
    OBVIOUS
  <2>4. /\ Len(r) = Len(q) - 1
        /\ \A i \in 1 .. Len(q) - 1 : r[i] = IF i < k THEN q[i] ELSE q[i + 1]
    BY <2>2, <2>3, RemoveAtElements
  <2>5. ASSUME NEW i \in 1 .. Len(r)
        PROVE  \E j \in 1 .. Len(q) : r[i] = q[j]
    <3>1. i \in 1 .. Len(q) /\ i + 1 \in 1 .. Len(q) /\ i \in 1 .. Len(q) - 1
      BY <1>1, <2>4
    <3>2. QED
      BY <2>4, <3>1
  <2>6. QueueOK(r, g, b)
    BY <2>5 DEF QueueOK
  <2>7. QED
    BY <1>1, <2>2, <2>3, <2>4, <2>6
<1>4. QED
  BY <1>2, <1>3

LEMMA QueueTail ==
    ASSUME NEW q \in Seq(Request), q # <<>>, NEW f, NEW b, QueueOK(q, f, b)
    PROVE  /\ QueueOK(Tail(q), f, b) /\ Len(q) = Len(Tail(q)) + 1
           /\ Head(q).id = f /\ Head(q).offset <= b
<1>1. /\ Len(q) \in Nat /\ Len(q) >= 1 /\ Len(Tail(q)) = Len(q) - 1
      /\ Head(q) = q[1]
      /\ \A i \in 1 .. Len(q) - 1 : Tail(q)[i] = q[i + 1]
  BY TailElements
<1>2. ASSUME NEW i \in 1 .. Len(Tail(q))
      PROVE  i + 1 \in 1 .. Len(q) /\ Tail(q)[i] = q[i + 1]
  BY <1>1
<1>3. 1 \in 1 .. Len(q)
  BY <1>1
<1>4. QED
  BY <1>1, <1>2, <1>3 DEF QueueOK

LEMMA QueueCons ==
    ASSUME NEW q \in Seq(Request), NEW r \in Request, NEW f, NEW b,
           QueueOK(q, f, b), r.id = f, r.offset <= b
    PROVE  QueueOK(<<r>> \o q, f, b) /\ Len(<<r>> \o q) = Len(q) + 1
<1>1. PICK s : s = <<r>>
  OBVIOUS
<1>2. s \in Seq(Request) /\ Len(s) = 1 /\ s[1] = r
  BY <1>1
<1>3. PICK p : p = s \o q
  OBVIOUS
<1>4. /\ Len(q) \in Nat /\ Len(p) = 1 + Len(q)
      /\ \A i \in 1 .. 1 : p[i] = s[i]
      /\ \A i \in 1 + 1 .. 1 + Len(q) : p[i] = q[i - 1]
  <2>1. /\ Len(s \o q) = Len(s) + Len(q)
        /\ \A i \in 1 .. Len(s) : (s \o q)[i] = s[i]
        /\ \A i \in Len(s) + 1 .. Len(s) + Len(q) :
               (s \o q)[i] = q[i - Len(s)]
    <3>1. s \in Seq(Request)
      BY <1>2
    <3>2. QED
      BY <3>1, ConcatProperties
  <2>2. QED
    BY <1>2, <1>3, <2>1, LenProperties
<1>5. ASSUME NEW i \in 1 .. Len(p)
      PROVE  p[i] = r \/ (i - 1 \in 1 .. Len(q) /\ p[i] = q[i - 1])
  <2>1. CASE i = 1
    BY <1>2, <1>4, <2>1
  <2>2. CASE i # 1
    BY <1>4, <2>2
  <2>3. QED
    BY <2>1, <2>2
<1>6. QueueOK(p, f, b)
  BY <1>5 DEF QueueOK
<1>7. QED
  BY <1>1, <1>3, <1>4, <1>6

LEMMA BoxTypes ==
    ASSUME NEW box \in Seq(SenderMsg), NEW i \in 1 .. Len(box),
           box[i].t = "chunk"
    PROVE  box[i].at + box[i].len \in Nat
<1>1. box[i] \in SenderMsg
  BY ElementOfSeq
<1>2. QED
  BY <1>1 DEF SenderMsg, Chunks

LEMMA BoxMore ==
    ASSUME NEW box \in Seq(SenderMsg), NEW acc, NEW then, NEW f,
           NEW b \in Nat, NEW d \in Nat, b <= d, then => acc,
           BoxOK(box, acc, f, b)
    PROVE  BoxOK(box, then, f, d)
<1>1. Window1 \in Nat
  BY WindowNat
<1> SUFFICES ASSUME NEW i \in 1 .. Len(box)
             PROVE  /\ box[i].t # "end"
                    /\ box[i].t = "chunk" =>
                           /\ box[i].id = f
                           /\ Begun(box, i) =>
                                  box[i].at + box[i].len <= d + Window1
                           /\ ~Begun(box, i) /\ then =>
                                  box[i].at + box[i].len <= d
  BY DEF BoxOK
<1>2. /\ box[i].t # "end"
      /\ box[i].t = "chunk" =>
             /\ box[i].id = f
             /\ Begun(box, i) => box[i].at + box[i].len <= b + Window1
             /\ ~Begun(box, i) /\ acc => box[i].at + box[i].len <= b
  BY DEF BoxOK
<1>3. CASE box[i].t = "chunk"
  <2>1. PICK n \in Nat : n = box[i].at + box[i].len
    BY <1>3, BoxTypes
  <2>2. QED
    BY <1>1, <1>2, <1>3, <2>1
<1>4. QED
  BY <1>2, <1>3

LEMMA BoxConcat ==
    ASSUME NEW box \in Seq(SenderMsg), NEW s \in Seq(SenderMsg),
           NEW acc, NEW f, NEW b, BoxOK(box, acc, f, b),
           \A i \in 1 .. Len(s) : s[i].t # "end" /\ s[i].t # "chunk"
    PROVE  BoxOK(box \o s, acc, f, b)
<1>1. PICK r : r = box \o s
  OBVIOUS
<1>2. /\ Len(box) \in Nat /\ Len(s) \in Nat /\ Len(r) = Len(box) + Len(s)
      /\ \A i \in 1 .. Len(box) : r[i] = box[i]
      /\ \A i \in Len(box) + 1 .. Len(box) + Len(s) : r[i] = s[i - Len(box)]
  BY <1>1, LenProperties, ConcatProperties
<1>3. ASSUME NEW i \in 1 .. Len(r)
      PROVE  /\ r[i].t # "end"
             /\ r[i].t = "chunk" =>
                    /\ r[i].id = f
                    /\ Begun(r, i) => r[i].at + r[i].len <= b + Window1
                    /\ ~Begun(r, i) /\ acc => r[i].at + r[i].len <= b
  <2>1. CASE i \in 1 .. Len(box)
    <3>1. r[i] = box[i]
      BY <1>2, <2>1
    <3>2. \A j \in 1 .. i - 1 : r[j] = box[j]
      BY <1>2, <2>1
    <3>3. Begun(r, i) <=> Begun(box, i)
      BY <3>2 DEF Begun
    <3>4. QED
      BY <2>1, <3>1, <3>3 DEF BoxOK
  <2>2. CASE i \notin 1 .. Len(box)
    <3>1. i - Len(box) \in 1 .. Len(s) /\ r[i] = s[i - Len(box)]
      BY <1>2, <2>2
    <3>2. QED
      BY <3>1
  <2>3. QED
    BY <2>1, <2>2
<1>4. QED
  BY <1>1, <1>3 DEF BoxOK

\* A chunk is sent within the window.
LEMMA BoxChunk ==
    ASSUME NEW box \in Seq(SenderMsg), NEW c \in SenderMsg,
           NEW acc, NEW f, NEW b, BoxOK(box, acc, f, b),
           c.t = "chunk", c.id = f,
           Count(box, "start") # 0 => c.at + c.len <= b + Window1,
           Count(box, "start") = 0 /\ acc => c.at + c.len <= b
    PROVE  BoxOK(box \o <<c>>, acc, f, b)
<1>1. PICK s : s = <<c>>
  OBVIOUS
<1>2. s \in Seq(SenderMsg) /\ Len(s) = 1 /\ s[1] = c
  BY <1>1
<1>3. PICK r : r = box \o s
  OBVIOUS
<1>4. PICK k \in Nat : k = Len(box)
  BY LenProperties
<1>5. /\ Len(r) = k + 1
      /\ \A i \in 1 .. k : r[i] = box[i]
      /\ \A i \in k + 1 .. k + 1 : r[i] = s[i - k]
  <2>1. /\ Len(box \o s) = Len(box) + Len(s)
        /\ \A i \in 1 .. Len(box) : (box \o s)[i] = box[i]
        /\ \A i \in Len(box) + 1 .. Len(box) + Len(s) :
               (box \o s)[i] = s[i - Len(box)]
    <3>1. /\ Len(box \o s) = Len(box) + Len(s)
          /\ \A i \in 1 .. Len(box) + Len(s) : (box \o s)[i] =
                 IF i <= Len(box) THEN box[i] ELSE s[i - Len(box)]
      BY <1>2, ConcatProperties
    <3>2. QED
      BY <1>2, <1>4, <3>1
  <2>2. QED
    BY <1>2, <1>3, <1>4, <2>1
<1>6. ASSUME NEW i \in 1 .. Len(r)
      PROVE  /\ r[i].t # "end"
             /\ r[i].t = "chunk" =>
                    /\ r[i].id = f
                    /\ Begun(r, i) => r[i].at + r[i].len <= b + Window1
                    /\ ~Begun(r, i) /\ acc => r[i].at + r[i].len <= b
  <2>1. CASE i \in 1 .. k
    <3>1. r[i] = box[i]
      BY <1>5, <2>1
    <3>2. \A j \in 1 .. i - 1 : r[j] = box[j]
      BY <1>5, <2>1
    <3>3. Begun(r, i) <=> Begun(box, i)
      BY <3>2 DEF Begun
    <3>4. QED
      BY <1>4, <2>1, <3>1, <3>3 DEF BoxOK
  <2>2. CASE i \notin 1 .. k
    <3>1. i = k + 1 /\ i - k = 1 /\ i - 1 = k
      BY <1>5, <2>2
    <3>2. r[i] = c
      BY <1>2, <1>5, <3>1
    <3>3. Begun(r, i) <=> Count(box, "start") # 0
      <4>1. DOMAIN box = 1 .. k
        BY <1>4, LenProperties
      <4>2. Begun(r, i) <=> \E j \in 1 .. k : box[j].t = "start"
        BY <1>5, <3>1 DEF Begun
      <4>3. QED
        BY <4>1, <4>2, CountNone
    <3>4. QED
      BY <3>2, <3>3
  <2>3. QED
    BY <2>1, <2>2
<1>7. BoxOK(r, acc, f, b)
  BY <1>6 DEF BoxOK
<1>8. QED
  BY <1>1, <1>3, <1>7

LEMMA BoxTail ==
    ASSUME NEW box \in Seq(SenderMsg), box # <<>>, NEW acc, NEW f,
           NEW b \in Nat, BoxOK(box, acc, f, b)
    PROVE  /\ Head(box).t # "start" => BoxOK(Tail(box), acc, f, b)
           /\ Head(box).t = "start" =>
                  /\ BoxOK(Tail(box), FALSE, f, b)
                  /\ BoxOK(Tail(box), TRUE, f, b + Window1)
<1>1. PICK r : r = Tail(box)
  OBVIOUS
<1>2. /\ Len(box) \in Nat /\ Len(r) = Len(box) - 1 /\ Head(box) = box[1]
      /\ \A i \in 1 .. Len(box) - 1 : r[i] = box[i + 1]
  BY <1>1, TailElements
<1>3. Window1 \in Nat
  BY WindowNat
<1>4. ASSUME NEW i \in 1 .. Len(r)
      PROVE  /\ i + 1 \in 1 .. Len(box) /\ r[i] = box[i + 1]
             /\ Begun(box, i + 1) <=> Begun(r, i) \/ Head(box).t = "start"
  <2>1. i + 1 \in 1 .. Len(box) /\ r[i] = box[i + 1]
    BY <1>2
  <2>2. ASSUME Begun(box, i + 1)
        PROVE  Begun(r, i) \/ Head(box).t = "start"
    <3>1. PICK j \in 1 .. i : box[j].t = "start"
      BY <2>2 DEF Begun
    <3>2. CASE j = 1
      BY <1>2, <3>1, <3>2
    <3>3. CASE j # 1
      <4>1. /\ j - 1 \in 1 .. i - 1 /\ j - 1 \in 1 .. Len(box) - 1
            /\ (j - 1) + 1 = j
        BY <1>2, <3>3
      <4>2. r[j - 1] = box[j]
        BY <1>2, <4>1
      <4>3. QED
        BY <3>1, <4>1, <4>2 DEF Begun
    <3>4. QED
      BY <3>2, <3>3
  <2>3. ASSUME Begun(r, i) PROVE Begun(box, i + 1)
    <3>1. PICK j \in 1 .. i - 1 : r[j].t = "start"
      BY <2>3 DEF Begun
    <3>2. j + 1 \in 1 .. (i + 1) - 1 /\ j \in 1 .. Len(box) - 1
      BY <1>2
    <3>3. box[j + 1].t = "start"
      BY <1>2, <3>1, <3>2
    <3>4. QED
      BY <3>2, <3>3 DEF Begun
  <2>4. ASSUME Head(box).t = "start" PROVE Begun(box, i + 1)
    <3>1. 1 \in 1 .. (i + 1) - 1
      BY <1>2
    <3>2. QED
      BY <1>2, <2>4, <3>1 DEF Begun
  <2>5. QED
    BY <2>1, <2>2, <2>3, <2>4
<1>5. ASSUME NEW i \in 1 .. Len(r)
      PROVE  /\ r[i].t # "end"
             /\ r[i].t = "chunk" =>
                    /\ r[i].id = f
                    /\ r[i].at + r[i].len \in Nat
                    /\ Begun(r, i) \/ Head(box).t = "start" =>
                           r[i].at + r[i].len <= b + Window1
                    /\ ~Begun(r, i) /\ Head(box).t # "start" /\ acc =>
                           r[i].at + r[i].len <= b
  BY <1>4, BoxTypes DEF BoxOK
<1>6. ASSUME Head(box).t # "start" PROVE BoxOK(r, acc, f, b)
  BY <1>5, <1>6 DEF BoxOK
<1>7. ASSUME Head(box).t = "start" PROVE BoxOK(r, FALSE, f, b)
  BY <1>5, <1>7 DEF BoxOK
<1>8. ASSUME Head(box).t = "start" PROVE BoxOK(r, TRUE, f, b + Window1)
  <2>1. ASSUME NEW i \in 1 .. Len(r), r[i].t = "chunk"
        PROVE  r[i].at + r[i].len <= b + Window1 + Window1
    <3>1. PICK n \in Nat : n = r[i].at + r[i].len
      BY <1>5, <2>1
    <3>2. n <= b + Window1
      BY <1>5, <1>8, <2>1, <3>1
    <3>3. QED
      BY <1>3, <3>1, <3>2
  <2>2. QED
    BY <1>5, <1>8, <2>1 DEF BoxOK
<1>9. QED
  BY <1>1, <1>6, <1>7, <1>8

-----------------------------------------------------------------------------
(* Accounts. *)

\* Requests under way, in any of their forms: each lets a window in, once.
Asks ==
    Count(toServer, "get") + Len(srv.queue)
        + Count(toClient, "start") + Count(toClient, "hello")

\* The connections so far.
Connected == spent["connections"]

\* The end of n windows beyond what the download has acknowledged.
Upto(n) == active.lastAck + n * Window1

\* What the server is sending.
RunOK(s, begun, acc, f, b, top) ==
    s.phase # "idle" =>
        /\ s.active = f
        /\ s.acked <= top
        /\ s.sent <= s.acked + Window1
        /\ s.phase = "hash" => s.sent >= Size[f]
        /\ begun => s.acked <= b
        /\ ~begun /\ acc => s.acked + Window1 <= b

\* Of the windows that the connections so far have let in, k are used up, and
\* the others still asked for.
AccountsAt(k) ==
    /\ Asks + k = Connected
    /\ active.received <= Upto(k)
    /\ active.accepting => k >= 1
    /\ GetsOK(toServer, active.id, active.lastAck, Upto(k))
    /\ QueueOK(srv.queue, active.id, Upto(k))
    /\ RunOK(srv, Count(toClient, "start") # 0, active.accepting, active.id,
             Upto(k), Upto(Connected - 1))
    /\ BoxOK(toClient, active.accepting, active.id, Upto(k))

Accounts == \E k \in Nat : AccountsAt(k)

\* The whole file is within the windows let in so far.
Fits == Size[active.id] <= Upto(Connected)

LEMMA UptoNat ==
    ASSUME TypeInv, NEW k \in Nat
    PROVE  /\ active.lastAck \in Nat /\ Upto(k) \in Nat
           /\ Window1 \in Nat /\ Upto(k + 1) = Upto(k) + Window1
           /\ active.lastAck <= Upto(k)
           /\ k >= 1 => active.lastAck + Window1 <= Upto(k)
<1>1. PICK a \in Nat : a = active.lastAck
  BY DEF TypeInv, ClientInv, LineOK, Download
<1>2. PICK w \in Nat : w = Window1
  BY WindowNat
<1>3. PICK p \in Nat : p = k * w
  BY TimesNat
<1>4. (k + 1) * w = p + w
  BY <1>3, TimesNext
<1>5. Upto(k) = a + p /\ Upto(k + 1) = a + (p + w)
  BY <1>1, <1>2, <1>3, <1>4 DEF Upto
<1>6. k >= 1 => w <= p
  <2>1. ASSUME k >= 1 PROVE w <= p
    <3>1. 1 * w <= k * w
      BY <2>1, TimesMore
    <3>2. 1 * w = w
      OBVIOUS
    <3>3. QED
      BY <1>3, <3>1, <3>2
  <2>2. QED
    BY <2>1
<1>7. QED
  BY <1>1, <1>2, <1>3, <1>5, <1>6

LEMMA UptoMore ==
    ASSUME TypeInv, NEW k \in Nat, NEW j \in Nat, k <= j
    PROVE  Upto(k) <= Upto(j)
<1>1. PICK a \in Nat : a = active.lastAck
  BY DEF TypeInv, ClientInv, LineOK, Download
<1>2. PICK w \in Nat : w = Window1
  BY WindowNat
<1>3. k * w <= j * w
  BY TimesMore
<1>4. PICK p \in Nat, r \in Nat : p = k * w /\ r = j * w
  BY TimesNat
<1>5. QED
  BY <1>1, <1>2, <1>3, <1>4 DEF Upto

LEMMA AsksNat ==
    ASSUME TypeInv
    PROVE  /\ Count(toServer, "get") \in Nat /\ Len(srv.queue) \in Nat
           /\ Count(toClient, "start") \in Nat
           /\ Count(toClient, "hello") \in Nat
           /\ Connected \in Nat
<1>1. /\ toServer \in Seq(ReceiverMsg) /\ toClient \in Seq(SenderMsg)
      /\ srv.queue \in Seq(Request)
  BY DEF TypeInv, ChannelTypeOK, ServerInv, ServerTypeOK, Request
<1>2. Connected \in Nat
  BY DEF TypeInv, Budget, Connected
<1>3. QED
  BY <1>1, <1>2, CountNat, LenProperties

LEMMA RunMore ==
    ASSUME NEW s, s.acked \in Nat, NEW begun, NEW acc, NEW then, NEW f,
           NEW b \in Nat, NEW d \in Nat, NEW top \in Nat, NEW high \in Nat,
           b <= d, top <= high, then => acc,
           RunOK(s, begun, acc, f, b, top)
    PROVE  RunOK(s, begun, then, f, d, high)
<1>1. PICK n \in Nat : n = s.acked
  OBVIOUS
<1>2. Window1 \in Nat
  BY WindowNat
<1>3. QED
  BY <1>1, <1>2 DEF RunOK

\* What stays of the accounts when only k grows.
LEMMA AccountsMore ==
    ASSUME TypeInv, active.id \in Files, NEW k \in Nat, NEW j \in Nat, k <= j,
           AccountsAt(k)
    PROVE  /\ Upto(k) \in Nat /\ Upto(j) \in Nat /\ Upto(k) <= Upto(j)
           /\ active.received <= Upto(j)
           /\ active.accepting => j >= 1
           /\ GetsOK(toServer, active.id, active.lastAck, Upto(j))
           /\ QueueOK(srv.queue, active.id, Upto(j))
           /\ BoxOK(toClient, active.accepting, active.id, Upto(j))
<1>1. /\ toServer \in Seq(ReceiverMsg) /\ toClient \in Seq(SenderMsg)
      /\ srv.queue \in Seq(Request)
  BY DEF TypeInv, ChannelTypeOK, ServerInv, ServerTypeOK, Request
<1>2. active.received \in Nat /\ active.lastAck \in Nat
  BY DEF TypeInv, ClientInv, LineOK, Download
<1>3. PICK b \in Nat, d \in Nat : b = Upto(k) /\ d = Upto(j)
  BY UptoNat
<1>4. b <= d
  BY <1>3, UptoMore
<1>5. active.received <= b /\ (active.accepting => k >= 1)
  BY <1>3 DEF AccountsAt
<1>6. GetsOK(toServer, active.id, active.lastAck, d)
  BY <1>1, <1>2, <1>3, <1>4, GetsMore DEF AccountsAt
<1>7. QueueOK(srv.queue, active.id, d)
  BY <1>1, <1>3, <1>4, QueueMore DEF AccountsAt
<1>8. BoxOK(toClient, active.accepting, active.id, d)
  BY <1>1, <1>3, <1>4, BoxMore DEF AccountsAt
<1>9. active.received <= d /\ (active.accepting => j >= 1)
  <2>1. PICK n \in Nat : n = active.received
    BY <1>2
  <2>2. QED
    BY <1>4, <1>5, <2>1
<1>10. QED
  BY <1>3, <1>4, <1>6, <1>7, <1>8, <1>9

-----------------------------------------------------------------------------
(* The server serves a request: it says so, and starts where it was asked. *)

\* What serve says and does with q: f is the file asked for.
ServedOK(q, a, s, f, b) ==
    /\ a \in Seq(SenderMsg)
    /\ s.queue \in Seq(Request)
    /\ QueueOK(s.queue, f, b)
    /\ Count(a, "hello") = 0
    /\ Count(a, "start") \in Nat
    /\ Len(s.queue) + Count(a, "start") = Len(q)
    /\ \A i \in 1 .. Len(a) : a[i].t # "end" /\ a[i].t # "chunk"
    /\ s.phase # "idle" =>
           /\ Count(a, "start") = 1
           /\ s.active = f
           /\ s.acked \in Nat /\ s.acked <= b
           /\ s.sent = s.acked
           /\ s.phase = "hash" => s.sent >= Size[f]

LEMMA ServeCounts ==
    ASSUME NEW q \in Seq(Request), NEW f \in Files, NEW b \in Nat,
           QueueOK(q, f, b)
    PROVE  ServedOK(q, Announcement(q), Serve(q), f, b)
<1>1. Len(<<>>) = 0 /\ 1 .. 0 = {}
  OBVIOUS
<1>2. PICK a, s : a = Announcement(q) /\ s = Serve(q)
  OBVIOUS
<1>3. CASE q = <<>>
  <2>1. a = <<>> /\ s.queue = <<>> /\ s.phase = "idle"
    BY <1>2, <1>3 DEF Announcement, Serve, IdleServer
  <2>2. Count(a, "hello") = 0 /\ Count(a, "start") = 0
    BY <2>1, CountEmpty
  <2>3. Len(a) = 0 /\ Len(s.queue) = 0 /\ Len(q) = 0
    BY <1>1, <1>3, <2>1
  <2>4. QueueOK(s.queue, f, b)
    BY <1>1, <2>3 DEF QueueOK
  <2>5. a \in Seq(SenderMsg) /\ s.queue \in Seq(Request)
    BY <2>1, EmptySeq
  <2>6. ServedOK(q, a, s, f, b)
    BY <1>1, <2>1, <2>2, <2>3, <2>4, <2>5 DEF ServedOK
  <2>7. QED
    BY <1>2, <2>6
<1>4. CASE q # <<>>
  <2>1. PICK h \in Request, r \in Seq(Request) : h = Head(q) /\ r = Tail(q)
    BY <1>4, HeadTailProperties
  <2>2. QueueOK(r, f, b) /\ Len(q) = Len(r) + 1 /\ h.id = f /\ h.offset <= b
    BY <1>4, <2>1, QueueTail
  <2>3. PICK n \in Nat : n = h.offset
    BY <2>1 DEF Request
  <2>4. PICK z \in Nat : z = Size[f]
    OBVIOUS
  <2>5. PICK p \in Nat : p = Least(n, z)
    BY DEF Least
  <2>6. p <= n /\ p <= z /\ (p < z \/ p = z)
    BY <2>5 DEF Least
  <2>7. PICK m : m = Start(f, p)
    OBVIOUS
  <2>8. m \in SenderMsg /\ m.t = "start"
    BY <2>7 DEF Start, SenderMsg
  <2>9. a = <<m>>
    BY <1>2, <1>4, <2>1, <2>2, <2>3, <2>4, <2>5, <2>7 DEF Announcement
  <2>10. s = [queue |-> r, active |-> f, cancelled |-> FALSE,
              phase |-> IF p < z THEN "read" ELSE "hash",
              sent |-> p, acked |-> p, blockEnd |-> p]
    BY <1>2, <1>4, <2>1, <2>2, <2>3, <2>4, <2>5 DEF Serve
  <2>11. a \in Seq(SenderMsg) /\ Len(a) = 1 /\ a[1] = m
    BY <2>8, <2>9
  <2>12. Count(a, "start") = 1 /\ Count(a, "hello") = 0
    BY <2>8, <2>9, CountOne
  <2>13. /\ s.queue = r /\ s.active = f /\ s.sent = p /\ s.acked = p
         /\ s.phase = "hash" => p = z
    BY <2>6, <2>10
  <2>14. \A i \in 1 .. Len(a) : a[i].t # "end" /\ a[i].t # "chunk"
    BY <2>8, <2>11
  <2>15. Len(r) \in Nat
    BY <2>1, LenProperties
  <2>16. p <= b
    BY <2>2, <2>3, <2>6
  <2>17. ServedOK(q, a, s, f, b)
    BY <2>1, <2>2, <2>4, <2>11, <2>12, <2>13, <2>14, <2>15, <2>16 DEF ServedOK
  <2>18. QED
    BY <1>2, <2>17
<1>5. QED
  BY <1>3, <1>4

LEMMA Regrouped ==
    \A x, y, z \in Seq(SenderMsg) : (x \o y) \o z = x \o (y \o z)
BY ConcatAssociative

\* The loop goes on with q, having sent nothing that counts.
LEMMA Announced ==
    ASSUME TypeInv, UNCHANGED clientVars, Connected' = Connected, sOpen, cOpen,
           active.id \in Files, NEW j \in Nat,
           active.received <= Upto(j), active.accepting => j >= 1,
           toServer' \in Seq(ReceiverMsg),
           GetsOK(toServer', active.id, active.lastAck, Upto(j)),
           BoxOK(toClient, active.accepting, active.id, Upto(j)),
           NEW q \in Seq(Request), QueueOK(q, active.id, Upto(j)),
           NEW msgs \in Seq(SenderMsg),
           \A i \in 1 .. Len(msgs) : msgs[i].t = "error",
           Count(toServer', "get") + Len(q) + Count(toClient, "start")
               + Count(toClient, "hello") + j = Connected,
           FinishFile(q, msgs)
    PROVE  AccountsAt(j)'
<1>1. PICK s : s = Announcement(q)
  OBVIOUS
<1>2. PICK f \in Files, b \in Nat, w \in Nat :
          f = active.id /\ b = Upto(j) /\ w = Window1
  BY UptoNat
<1>30. ServedOK(q, s, Serve(q), f, b)
  <2>1. QueueOK(q, f, b)
    BY <1>2
  <2>2. QED
    BY <1>1, <2>1, ServeCounts
<1>3. s \in Seq(SenderMsg)
  BY <1>30 DEF ServedOK
<1>4. PICK x : x = toClient \o msgs
  OBVIOUS
<1>5. toClient \in Seq(SenderMsg)
  BY DEF TypeInv, ChannelTypeOK
<1>6. x \in Seq(SenderMsg) /\ BoxOK(x, active.accepting, f, b)
  <2>1. \A i \in 1 .. Len(msgs) : msgs[i].t # "end" /\ msgs[i].t # "chunk"
    OBVIOUS
  <2>2. BoxOK(toClient, active.accepting, f, b)
    BY <1>2
  <2>3. QED
    BY <1>4, <1>5, <2>1, <2>2, BoxConcat, ConcatProperties
<1>7. /\ Count(x, "start") = Count(toClient, "start")
      /\ Count(x, "hello") = Count(toClient, "hello")
  <2>1. DOMAIN msgs = 1 .. Len(msgs)
    BY LenProperties
  <2>2. Count(msgs, "start") = 0 /\ Count(msgs, "hello") = 0
    BY <2>1, CountNone
  <2>3. /\ Count(x, "start") = Count(toClient, "start") + Count(msgs, "start")
        /\ Count(x, "hello") = Count(toClient, "hello") + Count(msgs, "hello")
    BY <1>4, <1>5, CountConcat
  <2>4. QED
    BY <2>2, <2>3, AsksNat
<1>8. PICK box : box = x \o s
  OBVIOUS
<1>9. BoxOK(box, active.accepting, f, b)
  <2>1. \A i \in 1 .. Len(s) : s[i].t # "end" /\ s[i].t # "chunk"
    BY <1>30 DEF ServedOK
  <2>2. QED
    BY <1>3, <1>6, <1>8, <2>1, BoxConcat
<1>10. /\ Count(box, "start") = Count(x, "start") + Count(s, "start")
       /\ Count(box, "hello") = Count(x, "hello") + Count(s, "hello")
  BY <1>3, <1>6, <1>8, CountConcat
<1>11. toClient' = box /\ srv' = Serve(q)
  <2>1. toClient' = toClient \o (msgs \o s) /\ srv' = Serve(q)
    BY <1>1 DEF FinishFile, Deliver
  <2>2. toClient \o (msgs \o s) = (toClient \o msgs) \o s
    <3>1. PICK c \in Seq(SenderMsg) : c = toClient
      BY <1>5
    <3>2. (c \o msgs) \o s = c \o (msgs \o s)
      <4>1. /\ c \in Seq(SenderMsg) /\ msgs \in Seq(SenderMsg)
            /\ s \in Seq(SenderMsg)
        BY <1>3
      <4>2. QED
        BY <4>1, Regrouped, Zenon
    <3>3. QED
      BY <3>1, <3>2
  <2>3. QED
    BY <1>4, <1>8, <2>1, <2>2
<1>12. active' = active /\ Connected' = Connected
  BY DEF clientVars
<1>13. Upto(j)' = b /\ Upto(Connected - 1)' = Upto(Connected - 1)
  BY <1>2, <1>12 DEF Upto
<1>14. PICK g \in Nat, l \in Nat, ss \in Nat, hh \in Nat, e \in Nat,
            l2 \in Nat :
          /\ g = Count(toServer', "get") /\ l = Len(q)
          /\ ss = Count(toClient, "start") /\ hh = Count(toClient, "hello")
          /\ e = Count(s, "start") /\ l2 = Len(Serve(q).queue)
  <2>1. Serve(q).queue \in Seq(Request)
    BY <1>30 DEF ServedOK
  <2>2. QED
    BY <1>3, <2>1, CountNat, LenProperties, AsksNat
<1>15. g + l + ss + hh + j = Connected /\ l2 + e = l
  BY <1>14, <1>30 DEF ServedOK
<1>16. Asks' + j = Connected'
  <2>0. Count(s, "hello") = 0
    BY <1>30 DEF ServedOK
  <2>3. /\ Count(toClient', "start") = ss + e
        /\ Count(toClient', "hello") = hh
        /\ Len(srv'.queue) = l2
    BY <1>7, <1>10, <1>11, <1>14, <2>0
  <2>1. Asks' = g + l2 + (ss + e) + hh
    BY <1>14, <2>3 DEF Asks
  <2>2. PICK n \in Nat : n = Connected
    BY AsksNat
  <2>4. Connected' = n
    BY <1>12, <2>2
  <2>5. QED
    BY <1>15, <2>1, <2>2, <2>4
<1>17. ASSUME Serve(q).phase # "idle"
       PROVE  /\ Count(box, "start") # 0
              /\ Upto(Connected - 1) \in Nat
              /\ b <= Upto(Connected - 1)
  <2>1. e = 1
    BY <1>14, <1>17, <1>30 DEF ServedOK
  <2>2. Count(box, "start") = ss + 1
    BY <1>7, <1>10, <1>14, <2>1
  <2>3. PICK c \in Nat : c = Connected - 1
    <3>1. PICK n \in Nat : n = Connected
      BY AsksNat
    <3>2. n >= 1
      BY <1>15, <2>1, <3>1
    <3>3. QED
      BY <3>1, <3>2
  <2>4. j <= c
    BY <1>15, <2>1, <2>3
  <2>5. QED
    <3>1. Upto(c) \in Nat /\ Upto(j) <= Upto(c)
      BY <2>3, <2>4, UptoMore, UptoNat
    <3>2. Upto(Connected - 1) = Upto(c)
      BY <2>3
    <3>3. QED
      BY <1>2, <2>2, <3>1, <3>2
<1>18. RunOK(srv', Count(toClient', "start") # 0, active'.accepting, active'.id,
             Upto(j)', Upto(Connected - 1)')
  <2>1. CASE Serve(q).phase = "idle"
    BY <1>11, <2>1 DEF RunOK
  <2>2. CASE Serve(q).phase # "idle"
    <3>1. PICK p \in Nat : p = Serve(q).acked
      BY <1>30, <2>2 DEF ServedOK
    <3>2. PICK t \in Nat : t = Upto(Connected - 1)
      BY <1>17, <2>2
    <3>3. p <= b /\ b <= t
      BY <1>17, <1>30, <2>2, <3>1, <3>2 DEF ServedOK
    <3>4. Count(toClient', "start") # 0
      BY <1>11, <1>17, <2>2
    <3>6. /\ Serve(q).active = f /\ Serve(q).sent = p
          /\ Serve(q).phase = "hash" => p >= Size[f]
      BY <1>30, <2>2, <3>1 DEF ServedOK
    <3>5. QED
      BY <1>2, <1>11, <1>12, <1>13, <3>1, <3>2, <3>3, <3>4, <3>6 DEF RunOK
  <2>3. QED
    BY <2>1, <2>2
<1>19. QueueOK(srv'.queue, f, b)
  BY <1>11, <1>30 DEF ServedOK
<1>20. QED
  BY <1>2, <1>9, <1>11, <1>12, <1>13, <1>16, <1>18, <1>19 DEF AccountsAt

-----------------------------------------------------------------------------
(* The server keeps within the accounts.                                   *)

\* Nothing is said, and less or as much is asked for.
LEMMA Requeued ==
    ASSUME TypeInv, UNCHANGED clientVars, Connected' = Connected, toClient' = toClient,
           active.id \in Files, NEW k \in Nat, AccountsAt(k),
           NEW j \in Nat, k <= j,
           Count(toServer', "get") + Len(srv'.queue) + Count(toClient, "start")
               + Count(toClient, "hello") + j = Connected,
           GetsOK(toServer', active.id, active.lastAck, Upto(j)),
           QueueOK(srv'.queue, active.id, Upto(j)),
           RunOK(srv', Count(toClient, "start") # 0, active.accepting,
                 active.id, Upto(j), Upto(Connected - 1))
    PROVE  AccountsAt(j)'
<1>1. active' = active /\ Connected' = Connected
  BY DEF clientVars
<1>2. /\ active.received <= Upto(j)
      /\ active.accepting => j >= 1
      /\ BoxOK(toClient, active.accepting, active.id, Upto(j))
  BY AccountsMore
<1>3. /\ Upto(j)' = Upto(j)
      /\ Upto(Connected - 1)' = Upto(Connected - 1)
  BY <1>1 DEF Upto
<1>4. Asks' + j = Connected'
  BY <1>1 DEF Asks
<1>5. QED
  BY <1>1, <1>2, <1>3, <1>4 DEF AccountsAt

\* The windows of the connections but the last.
LEMMA TopNat ==
    ASSUME TypeInv, Connected >= 1
    PROVE  /\ Upto(Connected - 1) \in Nat
           /\ active.lastAck <= Upto(Connected - 1)
           /\ Upto(Connected - 1) + Window1
                  = Upto(Connected)
<1>1. PICK n \in Nat : n = Connected
  BY AsksNat
<1>2. PICK c \in Nat : c = n - 1 /\ n = c + 1
  BY <1>1
<1>3. Upto(c) \in Nat /\ Upto(c + 1) = Upto(c) + Window1
      /\ active.lastAck <= Upto(c)
  BY UptoNat
<1>4. QED
  BY <1>1, <1>2, <1>3

LEMMA RunKept ==
    ASSUME TypeInv, active.id \in Files, NEW k \in Nat, AccountsAt(k),
           NEW j \in Nat, k <= j, Connected >= 1,
           srv'.phase # "idle" =>
               /\ srv.phase # "idle" /\ srv'.active = srv.active
               /\ srv'.acked = srv.acked /\ srv'.sent = srv.sent
               /\ srv'.phase = "hash" => srv.phase = "hash"
    PROVE  RunOK(srv', Count(toClient, "start") # 0, active.accepting,
                 active.id, Upto(j), Upto(Connected - 1))
<1>1. PICK b \in Nat, d \in Nat, top \in Nat :
          b = Upto(k) /\ d = Upto(j) /\ top = Upto(Connected - 1)
  BY UptoNat, TopNat
<1>2. b <= d
  BY <1>1, UptoMore
<1>3. srv.acked \in Nat
  BY DEF TypeInv, ServerInv, ServerTypeOK
<1>4. RunOK(srv, Count(toClient, "start") # 0, active.accepting, active.id,
            b, top)
  BY <1>1 DEF AccountsAt
<1>5. RunOK(srv, Count(toClient, "start") # 0, active.accepting, active.id,
            d, top)
  BY <1>1, <1>2, <1>3, <1>4, RunMore
<1>6. RunOK(srv', Count(toClient, "start") # 0, active.accepting, active.id,
            d, top)
  BY <1>5 DEF RunOK
<1>7. QED
  BY <1>1, <1>6

LEMMA OnAckRun ==
    ASSUME TypeInv, active.id \in Files, NEW k \in Nat, AccountsAt(k),
           Connected >= 1,
           NEW m, m.received \in Nat, m.received <= active.lastAck, OnAck(m)
    PROVE  RunOK(srv', Count(toClient, "start") # 0, active.accepting,
                 active.id, Upto(k), Upto(Connected - 1))
<1>1. PICK b \in Nat, top \in Nat, w \in Nat, a \in Nat :
          /\ b = Upto(k) /\ top = Upto(Connected - 1)
          /\ w = Window1 /\ a = active.lastAck
  BY UptoNat, TopNat
<1>2. a <= top /\ a <= b /\ (k >= 1 => a + w <= b)
  BY <1>1, UptoNat, TopNat
<1>3. PICK n \in Nat, o \in Nat, t \in Nat :
          n = m.received /\ o = srv.acked /\ t = srv.sent
  BY DEF TypeInv, ServerInv, ServerTypeOK
<1>4. active.accepting => k >= 1
  BY DEF AccountsAt
<1>5. RunOK(srv, Count(toClient, "start") # 0, active.accepting, active.id,
            b, top)
  BY <1>1 DEF AccountsAt
<1>6. CASE srv.active = m.id /\ n > o
  <2>1. srv' = [srv EXCEPT !.acked = n]
    BY <1>3, <1>6 DEF OnAck
  <2>2. /\ srv'.acked = n /\ srv'.phase = srv.phase /\ srv'.sent = t
        /\ srv'.active = srv.active
    BY <1>3, <2>1 DEF TypeInv, ServerInv, ServerTypeOK
  <2>3. n <= a
    BY <1>1, <1>3
  <2>4. n <= top /\ n <= b /\ (active.accepting => n + w <= b)
    BY <1>2, <1>4, <2>3
  <2>5. srv.phase # "idle" => t <= n + w
    <3>1. srv.phase # "idle" => t <= o + w
      BY <1>1, <1>3, <1>5 DEF RunOK
    <3>2. QED
      BY <1>6, <3>1
  <2>6. RunOK(srv', Count(toClient, "start") # 0, active.accepting, active.id,
              b, top)
    BY <1>1, <1>3, <1>5, <2>2, <2>4, <2>5 DEF RunOK
  <2>7. QED
    BY <1>1, <2>6
<1>7. CASE ~(srv.active = m.id /\ n > o)
  <2>1. srv' = srv
    BY <1>3, <1>7 DEF OnAck
  <2>2. QED
    BY <1>1, <1>5, <2>1
<1>8. QED
  BY <1>6, <1>7

LEMMA OnServerMessageAccounts ==
    ASSUME TypeInv, UNCHANGED clientVars, Connected' = Connected, cOpen,
           active.id \in Files, NEW k \in Nat, AccountsAt(k),
           Connected >= 1, OnServerMessage
    PROVE  Accounts'
<1>1. PICK m, r : m = Head(toServer) /\ r = Tail(toServer)
  OBVIOUS
<1>2. toServer \in Seq(ReceiverMsg) /\ toServer # <<>>
  BY DEF TypeInv, ChannelTypeOK, OnServerMessage
<1>3. m \in ReceiverMsg /\ r \in Seq(ReceiverMsg) /\ toServer' = r
  BY <1>1, <1>2, HeadTailProperties DEF OnServerMessage
<1>4. /\ GetsOK(r, active.id, active.lastAck, Upto(k))
      /\ m.t = "get" => m.id = active.id /\ m.offset <= Upto(k)
      /\ m.t = "ack" => m.received <= active.lastAck
  <2>1. Head(toServer) = toServer[1] /\ 1 \in 1 .. Len(toServer)
    BY <1>2, TailElements
  <2>2. QED
    BY <1>1, <1>2, <2>1, GetsTail DEF AccountsAt, GetsOK
<1>5. Count(toServer, "get") = (IF m.t = "get" THEN 1 ELSE 0) + Count(r, "get")
  BY <1>1, <1>2, CountHead
<1>6. PICK g \in Nat, l \in Nat, ss \in Nat, hh \in Nat, n \in Nat :
          /\ g = Count(r, "get") /\ l = Len(srv.queue)
          /\ ss = Count(toClient, "start") /\ hh = Count(toClient, "hello")
          /\ n = Connected
  BY <1>3, AsksNat, CountNat
<1>7. (IF m.t = "get" THEN 1 ELSE 0) + g + l + ss + hh + k = n
  <2>1. Asks + k = n
    BY <1>6 DEF AccountsAt
  <2>2. Asks = ((IF m.t = "get" THEN 1 ELSE 0) + g) + l + ss + hh
    BY <1>5, <1>6 DEF Asks
  <2>3. QED
    BY <1>6, <2>1, <2>2
<1>8. /\ srv.queue \in Seq(Request)
      /\ QueueOK(srv.queue, active.id, Upto(k))
  BY DEF TypeInv, ServerInv, ServerTypeOK, Request, AccountsAt
<1>9. ASSUME NEW q \in Seq(Request), QueueOK(q, active.id, Upto(k)),
             Len(q) <= l + (IF m.t = "get" THEN 1 ELSE 0)
      PROVE  \E j \in Nat :
                 /\ k <= j /\ g + Len(q) + ss + hh + j = n
                 /\ GetsOK(r, active.id, active.lastAck, Upto(j))
                 /\ QueueOK(q, active.id, Upto(j))
  <2>1. PICK x \in Nat : x = Len(q)
    BY LenProperties
  <2>2. PICK j \in Nat : k <= j /\ g + x + ss + hh + j = n
    <3>1. PICK e \in Nat : e = IF m.t = "get" THEN 1 ELSE 0
      OBVIOUS
    <3>2. PICK y \in Nat : y = g + x + ss + hh
      OBVIOUS
    <3>3. e + g + l + ss + hh + k = n /\ x <= l + e
      BY <1>7, <1>9, <2>1, <3>1
    <3>4. y + k <= n
      BY <3>2, <3>3
    <3>5. PICK j \in Nat : k <= j /\ y + j = n
      BY <3>4, Rest
    <3>6. QED
      BY <3>2, <3>5
  <2>3. PICK a \in Nat, b \in Nat, d \in Nat :
            a = active.lastAck /\ b = Upto(k) /\ d = Upto(j)
    BY UptoNat
  <2>4. b <= d
    BY <2>2, <2>3, UptoMore
  <2>5. GetsOK(r, active.id, a, d)
    BY <1>3, <1>4, <2>3, <2>4, GetsMore
  <2>6. QueueOK(q, active.id, d)
    BY <1>9, <2>3, <2>4, QueueMore
  <2>7. QED
    BY <2>1, <2>2, <2>3, <2>5, <2>6
<1>10. ASSUME NEW q \in Seq(Request), QueueOK(q, active.id, Upto(k)),
              Len(q) <= l + (IF m.t = "get" THEN 1 ELSE 0),
              FinishFile(q, <<>>)
       PROVE  Accounts'
  <2>1. PICK j \in Nat :
            /\ k <= j /\ g + Len(q) + ss + hh + j = n
            /\ GetsOK(r, active.id, active.lastAck, Upto(j))
            /\ QueueOK(q, active.id, Upto(j))
    BY <1>9, <1>10
  <2>2. /\ active.received <= Upto(j)
        /\ active.accepting => j >= 1
        /\ BoxOK(toClient, active.accepting, active.id, Upto(j))
    BY <2>1, AccountsMore
  <2>3. Count(toServer', "get") + Len(q) + Count(toClient, "start")
            + Count(toClient, "hello") + j = Connected
    BY <1>3, <1>6, <2>1
  <2>4. <<>> \in Seq(SenderMsg) /\ \A i \in 1 .. Len(<<>>) : <<>>[i].t = "error"
    <3>1. Len(<<>>) = 0 /\ 1 .. 0 = {}
      OBVIOUS
    <3>2. QED
      BY <3>1, EmptySeq
  <2>5. sOpen
    BY DEF OnServerMessage
  <2>6. AccountsAt(j)'
    BY <1>3, <1>10, <2>1, <2>2, <2>3, <2>4, <2>5, Announced
  <2>7. QED
    BY <2>6 DEF Accounts
<1>11. ASSUME NEW q \in Seq(Request), QueueOK(q, active.id, Upto(k)),
              Len(q) <= l + (IF m.t = "get" THEN 1 ELSE 0),
              srv'.queue = q, toClient' = toClient,
              srv'.phase # "idle" =>
                  /\ srv.phase # "idle" /\ srv'.active = srv.active
                  /\ srv'.acked = srv.acked /\ srv'.sent = srv.sent
                  /\ srv'.phase = "hash" => srv.phase = "hash"
       PROVE  Accounts'
  <2>1. PICK j \in Nat :
            /\ k <= j /\ g + Len(q) + ss + hh + j = n
            /\ GetsOK(r, active.id, active.lastAck, Upto(j))
            /\ QueueOK(q, active.id, Upto(j))
    BY <1>9, <1>11
  <2>2. RunOK(srv', Count(toClient, "start") # 0, active.accepting,
              active.id, Upto(j), Upto(Connected - 1))
    BY <1>11, <2>1, RunKept
  <2>3. Count(toServer', "get") + Len(srv'.queue) + Count(toClient, "start")
            + Count(toClient, "hello") + j = Connected
    BY <1>3, <1>6, <1>11, <2>1
  <2>4. /\ GetsOK(toServer', active.id, active.lastAck, Upto(j))
        /\ QueueOK(srv'.queue, active.id, Upto(j))
    BY <1>3, <1>11, <2>1
  <2>5. AccountsAt(j)'
    BY <1>11, <2>1, <2>2, <2>3, <2>4, Requeued
  <2>6. QED
    BY <2>5 DEF Accounts
<1>12. srv \in [queue : Seq(Request), active : Files \cup {NoFile},
                cancelled : BOOLEAN, phase : {"idle", "read", "send", "hash"},
                sent : Nat, acked : Nat, blockEnd : Nat]
  BY DEF TypeInv, ServerInv, ServerTypeOK, Request
<1>13. CASE m.t = "get" /\ OnGet(m)
  <2>1. PICK w : w = Without(srv.queue, m.id)
    OBVIOUS
  <2>2. m.id \in Files /\ m.offset \in Nat
    BY <1>3, <1>13 DEF ReceiverMsg
  <2>3. /\ w \in Seq(Request) /\ QueueOK(w, active.id, Upto(k))
        /\ Len(w) <= Len(srv.queue)
    BY <1>8, <2>1, <2>2, WithoutType, WithoutSome
  <2>4. PICK x : x = [id |-> m.id, offset |-> m.offset]
    OBVIOUS
  <2>5. x \in Request /\ x.id = active.id /\ x.offset <= Upto(k)
    BY <1>4, <1>13, <2>2, <2>4 DEF Request
  <2>6. PICK q : q = <<x>> \o w
    OBVIOUS
  <2>7. QueueOK(q, active.id, Upto(k)) /\ Len(q) = Len(w) + 1
    BY <2>3, <2>5, <2>6, QueueCons
  <2>8. q \in Seq(Request)
    BY <2>3, <2>5, <2>6, Singleton, ConcatProperties
  <2>9. Len(q) <= l + (IF m.t = "get" THEN 1 ELSE 0)
    <3>1. Len(w) \in Nat
      BY <2>3, LenProperties
    <3>2. QED
      BY <1>6, <1>13, <2>3, <2>7, <3>1
  <2>10. CASE srv.phase \in {"idle", "send"}
    <3>1. FinishFile(q, <<>>)
      BY <1>13, <2>1, <2>4, <2>6, <2>10 DEF OnGet
    <3>2. QED
      BY <1>10, <2>7, <2>8, <2>9, <3>1
  <2>11. CASE srv.phase \notin {"idle", "send"}
    <3>1. /\ srv' = [srv EXCEPT !.queue = q, !.cancelled = TRUE]
          /\ toClient' = toClient
      BY <1>13, <2>1, <2>4, <2>6, <2>11 DEF OnGet
    <3>2. /\ srv'.queue = q /\ srv'.active = srv.active
          /\ srv'.acked = srv.acked /\ srv'.sent = srv.sent
          /\ srv'.phase = srv.phase
      BY <1>12, <3>1
    <3>3. QED
      BY <1>11, <2>7, <2>8, <2>9, <2>11, <3>1, <3>2
  <2>12. QED
    BY <2>10, <2>11
<1>14. CASE m.t = "ack" /\ OnAck(m)
  <2>1. m.received \in Nat /\ m.received <= active.lastAck
    BY <1>3, <1>4, <1>14 DEF ReceiverMsg
  <2>2. RunOK(srv', Count(toClient, "start") # 0, active.accepting,
              active.id, Upto(k), Upto(Connected - 1))
    BY <1>14, <2>1, OnAckRun
  <2>3. srv'.queue = srv.queue /\ toClient' = toClient
    BY <1>12, <1>14 DEF OnAck
  <2>4. Count(toServer', "get") + Len(srv'.queue) + Count(toClient, "start")
            + Count(toClient, "hello") + k = Connected
    BY <1>3, <1>6, <1>7, <1>14, <2>3
  <2>5. /\ GetsOK(toServer', active.id, active.lastAck, Upto(k))
        /\ QueueOK(srv'.queue, active.id, Upto(k)) /\ k <= k
    BY <1>3, <1>4, <1>8, <2>3
  <2>6. AccountsAt(k)'
    BY <2>2, <2>3, <2>4, <2>5, Requeued
  <2>7. QED
    BY <2>6 DEF Accounts
<1>15. CASE m.t = "cancel" /\ OnCancel(m)
  <2>1. PICK w : w = Without(srv.queue, m.id)
    OBVIOUS
  <2>2. m.id \in Files
    BY <1>3, <1>15 DEF ReceiverMsg
  <2>3. /\ w \in Seq(Request) /\ QueueOK(w, active.id, Upto(k))
        /\ Len(w) <= Len(srv.queue)
    BY <1>8, <2>1, <2>2, WithoutType, WithoutSome
  <2>4. Len(w) <= l + (IF m.t = "get" THEN 1 ELSE 0)
    BY <1>6, <1>15, <2>3
  <2>5. CASE srv.active = m.id /\ srv.phase = "send"
    <3>1. FinishFile(w, <<>>)
      BY <1>15, <2>1, <2>5 DEF OnCancel
    <3>2. QED
      BY <1>10, <2>3, <2>4, <3>1
  <2>6. CASE ~(srv.active = m.id /\ srv.phase = "send")
    <3>1. /\ srv' = [srv EXCEPT !.queue = w,
                                !.cancelled = @ \/ srv.active = m.id]
          /\ toClient' = toClient
      BY <1>15, <2>1, <2>6 DEF OnCancel
    <3>2. /\ srv'.queue = w /\ srv'.active = srv.active
          /\ srv'.acked = srv.acked /\ srv'.sent = srv.sent
          /\ srv'.phase = srv.phase
      BY <1>12, <3>1
    <3>3. QED
      BY <1>11, <2>3, <2>4, <3>1, <3>2
  <2>7. QED
    BY <2>5, <2>6
<1>16. CASE m.t = "done" /\ UNCHANGED <<srv, toClient>>
  BY <1>6, <1>8, <1>11, <1>16
<1>17. QED
  BY <1>1, <1>13, <1>14, <1>15, <1>16 DEF OnServerMessage

LEMMA FinishQueue ==
    ASSUME TypeInv, UNCHANGED clientVars, Connected' = Connected, sOpen, cOpen,
           active.id \in Files, NEW k \in Nat, AccountsAt(k),
           toServer' = toServer,
           NEW msgs \in Seq(SenderMsg),
           \A i \in 1 .. Len(msgs) : msgs[i].t = "error",
           FinishFile(srv.queue, msgs)
    PROVE  Accounts'
<1>1. k <= k
  OBVIOUS
<1>2. /\ active.received <= Upto(k)
      /\ active.accepting => k >= 1
      /\ GetsOK(toServer, active.id, active.lastAck, Upto(k))
      /\ QueueOK(srv.queue, active.id, Upto(k))
      /\ BoxOK(toClient, active.accepting, active.id, Upto(k))
  BY <1>1, AccountsMore
<1>3. srv.queue \in Seq(Request) /\ toServer \in Seq(ReceiverMsg)
  BY DEF TypeInv, ServerInv, ServerTypeOK, Request, ChannelTypeOK
<1>4. Count(toServer, "get") + Len(srv.queue) + Count(toClient, "start")
          + Count(toClient, "hello") + k = Connected
  BY DEF AccountsAt, Asks
<1>5. AccountsAt(k)'
  BY <1>2, <1>3, <1>4, Announced
<1>6. QED
  BY <1>5 DEF Accounts

LEMMA NoErrors ==
    /\ <<>> \in Seq(SenderMsg)
    /\ \A i \in 1 .. Len(<<>>) : <<>>[i].t = "error"
<1>1. Len(<<>>) = 0 /\ 1 .. 0 = {}
  OBVIOUS
<1>2. QED
  BY <1>1, EmptySeq

LEMMA LoopAccounts ==
    ASSUME TypeInv, UNCHANGED clientVars, Connected' = Connected, cOpen,
           active.id \in Files, NEW k \in Nat, AccountsAt(k),
           Connected >= 1,
           BlockRead \/ ReadFails \/ ServerClose
    PROVE  Accounts'
<1>1. srv \in [queue : Seq(Request), active : Files \cup {NoFile},
               cancelled : BOOLEAN, phase : {"idle", "read", "send", "hash"},
               sent : Nat, acked : Nat, blockEnd : Nat]
  BY DEF TypeInv, ServerInv, ServerTypeOK, Request
<1>2. k <= k
  OBVIOUS
<1>3. /\ GetsOK(toServer, active.id, active.lastAck, Upto(k))
      /\ QueueOK(srv.queue, active.id, Upto(k))
  BY DEF AccountsAt
<1>4. Count(toServer, "get") + Len(srv.queue) + Count(toClient, "start")
          + Count(toClient, "hello") + k = Connected
  BY DEF AccountsAt, Asks
<1>5. CASE BlockRead /\ srv.cancelled
  <2>1. sOpen /\ toServer' = toServer /\ FinishFile(srv.queue, <<>>)
    BY <1>5 DEF BlockRead
  <2>2. QED
    BY <2>1, NoErrors, FinishQueue
<1>6. CASE BlockRead /\ ~srv.cancelled
  <2>1. /\ srv' = [srv EXCEPT !.phase = "send",
                       !.blockEnd = Least(Size[srv.active], @ + READ_BLOCK)]
        /\ toClient' = toClient /\ toServer' = toServer /\ srv.phase = "read"
    BY <1>6 DEF BlockRead
  <2>2. /\ srv'.queue = srv.queue /\ srv'.active = srv.active
        /\ srv'.acked = srv.acked /\ srv'.sent = srv.sent
        /\ srv'.phase = "send"
    BY <1>1, <2>1
  <2>3. RunOK(srv', Count(toClient, "start") # 0, active.accepting,
              active.id, Upto(k), Upto(Connected - 1))
    BY <1>2, <2>1, <2>2, RunKept
  <2>4. /\ GetsOK(toServer', active.id, active.lastAck, Upto(k))
        /\ QueueOK(srv'.queue, active.id, Upto(k))
        /\ Count(toServer', "get") + Len(srv'.queue) + Count(toClient, "start")
               + Count(toClient, "hello") + k = Connected
    BY <1>3, <1>4, <2>1, <2>2
  <2>5. AccountsAt(k)'
    BY <1>2, <2>1, <2>3, <2>4, Requeued
  <2>6. QED
    BY <2>5 DEF Accounts
<1>7. CASE ReadFails
  <2>1. PICK msgs : msgs = IF srv.cancelled THEN <<>>
                           ELSE <<ErrorMsg(srv.active)>>
    OBVIOUS
  <2>2. sOpen /\ toServer' = toServer /\ FinishFile(srv.queue, msgs)
    BY <1>7, <2>1 DEF ReadFails
  <2>3. msgs \in Seq(SenderMsg) /\ \A i \in 1 .. Len(msgs) : msgs[i].t = "error"
    <3>1. CASE srv.cancelled
      BY <2>1, <3>1, NoErrors
    <3>2. CASE ~srv.cancelled
      <4>1. PICK e : e = ErrorMsg(srv.active)
        OBVIOUS
      <4>2. srv.active \in Files
        BY <1>7 DEF ReadFails, TypeInv, ServerInv, ServerOK
      <4>3. e \in SenderMsg /\ e.t = "error"
        BY <4>1, <4>2 DEF ErrorMsg, SenderMsg
      <4>4. msgs = <<e>>
        BY <2>1, <3>2, <4>1
      <4>5. QED
        BY <4>3, <4>4
    <3>3. QED
      BY <3>1, <3>2
  <2>4. QED
    BY <2>2, <2>3, FinishQueue
<1>8. CASE ServerClose
  <2>1. /\ srv' = IdleServer /\ toServer' = <<>> /\ toClient' = toClient
    BY <1>8 DEF ServerClose
  <2>2. srv'.queue = <<>> /\ srv'.phase = "idle"
    BY <2>1 DEF IdleServer
  <2>3. Count(toServer', "get") = 0 /\ Len(srv'.queue) = 0
    BY <2>1, <2>2, CountEmpty
  <2>4. PICK g \in Nat, l \in Nat, ss \in Nat, hh \in Nat, n \in Nat :
            /\ g = Count(toServer, "get") /\ l = Len(srv.queue)
            /\ ss = Count(toClient, "start") /\ hh = Count(toClient, "hello")
            /\ n = Connected
    BY AsksNat
  <2>5. PICK j \in Nat : k <= j /\ ss + hh + j = n
    <3>1. g + l + ss + hh + k = n
      BY <1>4, <2>4
    <3>2. g + l + k \in Nat /\ k <= g + l + k /\ ss + hh + (g + l + k) = n
      BY <3>1
    <3>3. QED
      BY <3>2
  <2>6. Count(toServer', "get") + Len(srv'.queue) + Count(toClient, "start")
            + Count(toClient, "hello") + j = Connected
    BY <2>3, <2>4, <2>5
  <2>7. /\ GetsOK(toServer', active.id, active.lastAck, Upto(j))
        /\ QueueOK(srv'.queue, active.id, Upto(j))
    <3>1. Len(<<>>) = 0 /\ 1 .. 0 = {}
      OBVIOUS
    <3>2. QED
      BY <2>1, <2>2, <3>1 DEF GetsOK, QueueOK
  <2>8. RunOK(srv', Count(toClient, "start") # 0, active.accepting,
              active.id, Upto(j), Upto(Connected - 1))
    BY <2>2 DEF RunOK
  <2>9. AccountsAt(j)'
    BY <2>1, <2>5, <2>6, <2>7, <2>8, Requeued
  <2>10. QED
    BY <2>9 DEF Accounts
<1>9. QED
  BY <1>5, <1>6, <1>7, <1>8

\* A chunk leaves only while the window has room.
LEMMA SendChunkAccounts ==
    ASSUME TypeInv, UNCHANGED clientVars, Connected' = Connected, cOpen,
           active.id \in Files, NEW k \in Nat, AccountsAt(k), SendChunk
    PROVE  Accounts'
<1>1. srv \in [queue : Seq(Request), active : Files \cup {NoFile},
               cancelled : BOOLEAN, phase : {"idle", "read", "send", "hash"},
               sent : Nat, acked : Nat, blockEnd : Nat]
  BY DEF TypeInv, ServerInv, ServerTypeOK, Request
<1>2. PICK f \in Files, b \in Nat, w \in Nat, o \in Nat, t \in Nat, e \in Nat :
          /\ f = active.id /\ b = Upto(k) /\ w = Window1
          /\ o = srv.acked /\ t = srv.sent /\ e = srv.blockEnd
  BY <1>1, UptoNat
<1>3. /\ srv.phase = "send" /\ sOpen /\ t - o <= WINDOW /\ t < e
      /\ toServer' = toServer
  BY <1>2 DEF SendChunk, HasCapacity, TypeInv, ServerInv, ServerOK
<1>4. RunOK(srv, Count(toClient, "start") # 0, active.accepting, f,
            b, Upto(Connected - 1))
  BY <1>2 DEF AccountsAt
<1>5. srv.active = f
  BY <1>3, <1>4 DEF RunOK
<1>6. PICK len \in Nat : len = Least(CHUNK, e - t) /\ len <= CHUNK
  <2>1. PICK d \in Nat : d = e - t
    BY <1>3
  <2>2. PICK c \in Nat : c = CHUNK
    OBVIOUS
  <2>3. Least(c, d) \in Nat /\ Least(c, d) <= c
    BY DEF Least
  <2>4. QED
    BY <2>1, <2>2, <2>3
<1>8. t + len <= o + w
  BY <1>2, <1>3, <1>6 DEF Window1
<1>9. PICK c : c = Chunk(f, t, len)
  OBVIOUS
<1>10. c \in SenderMsg /\ c.t = "chunk" /\ c.id = f /\ c.at + c.len = t + len
  BY <1>9 DEF Chunk, SenderMsg, Chunks
<1>11. PICK s : s = <<c>>
  OBVIOUS
<1>12. toClient' = toClient \o s
  BY <1>2, <1>3, <1>5, <1>6, <1>9, <1>11 DEF SendChunk, Deliver
<1>13. PICK p : p = IF t + len < e THEN "send"
                    ELSE IF t + len < Size[f] THEN "read" ELSE "hash"
  OBVIOUS
<1>14. srv' = [srv EXCEPT !.sent = t + len, !.phase = p]
  BY <1>2, <1>5, <1>6, <1>13 DEF SendChunk
<1>15. /\ srv'.queue = srv.queue /\ srv'.active = f
       /\ srv'.acked = o /\ srv'.sent = t + len /\ srv'.phase = p
  BY <1>1, <1>2, <1>5, <1>14
<1>16. p = "hash" => t + len >= Size[f]
  <2>1. Size[f] \in Nat
    OBVIOUS
  <2>2. QED
    BY <1>13, <2>1
<1>17. toClient \in Seq(SenderMsg) /\ s \in Seq(SenderMsg)
  BY <1>10, <1>11 DEF TypeInv, ChannelTypeOK
<1>18. /\ Count(toClient', "start") = Count(toClient, "start")
       /\ Count(toClient', "hello") = Count(toClient, "hello")
  <2>1. Count(s, "start") = 0 /\ Count(s, "hello") = 0
    BY <1>10, <1>11, CountOne
  <2>2. /\ Count(toClient', "start") = Count(toClient, "start") + Count(s, "start")
        /\ Count(toClient', "hello") = Count(toClient, "hello") + Count(s, "hello")
    BY <1>12, <1>17, CountConcat
  <2>3. QED
    BY <2>1, <2>2, AsksNat
<1>19. /\ Count(toClient, "start") # 0 => o <= b
       /\ Count(toClient, "start") = 0 /\ active.accepting => o + w <= b
  BY <1>2, <1>3, <1>4 DEF RunOK
<1>20. BoxOK(toClient', active.accepting, f, b)
  <2>1. /\ Count(toClient, "start") # 0 => c.at + c.len <= b + Window1
        /\ Count(toClient, "start") = 0 /\ active.accepting =>
               c.at + c.len <= b
    BY <1>2, <1>8, <1>10, <1>19
  <2>2. BoxOK(toClient, active.accepting, f, b)
    BY <1>2 DEF AccountsAt
  <2>3. BoxOK(toClient \o <<c>>, active.accepting, f, b)
    BY <1>10, <1>17, <2>1, <2>2, BoxChunk
  <2>4. QED
    BY <1>11, <1>12, <2>3
<1>21. active' = active /\ Connected' = Connected
  BY DEF clientVars
<1>22. /\ Upto(k)' = b
       /\ Upto(Connected - 1)' = Upto(Connected - 1)
  BY <1>2, <1>21 DEF Upto
<1>23. RunOK(srv', Count(toClient', "start") # 0, active'.accepting,
             active'.id, b, Upto(Connected - 1))
  BY <1>2, <1>3, <1>4, <1>8, <1>15, <1>16, <1>18, <1>21 DEF RunOK
<1>24. Asks' + k = Connected'
  BY <1>3, <1>15, <1>18, <1>21 DEF Asks, AccountsAt
<1>25. AccountsAt(k)'
  BY <1>2, <1>3, <1>15, <1>20, <1>21, <1>22, <1>23, <1>24 DEF AccountsAt
<1>26. QED
  BY <1>25 DEF Accounts

\* The end is only sent once the window reached the end of the file.
LEMMA HashReadyAccounts ==
    ASSUME TypeInv, UNCHANGED clientVars, Connected' = Connected, cOpen,
           active.id \in Files, NEW k \in Nat, AccountsAt(k),
           Connected >= 1, NEW sha \in Sha256, HashReady(sha)
    PROVE  Accounts' \/ Fits
<1>1. CASE srv.cancelled
  <2>1. sOpen /\ toServer' = toServer /\ FinishFile(srv.queue, <<>>)
    BY <1>1 DEF HashReady
  <2>2. QED
    BY <2>1, NoErrors, FinishQueue
<1>2. CASE ~srv.cancelled
  <2>1. PICK top \in Nat, w \in Nat, o \in Nat, t \in Nat, z \in Nat :
            /\ top = Upto(Connected - 1) /\ w = Window1
            /\ o = srv.acked /\ t = srv.sent /\ z = Size[active.id]
    BY UptoNat, TopNat DEF TypeInv, ServerInv, ServerTypeOK
  <2>2. RunOK(srv, Count(toClient, "start") # 0, active.accepting, active.id,
              Upto(k), top) /\ srv.phase = "hash"
    BY <2>1 DEF AccountsAt, HashReady
  <2>3. o <= top /\ t <= o + w /\ t >= z
    BY <2>1, <2>2 DEF RunOK
  <2>4. top + w = Upto(Connected)
    BY <2>1, TopNat
  <2>5. QED
    BY <2>1, <2>3, <2>4 DEF Fits
<1>3. QED
  BY <1>1, <1>2

LEMMA ServerAccounts ==
    ASSUME TypeInv, UNCHANGED clientVars, Connected' = Connected, cOpen,
           active.id \in Files, Accounts, Connected >= 1,
           ServerStep \/ HashReady(FALSE) \/ ReadFails \/ ServerClose
    PROVE  Accounts' \/ Fits
<1>1. PICK k \in Nat : AccountsAt(k)
  BY DEF Accounts
<1>2. TRUE \in Sha256 /\ FALSE \in Sha256
  BY DEF Sha256
<1>3. QED
  BY <1>1, <1>2, OnServerMessageAccounts, LoopAccounts, SendChunkAccounts,
     HashReadyAccounts
  DEF ServerStep

-----------------------------------------------------------------------------
(* The client keeps within the accounts.                                   *)

\* What a step of the client leaves as it was while a sink is open.
Same(d, e) ==
    /\ e.id = d.id /\ e.ready = d.ready
    /\ e.written = d.written /\ e.lastAck = d.lastAck

Steady(d, e) ==
    /\ Same(d, e)
    /\ e.received = d.received /\ e.barrier = d.barrier
    /\ e.accepting => d.accepting

LEMMA SendCount ==
    ASSUME TypeInv, NEW s \in Seq(ReceiverMsg), Send(s)
    PROVE  /\ toServer' \in Seq(ReceiverMsg)
           /\ Count(s, "get") \in Nat
           /\ \/ Count(toServer', "get") = Count(toServer, "get")
              \/ Count(toServer', "get")
                     = Count(toServer, "get") + Count(s, "get")
<1>1. toServer \in Seq(ReceiverMsg)
  BY DEF TypeInv, ChannelTypeOK
<1>2. Count(toServer \o s, "get") = Count(toServer, "get") + Count(s, "get")
  BY <1>1, CountConcat
<1>3. Count(s, "get") \in Nat
  BY CountNat
<1>4. toServer' = toServer \o s \/ toServer' = toServer
  BY DEF Send, Deliver
<1>5. toServer \o s \in Seq(ReceiverMsg)
  BY <1>1, ConcatProperties
<1>6. QED
  BY <1>1, <1>2, <1>3, <1>4, <1>5

LEMMA SendGets ==
    ASSUME TypeInv, NEW s \in Seq(ReceiverMsg), Send(s),
           NEW f, NEW a, NEW b, GetsOK(toServer, f, a, b), GetsOK(s, f, a, b)
    PROVE  GetsOK(toServer', f, a, b)
<1>1. toServer \in Seq(ReceiverMsg)
  BY DEF TypeInv, ChannelTypeOK
<1>2. GetsOK(toServer \o s, f, a, b)
  BY <1>1, GetsAppend
<1>3. toServer' = toServer \o s \/ toServer' = toServer
  BY DEF Send, Deliver
<1>4. QED
  BY <1>2, <1>3

Asking(m) == IF m.t \in {"hello", "start"} THEN 1 ELSE 0

\* A message is taken off the channel and s is sent.
LEMMA PoppedCounts ==
    ASSUME TypeInv, NEW k \in Nat, AccountsAt(k), toClient # <<>>,
           NEW s \in Seq(ReceiverMsg), Send(s),
           Count(s, "get") <= Asking(Head(toClient))
    PROVE  \E j \in Nat :
               /\ k <= j
               /\ Count(s, "get") = 0 => j = k + Asking(Head(toClient))
               /\ Count(toServer', "get") + Len(srv.queue)
                      + Count(Tail(toClient), "start")
                      + Count(Tail(toClient), "hello") + j
                      = Connected
<1>1. PICK m, r : m = Head(toClient) /\ r = Tail(toClient)
  OBVIOUS
<1>2. toClient \in Seq(SenderMsg)
  BY DEF TypeInv, ChannelTypeOK
<1>3. r \in Seq(SenderMsg)
  BY <1>1, <1>2, HeadTailProperties
<1>4. /\ Count(toClient, "start") =
             (IF m.t = "start" THEN 1 ELSE 0) + Count(r, "start")
      /\ Count(toClient, "hello") =
             (IF m.t = "hello" THEN 1 ELSE 0) + Count(r, "hello")
  BY <1>1, <1>2, CountHead
<1>5. PICK g \in Nat, c \in Nat, l \in Nat, ss \in Nat, hh \in Nat, n \in Nat :
          /\ g = Count(toServer, "get") /\ c = Count(s, "get")
          /\ l = Len(srv.queue)
          /\ ss = Count(r, "start") /\ hh = Count(r, "hello")
          /\ n = Connected
  BY <1>3, AsksNat, CountNat
<1>6. PICK e \in Nat : e = Asking(m)
  BY DEF Asking
<1>7. Count(toClient, "start") + Count(toClient, "hello") = e + ss + hh
  <2>1. "start" # "hello"
    OBVIOUS
  <2>2. QED
    BY <1>4, <1>5, <1>6, <2>1 DEF Asking
<1>8. g + l + (e + ss + hh) + k = n
  <2>1. PICK x \in Nat, y \in Nat :
            x = Count(toClient, "start") /\ y = Count(toClient, "hello")
    BY AsksNat
  <2>2. g + l + x + y + k = n
    BY <1>5, <2>1 DEF AccountsAt, Asks
  <2>3. x + y = e + ss + hh
    BY <1>7, <2>1
  <2>4. QED
    BY <2>2, <2>3
<1>9. PICK h \in Nat : h = Count(toServer', "get")
  BY SendCount, CountNat
<1>10. (h = g \/ h = g + c) /\ c <= e
  BY <1>1, <1>5, <1>6, <1>9, SendCount
<1>11. PICK j \in Nat : k <= j /\ (c = 0 => j = k + e) /\ h + l + ss + hh + j = n
  <2>1. CASE h = g
    <3>1. h + l + ss + hh + (k + e) = n
      BY <1>8, <2>1
    <3>2. QED
      BY <3>1
  <2>2. CASE h = g + c
    <3>1. PICK d \in Nat : d = e - c
      BY <1>10
    <3>2. h + l + ss + hh + (k + d) = n
      BY <1>8, <2>2, <3>1
    <3>3. c = 0 => k + d = k + e
      BY <3>1
    <3>4. QED
      BY <3>2, <3>3
  <2>3. QED
    BY <1>10, <2>1, <2>2
<1>12. QED
  BY <1>1, <1>5, <1>6, <1>9, <1>11

LEMMA Popped ==
    ASSUME TypeInv, active.id \in Files, NEW k \in Nat, AccountsAt(k),
           Connected >= 1,
           toClient # <<>>, toClient' = Tail(toClient),
           srv' = srv, Connected' = Connected, active' \in Download,
           active'.id = active.id, active'.lastAck = active.lastAck,
           NEW s \in Seq(ReceiverMsg), Send(s),
           GetsOK(s, active.id, active.lastAck, Upto(k)),
           Count(s, "get") <= Asking(Head(toClient)),
           active'.received <= Upto(k),
           \/ active'.accepting => active.accepting /\ Head(toClient).t # "start"
           \/ Head(toClient).t = "start" /\ Count(s, "get") = 0
    PROVE  Accounts'
<1>1. PICK j \in Nat :
          /\ k <= j
          /\ Count(s, "get") = 0 => j = k + Asking(Head(toClient))
          /\ Count(toServer', "get") + Len(srv.queue)
                 + Count(Tail(toClient), "start")
                 + Count(Tail(toClient), "hello") + j = Connected
  BY PoppedCounts
<1>2. PICK a \in Nat, b \in Nat, d \in Nat, w \in Nat, top \in Nat, f \in Files :
          /\ a = active.lastAck /\ b = Upto(k) /\ d = Upto(j) /\ w = Window1
          /\ top = Upto(Connected - 1) /\ f = active.id
  BY UptoNat, TopNat
<1>3. b <= d
  BY <1>1, <1>2, UptoMore
<1>4. PICK acc : acc = active'.accepting
  OBVIOUS
<1>5. PICK r : r = Tail(toClient)
  OBVIOUS
<1>6. toClient \in Seq(SenderMsg) /\ r \in Seq(SenderMsg)
  BY <1>5, HeadTailProperties DEF TypeInv, ChannelTypeOK
<1>7. active'.received <= d
  <2>1. PICK n \in Nat : n = active'.received
    BY DEF Download
  <2>2. QED
    BY <1>2, <1>3, <2>1
<1>8. GetsOK(toServer', f, a, d)
  <2>1. GetsOK(toServer', f, a, b)
    BY <1>2, SendGets DEF AccountsAt
  <2>2. toServer' \in Seq(ReceiverMsg)
    BY SendCount
  <2>3. QED
    BY <1>2, <1>3, <2>1, <2>2, GetsMore
<1>9. QueueOK(srv.queue, f, d)
  <2>1. srv.queue \in Seq(Request)
    BY DEF TypeInv, ServerInv, ServerTypeOK, Request
  <2>2. QED
    BY <1>2, <1>3, <2>1, QueueMore DEF AccountsAt
<1>10. PICK o \in Nat, t \in Nat : o = srv.acked /\ t = srv.sent
  BY DEF TypeInv, ServerInv, ServerTypeOK
<1>11. BoxOK(toClient, active.accepting, f, b)
  BY <1>2 DEF AccountsAt
<1>12. RunOK(srv, Count(toClient, "start") # 0, active.accepting, f, b, top)
  BY <1>2 DEF AccountsAt
<1>13. /\ BoxOK(r, acc, f, d)
       /\ RunOK(srv, Count(r, "start") # 0, acc, f, d, top)
       /\ acc => j >= 1
  <2>0. active'.accepting = acc
    BY <1>4
  <2>1. CASE Head(toClient).t # "start"
    <3>1. acc => active.accepting
      BY <1>4, <2>1
    <3>2. BoxOK(r, active.accepting, f, b)
      BY <1>5, <1>6, <1>11, <2>1, BoxTail
    <3>3. BoxOK(r, acc, f, d)
      BY <1>3, <1>6, <3>1, <3>2, BoxMore
    <3>4. Count(r, "start") = Count(toClient, "start")
      <4>1. Count(toClient, "start") = 0 + Count(r, "start")
        BY <1>5, <1>6, <2>1, CountHead
      <4>2. Count(r, "start") \in Nat
        BY <1>6, CountNat
      <4>3. QED
        BY <4>1, <4>2
    <3>5. RunOK(srv, Count(r, "start") # 0, active.accepting, f, b, top)
      BY <1>12, <3>4
    <3>6. RunOK(srv, Count(r, "start") # 0, acc, f, d, top)
      BY <1>3, <1>10, <3>1, <3>5, RunMore
    <3>7. acc => j >= 1
      BY <1>1, <3>1 DEF AccountsAt
    <3>8. QED
      BY <3>3, <3>6, <3>7
  <2>2. CASE Head(toClient).t = "start"
    <3>1. /\ BoxOK(r, FALSE, f, b) /\ BoxOK(r, TRUE, f, b + w)
      BY <1>2, <1>5, <1>6, <1>11, <2>2, BoxTail
    <3>2. Count(toClient, "start") # 0
      <4>1. Count(toClient, "start") = 1 + Count(r, "start")
        BY <1>5, <1>6, <2>2, CountHead
      <4>2. Count(r, "start") \in Nat
        BY <1>6, CountNat
      <4>3. QED
        BY <4>1, <4>2
    <3>3. srv.phase # "idle" => o <= b /\ o <= top /\ t <= o + w
      BY <1>2, <1>10, <1>12, <3>2 DEF RunOK
    <3>4. CASE ~acc
      <4>1. BoxOK(r, acc, f, d)
        BY <1>3, <1>6, <3>1, <3>4, BoxMore
      <4>2. RunOK(srv, Count(r, "start") # 0, acc, f, d, top)
        BY <1>2, <1>3, <1>10, <1>12, <3>3, <3>4 DEF RunOK
      <4>3. QED
        BY <3>4, <4>1, <4>2
    <3>5. CASE acc
      <4>1. Count(s, "get") = 0
        BY <1>4, <2>2, <3>5
      <4>2. j = k + 1
        BY <1>1, <2>2, <4>1 DEF Asking
      <4>3. d = b + w
        BY <1>2, <4>2, UptoNat
      <4>4. BoxOK(r, acc, f, d)
        <5>1. acc => TRUE
          OBVIOUS
        <5>2. d <= d
          BY <1>2
        <5>3. BoxOK(r, TRUE, f, d)
          BY <3>1, <4>3
        <5>4. QED
          BY <1>2, <1>6, <5>1, <5>2, <5>3, BoxMore
      <4>5. RunOK(srv, Count(r, "start") # 0, acc, f, d, top)
        BY <1>2, <1>3, <1>10, <1>12, <3>3, <4>3 DEF RunOK
      <4>6. QED
        BY <4>2, <4>4, <4>5
    <3>6. QED
      BY <3>4, <3>5
  <2>3. QED
    BY <2>1, <2>2
<1>14. /\ Upto(j)' = d /\ Upto(Connected - 1)' = top
  BY <1>2 DEF Upto
<1>15. Asks' + j = Connected'
  BY <1>1 DEF Asks
<1>16. AccountsAt(j)'
  BY <1>2, <1>4, <1>5, <1>7, <1>8, <1>9, <1>13, <1>14, <1>15 DEF AccountsAt
<1>17. QED
  BY <1>16 DEF Accounts

LEMMA FailingSteady ==
    ASSUME NEW d \in Download, NEW status \in {"error", "cancelled"}
    PROVE  Failing(d, status) \in Download /\ Steady(d, Failing(d, status))
BY DEF Failing, Steady, Same, Download

LEMMA FinishSteady ==
    ASSUME NEW d \in Download, NEW acks, Finish(d, acks)
    PROVE  Steady(d, active')
<1>1. CASE d.failed # "no"
  BY <1>1 DEF Finish, Steady, Same
<1>2. CASE d.failed = "no" /\ d.received # Size[d.id]
  BY <1>2 DEF Finish, Steady, Same, Download
<1>3. CASE /\ d.failed = "no" /\ d.received = Size[d.id]
           /\ active' = [Failing(d, "error") EXCEPT !.chain = <<>>]
  <2>1. PICK e : e = Failing(d, "error")
    OBVIOUS
  <2>2. e \in Download /\ Steady(d, e)
    BY <2>1, FailingSteady
  <2>3. active' = [e EXCEPT !.chain = <<>>]
    BY <1>3, <2>1
  <2>4. QED
    BY <2>2, <2>3 DEF Steady, Same, Download
<1>4. CASE /\ d.failed = "no" /\ d.received = Size[d.id]
           /\ active' = [d EXCEPT !.closing = TRUE]
  BY <1>4 DEF Steady, Same, Download
<1>5. QED
  BY <1>1, <1>2, <1>3, <1>4 DEF Finish

LEMMA SendNothing ==
    ASSUME TypeInv, toServer' = toServer
    PROVE  Send(<<>>)
<1>1. PICK q \in Seq(ReceiverMsg) : q = toServer
  BY DEF TypeInv, ChannelTypeOK
<1>2. q \o <<>> = q
  BY ConcatSimplifications, EmptySeq
<1>3. QED
  BY <1>1, <1>2 DEF Send, Deliver

\* What a message does while a sink is open: it is ignored, gives up the
\* download, or asks for its rest; it lets bytes in; it brings bytes; or it
\* ends the file.
Plainly ==
    /\ Steady(active, active')
    /\ Head(toClient).t # "end"
    /\ \/ Send(<<>>)
       \/ /\ Head(toClient).t \in {"hello", "start"} /\ ~active'.accepting
          /\ Send(<<Get(active.id, active.received)>>)
LetsIn ==
    /\ Head(toClient).t = "start"
    /\ active' = [active EXCEPT !.accepting = TRUE]
    /\ Send(<<>>)
Brings ==
    /\ Head(toClient).t = "chunk"
    /\ active.accepting /\ active.failed = "no"
    /\ active.received + Head(toClient).len <= Size[active.id]
    /\ active' = [active EXCEPT !.received = @ + Head(toClient).len,
                                !.chain = Append(@, Head(toClient))]
    /\ Send(<<>>)
Ends ==
    /\ Head(toClient).t = "end"
    /\ Same(active, active') /\ active'.received = active.received

LEMMA MessageKinds ==
    ASSUME TypeInv, LineInv, active.ready, OnClientMessage
    PROVE  /\ items' /\ queue' = queue /\ saved' = saved
           /\ Plainly \/ LetsIn \/ Brings \/ Ends
<1>1. PICK m : m = Head(toClient)
  OBVIOUS
<1>2. /\ active.id \in Files /\ items /\ active \in Download
  BY DEF LineInv, BeforeItems, TypeInv, ClientInv, LineOK, ClientOK, Download
<1>3. items'
  BY <1>2 DEF OnClientMessage
<1>4. Steady(active, active)
  BY DEF Steady, Same
<1>5. ASSUME Ignore
      PROVE  /\ queue' = queue /\ saved' = saved
             /\ active' = active /\ Send(<<>>)
  BY <1>5, SendNothing DEF Ignore
<1>6. ASSUME NEW status \in {"error", "cancelled"}, NEW msgs,
             FailActive(status, msgs)
      PROVE  /\ queue' = queue /\ saved' = saved
             /\ Steady(active, active') /\ Send(msgs)
  BY <1>2, <1>6, FailingSteady DEF FailActive
<1>7. CASE m.t = "hello" /\ OnHello
  <2>1. CASE active.failed = "no"
    <3>1. /\ active' = [active EXCEPT !.accepting = FALSE]
          /\ Send(<<Get(active.id, active.received)>>)
          /\ queue' = queue /\ saved' = saved
      BY <1>7, <2>1 DEF OnHello
    <3>2. Steady(active, active') /\ ~active'.accepting
      BY <1>2, <3>1 DEF Steady, Same, Download
    <3>3. QED
      BY <1>1, <1>3, <1>7, <3>1, <3>2 DEF Plainly
  <2>2. CASE active.failed # "no"
    <3>1. Ignore
      BY <1>2, <1>7, <2>2 DEF OnHello
    <3>2. QED
      BY <1>1, <1>3, <1>4, <1>5, <1>7, <3>1 DEF Plainly
  <2>3. QED
    BY <2>1, <2>2
<1>8. CASE m.t = "start" /\ OnStart(m)
  <2>1. CASE m.id # active.id
    <3>1. Ignore
      BY <1>8, <2>1 DEF OnStart
    <3>2. QED
      BY <1>1, <1>3, <1>4, <1>5, <1>8, <3>1 DEF Plainly
  <2>2. CASE m.id = active.id /\ m.offset = active.received
    <3>1. /\ active' = [active EXCEPT !.accepting = TRUE]
          /\ Send(<<>>)
          /\ queue' = queue /\ saved' = saved
      BY <1>8, <2>2 DEF OnStart
    <3>2. QED
      BY <1>1, <1>3, <1>8, <3>1 DEF LetsIn
  <2>3. CASE m.id = active.id /\ m.offset # active.received
    <3>1. /\ active' = [active EXCEPT !.accepting = FALSE]
          /\ Send(<<Get(active.id, active.received)>>)
          /\ queue' = queue /\ saved' = saved
      BY <1>8, <2>3 DEF OnStart
    <3>2. Steady(active, active') /\ ~active'.accepting
      BY <1>2, <3>1 DEF Steady, Same, Download
    <3>3. QED
      BY <1>1, <1>3, <1>8, <3>1, <3>2 DEF Plainly
  <2>4. QED
    BY <2>1, <2>2, <2>3
<1>9. CASE m.t = "chunk" /\ OnChunk(m)
  <2>1. CASE ~active.accepting \/ active.failed # "no"
    <3>1. Ignore
      BY <1>9, <2>1 DEF OnChunk
    <3>2. QED
      BY <1>1, <1>3, <1>4, <1>5, <1>9, <3>1 DEF Plainly
  <2>2. CASE /\ active.accepting /\ active.failed = "no"
             /\ active.received + m.len > Size[active.id]
    <3>1. FailActive("error", <<>>)
      BY <1>9, <2>2 DEF OnChunk
    <3>2. QED
      BY <1>1, <1>3, <1>6, <1>9, <3>1 DEF Plainly
  <2>3. CASE /\ active.accepting /\ active.failed = "no"
             /\ ~(active.received + m.len > Size[active.id])
    <3>1. /\ active' = [active EXCEPT !.received = @ + m.len,
                                      !.chain = Append(@, m)]
          /\ queue' = queue /\ saved' = saved
          /\ toServer' = toServer
      BY <1>9, <2>3 DEF OnChunk
    <3>2. active.received + m.len <= Size[active.id]
      <4>1. m \in SenderMsg
        BY <1>1 DEF TypeInv, ChannelTypeOK, OnClientMessage
      <4>2. m.len \in Nat
        BY <1>9, <4>1 DEF SenderMsg, Chunks
      <4>3. active.received \in Nat /\ Size[active.id] \in Nat
        BY <1>2 DEF Download
      <4>4. QED
        BY <2>3, <4>2, <4>3
    <3>3. QED
      BY <1>1, <1>3, <1>9, <2>3, <3>1, <3>2, SendNothing DEF Brings
  <2>4. QED
    BY <2>1, <2>2, <2>3
<1>10. CASE m.t = "end" /\ OnEnd(m)
  <2>1. CASE m.id # active.id \/ active.finishing
    <3>1. Ignore
      BY <1>10, <2>1 DEF OnEnd
    <3>2. QED
      BY <1>1, <1>3, <1>5, <1>10, <3>1 DEF Ends, Same
  <2>2. CASE ~(m.id # active.id \/ active.finishing)
    <3>1. PICK d : d = [active EXCEPT !.finishing = TRUE, !.expected = m.sha256]
      OBVIOUS
    <3>2. m \in SenderMsg
      BY <1>1 DEF TypeInv, ChannelTypeOK, OnClientMessage
    <3>3. m.sha256 \in Sha256
      BY <1>10, <3>2 DEF SenderMsg, Chunks
    <3>4. d \in Download /\ Same(active, d) /\ d.received = active.received
      BY <1>2, <3>1, <3>3 DEF Same, Download
    <3>5. /\ IF d.chain = <<>>
             THEN Finish(d, <<>>)
             ELSE /\ active' = [d EXCEPT !.barrier = Len(d.chain)]
                  /\ UNCHANGED <<states, toServer>>
          /\ queue' = queue /\ saved' = saved
      BY <1>10, <2>2, <3>1 DEF OnEnd
    <3>6. Same(active, active') /\ active'.received = active.received
      <4>1. CASE d.chain = <<>>
        BY <3>4, <3>5, <4>1, FinishSteady DEF Steady, Same
      <4>2. CASE d.chain # <<>>
        BY <3>4, <3>5, <4>2 DEF Same, Download
      <4>3. QED
        BY <4>1, <4>2
    <3>7. QED
      BY <1>1, <1>3, <1>10, <3>5, <3>6 DEF Ends
  <2>3. QED
    BY <2>1, <2>2
<1>11. CASE m.t = "error" /\ OnError(m)
  <2>1. CASE m.id # active.id
    <3>1. Ignore
      BY <1>11, <2>1 DEF OnError
    <3>2. QED
      BY <1>1, <1>3, <1>4, <1>5, <1>11, <3>1 DEF Plainly
  <2>2. CASE m.id = active.id
    <3>1. FailActive("error", <<>>)
      BY <1>11, <2>2 DEF OnError
    <3>2. QED
      BY <1>1, <1>3, <1>6, <1>11, <3>1 DEF Plainly
  <2>3. QED
    BY <2>1, <2>2
<1>12. QED
  BY <1>1, <1>7, <1>8, <1>9, <1>10, <1>11 DEF OnClientMessage

LEMMA MessageAccounts ==
    ASSUME TypeInv, active' \in Download, LineInv, HeadOK, active.ready,
           OnClientMessage, UNCHANGED srv, Connected' = Connected,
           Accounts, Connected >= 1
    PROVE  Accounts' /\ active'.barrier = active.barrier /\ Same(active, active')
<1>1. PICK k \in Nat : AccountsAt(k)
  BY DEF Accounts
<1>2. active \in Download /\ active.id \in Files
  BY DEF TypeInv, ClientInv, LineOK, ClientOK, Download
<1>3. toClient # <<>> /\ toClient' = Tail(toClient) /\ toClient \in Seq(SenderMsg)
  BY DEF OnClientMessage, TypeInv, ChannelTypeOK
<1>4. /\ Head(toClient) = toClient[1] /\ 1 \in 1 .. Len(toClient)
      /\ Head(toClient) \in SenderMsg
  BY <1>3, TailElements, HeadTailProperties
<1>5. BoxOK(toClient, active.accepting, active.id, Upto(k))
  BY <1>1 DEF AccountsAt
<1>6. /\ <<>> \in Seq(ReceiverMsg) /\ Count(<<>>, "get") = 0
      /\ GetsOK(<<>>, active.id, active.lastAck, Upto(k))
  <2>1. Len(<<>>) = 0 /\ 1 .. 0 = {}
    OBVIOUS
  <2>2. QED
    BY <2>1, EmptySeq, CountEmpty DEF GetsOK
<1>7. 0 <= Asking(Head(toClient))
  BY DEF Asking
<1>8. active.received <= Upto(k)
  BY <1>1 DEF AccountsAt
<1>9. CASE Plainly
  <2>1. /\ active'.id = active.id /\ active'.lastAck = active.lastAck
        /\ active'.received = active.received
        /\ active'.accepting => active.accepting
        /\ active'.barrier = active.barrier
    BY <1>9 DEF Plainly, Steady, Same
  <2>2. CASE Send(<<>>)
    <3>1. \/ active'.accepting => active.accepting /\ Head(toClient).t # "start"
          \/ Head(toClient).t = "start" /\ Count(<<>>, "get") = 0
      BY <1>6, <2>1
    <3>2. Accounts'
      BY <1>1, <1>2, <1>3, <1>6, <1>7, <1>8, <2>1, <2>2, <3>1, Popped
    <3>3. QED
      BY <1>9, <2>1, <3>2 DEF Plainly, Steady
  <2>3. CASE /\ Head(toClient).t \in {"hello", "start"} /\ ~active'.accepting
             /\ Send(<<Get(active.id, active.received)>>)
    <3>1. PICK g : g = Get(active.id, active.received)
      OBVIOUS
    <3>2. g \in ReceiverMsg /\ g.t = "get" /\ g.id = active.id
              /\ g.offset = active.received
      BY <1>2, <3>1 DEF Get, ReceiverMsg, Download
    <3>3. PICK s : s = <<g>>
      OBVIOUS
    <3>4. s \in Seq(ReceiverMsg) /\ Len(s) = 1 /\ s[1] = g
      BY <3>2, <3>3
    <3>5. Count(s, "get") = 1
      BY <3>2, <3>3, CountOne
    <3>6. GetsOK(s, active.id, active.lastAck, Upto(k))
      BY <1>8, <3>2, <3>4 DEF GetsOK
    <3>7. Count(s, "get") <= Asking(Head(toClient))
      BY <2>3, <3>5 DEF Asking
    <3>8. Send(s)
      BY <2>3, <3>1, <3>3
    <3>9. Accounts'
      BY <1>1, <1>2, <1>3, <1>8, <2>1, <2>3, <3>4, <3>6, <3>7, <3>8, Popped
    <3>10. QED
      BY <1>9, <2>1, <3>9 DEF Plainly, Steady
  <2>4. QED
    BY <1>9, <2>2, <2>3 DEF Plainly
<1>10. CASE LetsIn
  <2>1. /\ active'.id = active.id /\ active'.lastAck = active.lastAck
        /\ active'.received = active.received
        /\ active'.barrier = active.barrier /\ Same(active, active')
    BY <1>2, <1>10 DEF LetsIn, Same, Download
  <2>2. Head(toClient).t = "start" /\ Send(<<>>)
    BY <1>10 DEF LetsIn
  <2>3. Accounts'
    BY <1>1, <1>2, <1>3, <1>6, <1>7, <1>8, <2>1, <2>2, Popped
  <2>4. QED
    BY <2>1, <2>3
<1>11. CASE Brings
  <2>1. PICK m : m = Head(toClient)
    OBVIOUS
  <2>2. m \in SenderMsg /\ m.t = "chunk" /\ m = toClient[1]
    BY <1>4, <1>11, <2>1 DEF Brings
  <2>3. m.at \in Nat /\ m.len \in Nat
    BY <2>2 DEF SenderMsg, Chunks
  <2>4. /\ active'.id = active.id /\ active'.lastAck = active.lastAck
        /\ active'.received = active.received + m.len
        /\ active'.accepting = active.accepting
        /\ active'.barrier = active.barrier /\ Same(active, active')
    BY <1>2, <1>11, <2>1, <2>3 DEF Brings, Same, Download
  <2>5. ~Begun(toClient, 1)
    <3>1. 1 .. 1 - 1 = {}
      OBVIOUS
    <3>2. QED
      BY <3>1 DEF Begun
  <2>6. m.id = active.id /\ m.at + m.len <= Upto(k)
    BY <1>4, <1>5, <1>11, <2>2, <2>5 DEF BoxOK, Brings
  <2>7. m.at = active.received
    <3>1. Coming(active.id, m.at)
      BY <1>3, <2>1, <2>2, <2>6 DEF Coming
    <3>2. QED
      BY <1>11, <3>1 DEF HeadOK, Brings
  <2>8. active'.received <= Upto(k)
    BY <2>4, <2>6, <2>7
  <2>9. Head(toClient).t # "start" /\ Send(<<>>)
    BY <1>11, <2>1, <2>2 DEF Brings
  <2>10. Accounts'
    BY <1>1, <1>2, <1>3, <1>6, <1>7, <2>4, <2>8, <2>9, Popped
  <2>11. QED
    BY <2>4, <2>10
<1>12. CASE Ends
  BY <1>4, <1>5, <1>12 DEF Ends, BoxOK
<1>13. QED
  BY <1>9, <1>10, <1>11, <1>12, MessageKinds

-----------------------------------------------------------------------------
(* The first file a page asks for.                                         *)

Downloads == spent["downloads"]

\* While there is only one, nothing of its end reaches into another download.
FirstFile ==
    /\ queue = <<>>
    /\ late # {} => items /\ Downloads # 0 /\ active.id = NoFile
    /\ Downloads = 0 =>
           active.id = NoFile /\ \A f \in Files : saved[f].offset = 0
    /\ items \/ cOpen => Connected >= 1

\* Once the end of the file is on its way the bound is that of its size.
Within ==
    /\ active.lastAck <= active.written
    /\ active.received <= Size[active.id]
    /\ \/ Fits
       \/ /\ active.barrier = 0
          /\ IF cOpen THEN Accounts
             ELSE ~active.accepting /\ active.received <= Upto(Connected)

\* The channel carries hellos, each of a connection of its own; the one that
\* the items came with is heard.
Unspoken ==
    /\ NothingSaid
    /\ srv.queue = <<>>
    /\ Len(toClient) + (IF items THEN 1 ELSE 0) <= Connected

\* Until its sink is open nothing is asked for the file.
Unopened ==
    /\ ~active.accepting /\ active.barrier = 0
    /\ active.received = active.lastAck
    /\ active.id # NoFile => active.received <= Size[active.id]
    /\ cOpen /\ (active.id # NoFile \/ ~items \/ Downloads = 0) => Unspoken

FirstInv == FirstFile /\ IF active.ready THEN Within ELSE Unopened

WindowInv == Downloads <= 1 => FirstInv

SameEvents == Connected' = Connected /\ Downloads' = Downloads

LEMMA EventsNat == TypeInv => Connected \in Nat /\ Downloads \in Nat
BY DEF TypeInv, Connected, Downloads, Budget

LEMMA FitsKept ==
    ASSUME TypeInv, TypeInv', active.id \in Files, active'.id = active.id,
           active.lastAck <= active'.lastAck, Connected <= Connected',
           Fits
    PROVE  Fits'
<1>1. PICK a \in Nat, b \in Nat, c \in Nat, d \in Nat, w \in Nat, z \in Nat :
          /\ a = active.lastAck /\ b = active'.lastAck
          /\ c = Connected /\ d = Connected' /\ w = Window1
          /\ z = Size[active.id]
  <2>1. active.lastAck \in Nat /\ active'.lastAck \in Nat
    BY DEF TypeInv, ClientInv, LineOK, Download
  <2>2. Connected \in Nat /\ Connected' \in Nat
    BY EventsNat DEF TypeInv, Connected, Budget
  <2>3. QED
    BY <2>1, <2>2, WindowNat
<1>2. c * w <= d * w
  BY <1>1, TimesMore
<1>3. PICK p \in Nat, q \in Nat : p = c * w /\ q = d * w
  BY TimesNat
<1>4. z <= a + p
  BY <1>1, <1>3 DEF Fits, Upto
<1>5. z <= b + q
  BY <1>1, <1>2, <1>3, <1>4
<1>6. Fits' <=> z <= b + q
  BY <1>1, <1>3 DEF Fits, Upto
<1>7. QED
  BY <1>5, <1>6

\* A sink that is open answers, or the user or the sink gives up.
Answers(s) ==
    /\ s \in Seq(ReceiverMsg)
    /\ Send(s)
    /\ \A i \in 1 .. Len(s) :
           /\ s[i].t # "get"
           /\ s[i].t = "ack" => s[i].received <= active'.lastAck

Answered ==
    /\ active.ready /\ active'.id = active.id /\ active'.ready
    /\ active'.received = active.received
    /\ active'.accepting => active.accepting
    /\ active.lastAck <= active'.lastAck /\ active'.lastAck <= active'.written
    /\ queue' = queue /\ items' = items /\ late' = late
    /\ UNCHANGED <<cOpen, toClient, srv>>
    /\ \/ active.barrier # 0
       \/ active'.barrier = 0 /\ \E s : Answers(s)

LEMMA AnsweredAccounts ==
    ASSUME TypeInv, TypeInv', active.id \in Files, Accounts, Connected >= 1,
           Connected' = Connected, Answered, NEW s, Answers(s)
    PROVE  Accounts'
<1>1. PICK k \in Nat : AccountsAt(k)
  BY DEF Accounts
<1>2. PICK a \in Nat, h \in Nat, b \in Nat, d \in Nat, w \in Nat, f \in Files,
           c \in Nat :
          /\ a = active.lastAck /\ h = active'.lastAck
          /\ b = Upto(k) /\ d = h + k * w /\ w = Window1 /\ f = active.id
          /\ c = Connected - 1
  <2>1. active'.lastAck \in Nat
    BY DEF TypeInv, ClientInv, LineOK, Download
  <2>2. Upto(k) \in Nat /\ Window1 \in Nat /\ active.lastAck \in Nat
    BY UptoNat
  <2>3. Connected - 1 \in Nat
    BY EventsNat
  <2>4. active'.lastAck + k * Window1 \in Nat
    BY <2>1, <2>2, TimesNat
  <2>5. QED
    BY <2>1, <2>2, <2>3, <2>4
<1>3. PICK p \in Nat, q \in Nat, top \in Nat, high \in Nat :
          /\ p = k * w /\ q = c * w /\ top = a + q /\ high = h + q
  BY TimesNat
<1>4. /\ b = a + p /\ d = h + p
      /\ Upto(k)' = d /\ Upto(Connected - 1) = top /\ Upto(Connected - 1)' = high
  BY <1>2, <1>3 DEF Upto
<1>5. a <= h
  BY <1>2 DEF Answered
<1>6. b <= d /\ top <= high
  BY <1>3, <1>4, <1>5
<1>7. active'.received <= d
  <2>1. PICK n \in Nat : n = active.received
    BY DEF TypeInv, ClientInv, LineOK, Download
  <2>2. n <= b
    BY <1>1, <1>2, <2>1 DEF AccountsAt
  <2>3. QED
    BY <1>6, <2>1, <2>2 DEF Answered
<1>8. active'.accepting => k >= 1
  BY <1>1 DEF AccountsAt, Answered
<1>9. GetsOK(toServer', f, h, d)
  <2>1. toServer \in Seq(ReceiverMsg)
    BY DEF TypeInv, ChannelTypeOK
  <2>2. GetsOK(toServer, f, a, b)
    BY <1>1, <1>2 DEF AccountsAt
  <2>3. GetsOK(toServer, f, h, d)
    BY <1>5, <1>6, <2>1, <2>2, GetsMore
  <2>4. GetsOK(s, f, h, d) /\ s \in Seq(ReceiverMsg) /\ Send(s)
    BY <1>2 DEF GetsOK, Answers
  <2>5. QED
    BY <2>3, <2>4, SendGets
<1>10. QueueOK(srv'.queue, f, d)
  <2>1. srv.queue \in Seq(Request) /\ srv' = srv
    BY DEF TypeInv, ServerInv, ServerTypeOK, Request, Answered
  <2>2. QueueOK(srv.queue, f, b)
    BY <1>1, <1>2 DEF AccountsAt
  <2>3. QED
    BY <1>6, <2>1, <2>2, QueueMore
<1>11. RunOK(srv', Count(toClient', "start") # 0, active'.accepting, f, d, high)
  <2>1. srv' = srv /\ toClient' = toClient /\ srv.acked \in Nat
    BY DEF TypeInv, ServerInv, ServerTypeOK, Answered
  <2>2. RunOK(srv, Count(toClient, "start") # 0, active.accepting, f, b, top)
    BY <1>1, <1>2, <1>4 DEF AccountsAt
  <2>3. active'.accepting => active.accepting
    BY DEF Answered
  <2>4. RunOK(srv, Count(toClient, "start") # 0, active'.accepting, f, d, high)
    BY <1>6, <2>1, <2>2, <2>3, RunMore
  <2>5. QED
    BY <2>1, <2>4
<1>12. BoxOK(toClient', active'.accepting, f, d)
  <2>1. toClient' = toClient /\ toClient \in Seq(SenderMsg)
    BY DEF TypeInv, ChannelTypeOK, Answered
  <2>2. BoxOK(toClient, active.accepting, f, b)
    BY <1>1, <1>2 DEF AccountsAt
  <2>3. active'.accepting => active.accepting
    BY DEF Answered
  <2>4. BoxOK(toClient, active'.accepting, f, d)
    BY <1>6, <2>1, <2>2, <2>3, BoxMore
  <2>5. QED
    BY <2>1, <2>4
<1>13. Count(toServer', "get") = Count(toServer, "get")
  <2>1. s \in Seq(ReceiverMsg) /\ Send(s) /\ \A i \in 1 .. Len(s) : s[i].t # "get"
    BY DEF Answers
  <2>2. DOMAIN s = 1 .. Len(s)
    BY <2>1, LenProperties
  <2>3. Count(s, "get") = 0
    BY <2>1, <2>2, CountNone
  <2>4. QED
    BY <2>1, <2>3, SendCount, AsksNat
<1>14. Asks' + k = Connected'
  BY <1>1, <1>13 DEF Asks, AccountsAt, Answered
<1>15. AccountsAt(k)'
  BY <1>2, <1>4, <1>7, <1>8, <1>9, <1>10, <1>11, <1>12, <1>14
  DEF AccountsAt, Answered
<1>16. QED
  BY <1>15 DEF Accounts

LEMMA AnsweredWindow ==
    ASSUME TypeInv, TypeInv', LineInv, Downloads <= 1, FirstInv,
           SameEvents, Answered
    PROVE  FirstInv'
<1>1. /\ active.ready /\ active'.ready /\ active'.id = active.id
      /\ active.id \in Files /\ items /\ items'
  BY DEF Answered, LineInv, BeforeItems, TypeInv, ClientInv, LineOK, ClientOK,
         Download
<1>2. FirstFile /\ Within
  BY <1>1 DEF FirstInv
<1>3. Connected >= 1 /\ Downloads # 0
  BY <1>1, <1>2 DEF FirstFile
<1>4. FirstFile'
  BY <1>1, <1>2, <1>3 DEF FirstFile, Answered, SameEvents
<1>5. /\ active'.lastAck <= active'.written
      /\ active'.received <= Size[active'.id]
      /\ active.lastAck <= active'.lastAck
  BY <1>1, <1>2 DEF Answered, Within
<1>6. CASE Fits
  <2>1. Connected <= Connected'
    BY EventsNat DEF SameEvents
  <2>2. Fits'
    BY <1>1, <1>5, <1>6, <2>1, FitsKept
  <2>3. QED
    BY <1>1, <1>4, <1>5, <2>2 DEF FirstInv, Within
<1>7. CASE ~Fits
  <2>1. /\ active.barrier = 0
        /\ IF cOpen THEN Accounts
           ELSE ~active.accepting /\ active.received <= Upto(Connected)
    BY <1>2, <1>7 DEF Within
  <2>2. PICK s : Answers(s) /\ active'.barrier = 0
    BY <2>1 DEF Answered
  <2>3. cOpen' = cOpen
    BY DEF Answered
  <2>4. CASE cOpen
    <3>1. Accounts'
      BY <1>1, <1>3, <2>1, <2>2, <2>4, AnsweredAccounts DEF SameEvents
    <3>2. QED
      BY <1>1, <1>4, <1>5, <2>2, <2>3, <2>4, <3>1 DEF FirstInv, Within
  <2>5. CASE ~cOpen
    <3>1. ~active'.accepting /\ active'.received = active.received
      BY <2>1, <2>5 DEF Answered
    <3>2. PICK a \in Nat, h \in Nat, n \in Nat, p \in Nat :
              /\ a = active.lastAck /\ h = active'.lastAck
              /\ n = active.received /\ p = Connected * Window1
      BY EventsNat, WindowNat, TimesNat
      DEF TypeInv, ClientInv, LineOK, Download
    <3>3. n <= a + p /\ a <= h
      BY <1>5, <2>1, <2>5, <3>2 DEF Upto
    <3>4. Upto(Connected)' = h + p
      BY <3>2 DEF Upto, SameEvents
    <3>5. active'.received <= Upto(Connected)'
      BY <3>1, <3>2, <3>3, <3>4
    <3>6. QED
      BY <1>1, <1>4, <1>5, <2>2, <2>3, <2>5, <3>1, <3>5 DEF FirstInv, Within
  <2>6. QED
    BY <2>4, <2>5
<1>8. QED
  BY <1>6, <1>7

-----------------------------------------------------------------------------
(* What the sink and the user do to a download that is under way. *)

\* Words that neither ask nor acknowledge.
Words(s) ==
    /\ s \in Seq(ReceiverMsg)
    /\ \A i \in 1 .. Len(s) : s[i].t \notin {"get", "ack"}

LEMMA OneWord ==
    ASSUME NEW m \in ReceiverMsg, m.t \notin {"get", "ack"}
    PROVE  Words(<<>>) /\ Words(<<m>>)
<1>1. PICK s : s = <<m>>
  OBVIOUS
<1>2. s \in Seq(ReceiverMsg) /\ Len(s) = 1 /\ s[1] = m
  BY <1>1
<1>3. <<>> \in Seq(ReceiverMsg) /\ Len(<<>>) = 0
  OBVIOUS
<1>4. 1 .. 1 = {1} /\ 1 .. 0 = {}
  OBVIOUS
<1>5. Words(s)
  BY <1>2, <1>4 DEF Words
<1>6. Words(<<>>)
  BY <1>3, <1>4 DEF Words
<1>7. QED
  BY <1>1, <1>5, <1>6

LEMMA MoreWords ==
    ASSUME NEW a, Words(a), NEW b, Words(b)
    PROVE  Words(a \o b)
<1>1. /\ a \in Seq(ReceiverMsg) /\ b \in Seq(ReceiverMsg)
      /\ Len(a) \in Nat /\ Len(b) \in Nat
  BY LenProperties DEF Words
<1>2. /\ a \o b \in Seq(ReceiverMsg) /\ Len(a \o b) = Len(a) + Len(b)
      /\ \A i \in 1 .. Len(a) + Len(b) :
             (a \o b)[i] = IF i <= Len(a) THEN a[i] ELSE b[i - Len(a)]
  BY <1>1, ConcatProperties
<1>3. PICK s : s = a \o b
  OBVIOUS
<1>4. ASSUME NEW i \in 1 .. Len(a) + Len(b)
      PROVE  s[i].t \notin {"get", "ack"}
  <2>1. CASE i <= Len(a)
    <3>1. i \in 1 .. Len(a) /\ s[i] = a[i]
      BY <1>1, <1>2, <1>3, <2>1
    <3>2. QED
      BY <3>1 DEF Words
  <2>2. CASE ~(i <= Len(a))
    <3>1. i - Len(a) \in 1 .. Len(b) /\ s[i] = b[i - Len(a)]
      BY <1>1, <1>2, <1>3, <2>2
    <3>2. QED
      BY <3>1 DEF Words
  <2>3. QED
    BY <2>1, <2>2
<1>5. Words(s)
  BY <1>2, <1>3, <1>4 DEF Words
<1>6. QED
  BY <1>3, <1>5

LEMMA AnswersSame ==
    ASSUME active.ready, active.lastAck <= active.written,
           Same(active, active'), active'.received = active.received,
           active'.accepting => active.accepting,
           active'.barrier = active.barrier \/ active'.barrier = 0,
           queue' = queue, items' = items, late' = late,
           UNCHANGED <<cOpen, toClient, srv>>,
           active.lastAck \in Nat,
           NEW s, Words(s), Send(s)
    PROVE  Answered
<1>1. active.lastAck <= active'.lastAck /\ active'.lastAck <= active'.written
  BY DEF Same
<1>2. Answers(s)
  BY DEF Words, Answers
<1>3. QED
  BY <1>1, <1>2 DEF Answered, Same

LEMMA GiveUpAnswers ==
    ASSUME TypeInv, active.ready, active.id \in Files,
           active.lastAck <= active.written, srv' = srv,
           CancelActive \/ AbortStalled
    PROVE  Answered
<1>1. active \in Download /\ active.lastAck \in Nat
  BY DEF TypeInv, ClientInv, LineOK, Download
<1>2. PICK status \in {"error", "cancelled"} :
          FailActive(status, <<CancelMsg(active.id)>>)
  BY DEF CancelActive, AbortStalled
<1>3. /\ Send(<<CancelMsg(active.id)>>)
      /\ active' = Failing(active, status) /\ queue' = queue
  BY <1>2 DEF FailActive
<1>4. /\ items' = items /\ late' = late
      /\ cOpen' = cOpen /\ toClient' = toClient
  BY DEF CancelActive, AbortStalled
<1>5. Steady(active, active')
  BY <1>1, <1>3, FailingSteady
<1>6. Words(<<CancelMsg(active.id)>>)
  BY OneWord DEF CancelMsg, ReceiverMsg
<1>7. QED
  BY <1>1, <1>3, <1>4, <1>5, <1>6, AnswersSame DEF Steady

LEMMA SinkFailsAnswers ==
    ASSUME TypeInv, active.ready, active.id \in Files,
           active.lastAck <= active.written, srv' = srv,
           WriteFails \/ CloseFails
    PROVE  Answered
<1>1. active \in Download /\ active.lastAck \in Nat
  BY DEF TypeInv, ClientInv, LineOK, Download
<1>2. /\ items' = items /\ late' = late /\ queue' = queue
      /\ cOpen' = cOpen /\ toClient' = toClient
  BY DEF WriteFails, CloseFails
<1>3. PICK d : d = Failing(active, "error")
  OBVIOUS
<1>4. d \in Download /\ Steady(active, d)
  BY <1>1, <1>3, FailingSteady
<1>5. CASE WriteFails
  <2>1. active' = [d EXCEPT !.chain = <<>>, !.barrier = 0]
    BY <1>3, <1>5 DEF WriteFails
  <2>2. /\ Same(active, active') /\ active'.received = active.received
        /\ active'.accepting => active.accepting
        /\ active'.barrier = 0
    BY <1>4, <2>1 DEF Steady, Same, Download
  <2>3. Send(<<CancelMsg(active.id)>>)
    BY <1>5 DEF WriteFails
  <2>4. Words(<<CancelMsg(active.id)>>)
    BY OneWord DEF CancelMsg, ReceiverMsg
  <2>5. QED
    BY <1>1, <1>2, <2>2, <2>3, <2>4, AnswersSame
<1>6. CASE CloseFails
  <2>1. active' = [d EXCEPT !.closing = FALSE, !.chain = <<>>]
    BY <1>3, <1>6 DEF CloseFails
  <2>2. /\ Same(active, active') /\ active'.received = active.received
        /\ active'.accepting => active.accepting
        /\ active'.barrier = active.barrier
    BY <1>4, <2>1 DEF Steady, Same, Download
  <2>3. PICK m, n : m = Done(active.id, FALSE) /\ n = CancelMsg(active.id)
    OBVIOUS
  <2>4. /\ m \in ReceiverMsg /\ m.t \notin {"get", "ack"}
        /\ n \in ReceiverMsg /\ n.t \notin {"get", "ack"}
    BY <2>3 DEF Done, CancelMsg, ReceiverMsg
  <2>5. Send(<<m>> \o <<>>) \/ Send(<<m>> \o <<n>>)
    BY <1>6, <2>3 DEF CloseFails
  <2>6. <<m>> \o <<>> = <<m>>
    OBVIOUS
  <2>7. PICK s : Words(s) /\ Send(s)
    BY <2>4, <2>5, <2>6, OneWord, MoreWords
  <2>8. QED
    BY <1>1, <1>2, <2>2, <2>7, AnswersSame
<1>7. QED
  BY <1>5, <1>6

LEMMA AckAnswers ==
    ASSUME NEW f \in Files, NEW n \in Nat, NEW s,
           s = <<>> \/ (s = <<Ack(f, n)>> /\ n <= active'.lastAck), Send(s)
    PROVE  Answers(s)
<1>1. CASE s = <<>>
  <2>1. s \in Seq(ReceiverMsg) /\ Len(s) = 0 /\ 1 .. 0 = {}
    BY <1>1
  <2>2. QED
    BY <2>1 DEF Answers
<1>2. CASE s = <<Ack(f, n)>> /\ n <= active'.lastAck
  <2>1. PICK m : m = Ack(f, n)
    OBVIOUS
  <2>2. m \in ReceiverMsg /\ m.t = "ack" /\ m.received = n
    BY <2>1 DEF Ack, ReceiverMsg
  <2>3. s = <<m>>
    BY <1>2, <2>1
  <2>4. s \in Seq(ReceiverMsg) /\ Len(s) = 1 /\ s[1] = m
    BY <2>2, <2>3
  <2>5. 1 .. 1 = {1}
    OBVIOUS
  <2>6. QED
    BY <1>2, <2>2, <2>4, <2>5 DEF Answers
<1>3. QED
  BY <1>1, <1>2

LEMMA WriteDoneAnswers ==
    ASSUME TypeInv, active.ready, active.id \in Files,
           active.lastAck <= active.written, srv' = srv, WriteDone
    PROVE  Answered
<1> DEFINE c == Head(active.chain)
           f == active.id
           n == active.written + c.len
           due == n - active.lastAck >= ACK_EVERY \/ n = Size[f]
           bytes == Bytes(c.id, c.at, c.at + c.len)
           d == [active EXCEPT
                    !.written = n,
                    !.lastAck = IF due THEN n ELSE @,
                    !.chain = IF active.failed = "no" THEN Tail(@) ELSE <<>>,
                    !.hashed = IF active.hasher THEN @ \o bytes ELSE @,
                    !.barrier = IF @ > 0 THEN @ - 1 ELSE 0]
           acks == IF due THEN <<Ack(f, n)>> ELSE <<>>
<1>1. c.len \in Nat
  BY InFlightType DEF WriteDone, TypeInv, ClientInv, LineOK
<1>2. active \in Download
  BY DEF TypeInv, ClientInv, LineOK
<1>3. n \in Nat /\ active.barrier \in Nat /\ active.written <= n
      /\ active.lastAck \in Nat /\ active.written \in Nat
  BY <1>1, <1>2 DEF Download
<1>4. /\ d.id = f /\ d.ready = active.ready
      /\ d.received = active.received /\ d.written = n
      /\ d.lastAck = (IF due THEN n ELSE active.lastAck)
      /\ d.barrier = (IF active.barrier > 0 THEN active.barrier - 1 ELSE 0)
      /\ d.accepting = active.accepting
  BY <1>2 DEF Download
<1>5. d \in Download
  <2>1. /\ bytes \in FileBytes /\ Tail(active.chain) \in Seq(Chunks)
        /\ <<>> \in Seq(Chunks)
    BY InFlightType, EmptySeq DEF WriteDone, TypeInv, ClientInv, LineOK
  <2>2. (IF active.hasher THEN active.hashed \o bytes ELSE active.hashed)
            \in FileBytes
    BY <1>2, <2>1, ConcatProperties DEF Download, FileBytes
  <2>3. (IF active.failed = "no" THEN Tail(active.chain) ELSE <<>>) \in Seq(Chunks)
    BY <2>1
  <2>4. (IF due THEN n ELSE active.lastAck) \in Nat
    BY <1>3
  <2>5. (IF active.barrier > 0 THEN active.barrier - 1 ELSE 0) \in Nat
    BY <1>3
  <2>6. QED
    BY <1>2, <1>3, <2>2, <2>3, <2>4, <2>5 DEF Download
<1>6. /\ IF active.barrier = 1 THEN Finish(d, acks)
         ELSE active' = d /\ Send(acks)
      /\ queue' = queue /\ items' = items /\ late' = late
      /\ UNCHANGED <<cOpen, toClient>>
  BY DEF WriteDone
<1>7. acks = <<>> \/ (acks = <<Ack(f, n)>> /\ n = d.lastAck)
  BY <1>4
<1> HIDE DEF d, acks, n, due
<1>8. active.lastAck <= d.lastAck /\ d.lastAck <= d.written
  BY <1>3, <1>4
<1>9. CASE active.barrier = 1
  <2>1. Steady(d, active')
    BY <1>5, <1>6, <1>9, FinishSteady
  <2>2. QED
    BY <1>4, <1>6, <1>8, <1>9, <2>1 DEF Answered, Steady, Same
<1>10. CASE active.barrier # 1
  <2>1. active' = d /\ Send(acks)
    BY <1>6, <1>10
  <2>2. n <= active'.lastAck \/ acks = <<>>
    BY <1>3, <1>7, <2>1
  <2>3. Answers(acks)
    BY <1>3, <1>7, <2>1, <2>2, AckAnswers
  <2>4. active.barrier # 0 \/ active'.barrier = 0
    BY <1>3, <1>4, <2>1
  <2>5. QED
    BY <1>4, <1>6, <1>8, <2>1, <2>3, <2>4 DEF Answered
<1>11. QED
  BY <1>9, <1>10

\* A sink that was open when the step began stays within its windows.
LEMMA SinkAnswersWindow ==
    ASSUME TypeInv, TypeInv', LineInv, Downloads <= 1, FirstInv,
           SameEvents, srv' = srv, active.ready,
           CancelActive \/ AbortStalled \/ WriteFails \/ CloseFails \/ WriteDone
    PROVE  FirstInv'
<1>1. active.id \in Files
  BY DEF TypeInv, ClientInv, LineOK, ClientOK, Download
<1>2. active.lastAck <= active.written
  BY DEF FirstInv, Within
<1>3. Answered
  BY <1>1, <1>2, GiveUpAnswers, SinkFailsAnswers, WriteDoneAnswers
<1>4. QED
  BY <1>3, AnsweredWindow

-----------------------------------------------------------------------------
(* Messages. *)

LEMMA MessageKeeps ==
    ASSUME TypeInv, LineInv, active.ready, OnClientMessage,
           active.received <= Size[active.id]
    PROVE  Same(active, active') /\ active'.received <= Size[active.id]
<1>1. active \in Download /\ active.id \in Files
  BY DEF TypeInv, ClientInv, LineOK, ClientOK, Download
<1>2. CASE Plainly \/ Ends
  BY <1>2 DEF Plainly, Steady, Ends
<1>3. CASE LetsIn
  BY <1>1, <1>3 DEF LetsIn, Same, Download
<1>4. CASE Brings
  BY <1>1, <1>4 DEF Brings, Same, Download
<1>5. QED
  BY <1>2, <1>3, <1>4, MessageKinds

LEMMA OpenMessageWindow ==
    ASSUME TypeInv, TypeInv', LineInv, HeadOK, Downloads <= 1, FirstInv,
           SameEvents, srv' = srv, active.ready, OnClientMessage
    PROVE  FirstInv'
<1>1. /\ active.id \in Files /\ items /\ active' \in Download
  BY DEF LineInv, BeforeItems, TypeInv, ClientInv, LineOK, ClientOK, Download
<1>2. FirstFile /\ Within
  BY DEF FirstInv
<1>3. Connected >= 1 /\ Downloads # 0
  BY <1>1, <1>2 DEF FirstFile
<1>4. items' /\ queue' = queue /\ late' = late
  BY MessageKinds DEF OnClientMessage
<1>5. FirstFile'
  BY <1>1, <1>2, <1>3, <1>4 DEF FirstFile, SameEvents
<1>6. Same(active, active') /\ active'.received <= Size[active.id]
  BY <1>2, MessageKeeps DEF Within
<1>7. /\ active'.ready /\ active'.id = active.id
      /\ active'.lastAck = active.lastAck
      /\ active'.lastAck <= active'.written
      /\ active'.received <= Size[active'.id]
  BY <1>2, <1>6 DEF Same, Within
<1>8. cOpen /\ cOpen'
  BY DEF OnClientMessage
<1>9. CASE Fits
  <2>1. Connected <= Connected' /\ active.lastAck <= active'.lastAck
    BY <1>7, EventsNat, UptoNat DEF SameEvents
  <2>2. Fits'
    BY <1>1, <1>7, <1>9, <2>1, FitsKept
  <2>3. QED
    BY <1>5, <1>7, <2>2 DEF FirstInv, Within
<1>10. CASE ~Fits
  <2>1. active.barrier = 0 /\ Accounts
    BY <1>2, <1>8, <1>10 DEF Within
  <2>2. Accounts' /\ active'.barrier = active.barrier
    BY <1>1, <1>3, <2>1, MessageAccounts DEF SameEvents
  <2>3. QED
    BY <1>5, <1>7, <1>8, <2>1, <2>2 DEF FirstInv, Within
<1>11. QED
  BY <1>9, <1>10

\* A sink that is not open: what is heard is a hello, or nothing comes of it.
Still ==
    /\ queue' = queue /\ saved' = saved
    /\ active' = active /\ toServer' = toServer

Resumes ==
    /\ ~items /\ Downloads # 0
    /\ queue' = <<>> /\ toServer' = toServer
    /\ active'.id \in Files
    /\ ~active'.ready /\ ~active'.accepting /\ active'.barrier = 0
    /\ active'.received = active'.lastAck
    /\ active'.received <= Size[active'.id]

LEMMA HelloResumes ==
    ASSUME TypeInv, LineInv, FirstFile, ~active.ready, OnHello
    PROVE  Still \/ Resumes
<1>1. CASE Ignore
  BY <1>1 DEF Ignore, Still
<1>2. CASE ~Ignore
  <2>1. ~items /\ resumeSaved /\ toServer' = toServer
    BY <1>2 DEF OnHello
  <2>2. PICK f \in Files : saved[f].offset > 0 /\ RequestDownload(f, saved[f])
    BY <2>1 DEF resumeSaved
  <2>3. active.id = NoFile /\ queue = <<>>
    BY <2>1 DEF LineInv, BeforeItems
  <2>4. saved[f] \in ResumeFrom /\ saved[f].offset \in Nat /\ Size[f] \in Nat
    BY DEF TypeInv, ClientInv, RecordsOK, ResumeFrom
  <2>5. Downloads # 0
    BY <2>2, <2>4 DEF FirstFile
  <2>6. PICK e : e = [id |-> f, from |-> saved[f]]
    OBVIOUS
  <2>7. e \in Queued /\ e.id = f /\ e.from = saved[f]
    BY <2>4, <2>6 DEF Queued
  <2>8. Append(queue, e) = <<e>>
    BY <2>3
  <2>9. TakeNext(<<e>>, [states EXCEPT ![f] = "queued"])
    BY <2>2, <2>3, <2>6, <2>8 DEF RequestDownload
  <2>10. PICK from :
            from = [saved[f] EXCEPT !.offset = Least(@, Size[f])]
    OBVIOUS
  <2>11. active' = NewDownload(f, from) /\ queue' = <<>>
    BY <2>7, <2>9, <2>10, TakeOne
  <2>12. from.offset <= Size[f]
    <3>1. from.offset = Least(saved[f].offset, Size[f])
      BY <2>4, <2>10 DEF ResumeFrom
    <3>2. QED
      BY <2>4, <3>1 DEF Least
  <2>13. /\ active'.id = f /\ ~active'.ready /\ ~active'.accepting
         /\ active'.barrier = 0
         /\ active'.received = from.offset /\ active'.lastAck = from.offset
    BY <2>11 DEF NewDownload
  <2>14. QED
    BY <2>1, <2>5, <2>11, <2>12, <2>13 DEF Resumes
<1>3. QED
  BY <1>1, <1>2

LEMMA HeardHello ==
    ASSUME TypeInv, Connected' = Connected, srv' = srv, OnClientMessage,
           toServer' = toServer, Unspoken
    PROVE  Head(toClient).t = "hello" /\ items' /\ Unspoken'
<1>1. /\ toClient \in Seq(SenderMsg) /\ toClient # <<>>
      /\ toClient' = Tail(toClient) /\ items' = (items \/ Head(toClient).t = "hello")
  BY DEF TypeInv, ChannelTypeOK, OnClientMessage
<1>2. PICK k \in Nat : k = Len(toClient)
  BY <1>1, LenProperties
<1>3. /\ k >= 1 /\ Head(toClient) = toClient[1] /\ Len(toClient') = k - 1
      /\ \A i \in 1 .. k - 1 : toClient'[i] = toClient[i + 1]
  BY <1>1, <1>2, TailElements
<1>4. \A i \in 1 .. k : toClient[i].t = "hello"
  BY <1>2 DEF Unspoken, NothingSaid
<1>5. Head(toClient).t = "hello" /\ items'
  <2>1. 1 \in 1 .. k
    BY <1>3
  <2>2. Head(toClient).t = "hello"
    BY <1>3, <1>4, <2>1
  <2>3. QED
    BY <1>1, <2>2
<1>6. \A i \in 1 .. Len(toClient') : toClient'[i].t = "hello"
  BY <1>3, <1>4
<1>7. NothingSaid'
  BY <1>6 DEF Unspoken, NothingSaid
<1>8. k + (IF items THEN 1 ELSE 0) <= Connected
  BY <1>2 DEF Unspoken
<1>9. Connected \in Nat
  BY EventsNat
<1>10. Len(toClient') + 1 <= Connected
  BY <1>3, <1>8, <1>9
<1>11. QED
  BY <1>5, <1>7, <1>10 DEF Unspoken

LEMMA UnopenedMessageWindow ==
    ASSUME TypeInv, TypeInv', LineInv, Downloads <= 1, FirstInv,
           SameEvents, srv' = srv, ~active.ready, OnClientMessage
    PROVE  FirstInv'
<1>1. FirstFile /\ Unopened
  BY DEF FirstInv
<1>2. /\ cOpen /\ cOpen' = cOpen /\ toClient # <<>>
      /\ toClient \in Seq(SenderMsg) /\ Head(toClient) \in SenderMsg
      /\ items' = (items \/ Head(toClient).t = "hello")
      /\ items \in BOOLEAN /\ late' = late
  BY HeadTailProperties DEF OnClientMessage, TypeInv, ChannelTypeOK, ClientInv
<1>3. Connected >= 1
  BY <1>1, <1>2 DEF FirstFile
<1>4. CASE active.id # NoFile \/ ~items \/ Downloads = 0
  <2>1. Unspoken
    BY <1>1, <1>2, <1>4 DEF Unopened
  <2>2. Head(toClient).t = "hello"
    <3>1. 1 \in 1 .. Len(toClient) /\ Head(toClient) = toClient[1]
      BY <1>2, TailElements
    <3>2. QED
      BY <2>1, <3>1 DEF Unspoken, NothingSaid
  <2>3. OnHello
    BY <2>2 DEF OnClientMessage
  <2>4. Still \/ Resumes
    BY <1>1, <2>3, HelloResumes
  <2>5. toServer' = toServer
    BY <2>4 DEF Still, Resumes
  <2>6. items' /\ Unspoken'
    BY <2>1, <2>5, HeardHello DEF SameEvents
  <2>7. CASE Still
    <3>1. FirstFile'
      BY <1>1, <1>2, <1>3, <2>7 DEF FirstFile, Still, SameEvents
    <3>2. Unopened' /\ ~active'.ready
      BY <1>1, <2>6, <2>7 DEF Unopened, Still
    <3>3. QED
      BY <3>1, <3>2 DEF FirstInv
  <2>8. CASE Resumes
    <3>1. FirstFile'
      BY <1>1, <1>2, <1>3, <2>8 DEF FirstFile, Resumes, SameEvents
    <3>2. Unopened' /\ ~active'.ready
      BY <2>6, <2>8 DEF Unopened, Resumes
    <3>3. QED
      BY <3>1, <3>2 DEF FirstInv
  <2>9. QED
    BY <2>4, <2>7, <2>8
<1>5. CASE ~(active.id # NoFile \/ ~items \/ Downloads = 0)
  <2>1. active.id = NoFile /\ items /\ Downloads # 0
    BY <1>5
  <2>2. PICK m \in SenderMsg : m = Head(toClient)
    BY <1>2
  <2>3. Ignore
    <3>1. m.t \in {"start", "end", "error"} => m.id # active.id
      BY <2>1, <2>2 DEF SenderMsg, Chunks
    <3>2. CASE m.t = "hello" /\ OnHello
      BY <2>1, <3>2 DEF OnHello, TypeInv, ClientInv, LineOK, ClientOK
    <3>3. CASE m.t = "start" /\ OnStart(m)
      BY <3>1, <3>3 DEF OnStart
    <3>4. CASE m.t = "chunk" /\ OnChunk(m)
      BY <1>1, <3>4 DEF OnChunk, Unopened
    <3>5. CASE m.t = "end" /\ OnEnd(m)
      BY <3>1, <3>5 DEF OnEnd
    <3>6. CASE m.t = "error" /\ OnError(m)
      BY <3>1, <3>6 DEF OnError
    <3>7. QED
      BY <2>2, <3>2, <3>3, <3>4, <3>5, <3>6 DEF OnClientMessage
  <2>4. Still /\ items'
    BY <1>2, <2>1, <2>3 DEF Ignore, Still
  <2>5. FirstFile'
    BY <1>1, <1>2, <1>3, <2>4 DEF FirstFile, Still, SameEvents
  <2>6. Unopened' /\ ~active'.ready
    BY <1>1, <2>1, <2>4 DEF Unopened, Still, SameEvents
  <2>7. QED
    BY <2>5, <2>6 DEF FirstInv
<1>6. QED
  BY <1>4, <1>5

-----------------------------------------------------------------------------
(* The ends of a download, and steps that are no part of one. *)

\* Nothing is left of the download, or nothing was under way.
Over ==
    /\ active'.id = NoFile /\ ~active'.ready /\ ~active'.accepting
    /\ active'.barrier = 0 /\ active'.received = active'.lastAck
    /\ queue' = <<>>

LEMMA NothingIsOver ==
    ASSUME active' = NoDownload, queue' = <<>>
    PROVE  Over
BY DEF Over, NoDownload, NewDownload, NoResume

LEMMA OverWindow ==
    ASSUME FirstInv, SameEvents, items' = items, cOpen' = cOpen, Over,
           items /\ Downloads # 0
    PROVE  FirstInv'
<1>1. FirstFile'
  BY DEF FirstInv, FirstFile, SameEvents, Over
<1>2. Unopened'
  BY DEF Unopened, SameEvents, Over
<1>3. QED
  BY <1>1, <1>2 DEF FirstInv, Over

LEMMA EndedWindow ==
    ASSUME TypeInv, LineInv, WorkOK, Downloads <= 1, FirstInv, SameEvents,
           active.id # NoFile,
           \/ SinkOpenFails \/ CloseDone \/ AbortDone
           \/ ~active.ready /\ (CancelActive \/ AbortStalled)
    PROVE  FirstInv'
<1>1. items /\ queue = <<>> /\ Downloads # 0
  BY DEF LineInv, BeforeItems, FirstInv, FirstFile, TypeInv, ClientInv
<1>2. PICK status : EndActive(status)
  BY DEF SinkOpenFails, CloseDone, AbortDone, CancelActive, AbortStalled,
         FailActive
<1>3. active' = NoDownload /\ queue' = <<>>
  BY <1>1, <1>2 DEF EndActive, TakeNext
<1>4. items' = items /\ cOpen' = cOpen
  BY DEF SinkOpenFails, CloseDone, AbortDone, CancelActive, AbortStalled,
         channelVars
<1>5. QED
  BY <1>1, <1>3, <1>4, NothingIsOver, OverWindow

\* Only what is on disk changes.
LEMMA AbortRemovesWindow ==
    ASSUME TypeInv, FirstInv, SameEvents, srv' = srv, AbortRemoves
    PROVE  FirstInv'
<1>1. active \in Download
  BY DEF TypeInv, ClientInv, LineOK
<1>2. /\ active' = [active EXCEPT !.removed = TRUE]
      /\ UNCHANGED <<items, queue, late, saved, channelVars>>
  BY DEF AbortRemoves
<1>3. UNCHANGED <<sOpen, cOpen, toClient, toServer>>
  BY <1>2 DEF channelVars
<1>4. /\ active'.id = active.id /\ active'.ready = active.ready
      /\ active'.received = active.received /\ active'.lastAck = active.lastAck
      /\ active'.written = active.written /\ active'.barrier = active.barrier
      /\ active'.accepting = active.accepting
  BY <1>1, <1>2 DEF Download
<1>5. FirstFile'
  BY <1>2, <1>3, <1>4 DEF FirstInv, FirstFile, SameEvents
<1>6. (\A k : Upto(k)' = Upto(k)) /\ Asks' = Asks
  BY <1>3, <1>4 DEF Upto, Asks
<1>7. (Accounts => Accounts') /\ (Fits => Fits')
  BY <1>3, <1>4, <1>6 DEF Accounts, AccountsAt, Fits, SameEvents
<1>8. Within => Within'
  BY <1>3, <1>4, <1>6, <1>7 DEF Within, SameEvents
<1>9. Unopened => Unopened'
  BY <1>2, <1>3, <1>4 DEF Unopened, Unspoken, NothingSaid, SameEvents
<1>10. QED
  BY <1>4, <1>5, <1>8, <1>9 DEF FirstInv

\* Its write was refused when the first download was over.
LEMMA LateWriteFailsWindow ==
    ASSUME TypeInv, FirstInv, SameEvents, NEW l \in late, LateWriteFails(l)
    PROVE  FirstInv'
<1>1. UNCHANGED <<items, queue, active, saved, cOpen>>
  BY DEF LateWriteFails, storageVars
<1>2. items /\ Downloads # 0 /\ active.id = NoFile
  BY DEF FirstInv, FirstFile
<1>3. ~active.ready
  BY <1>2 DEF TypeInv, ClientInv, LineOK, ClientOK
<1>4. FirstFile'
  BY <1>1, <1>2 DEF FirstInv, FirstFile, SameEvents
<1>5. Unopened'
  BY <1>1, <1>2, <1>3 DEF FirstInv, Unopened, SameEvents
<1>6. QED
  BY <1>1, <1>3, <1>4, <1>5 DEF FirstInv

\* Steps that leave the downloads alone.
LEMMA IdleWindow ==
    ASSUME TypeInv, FirstInv, SameEvents, srv' = srv,
           \/ OrphanAborted \/ Evict \/ \E l \in late : LateAbortDone(l)
    PROVE  FirstInv'
<1>1. /\ active' = active /\ queue' = queue /\ items' = items
      /\ late' \subseteq late
      /\ UNCHANGED <<sOpen, cOpen, toClient, toServer>>
  BY DEF OrphanAborted, OrphanOpened, Evict, LateAbortDone, channelVars
<1>2. \A f \in Files : saved[f].offset = 0 => saved'[f].offset = 0
  <2>1. CASE saved' = saved
    BY <2>1
  <2>2. CASE \E l \in late : LateAbortDone(l)
    <3>1. PICK l \in late : LateAbortDone(l)
      BY <2>2
    <3>2. saved' = [saved EXCEPT ![l.id] = NoResume]
      BY <3>1 DEF LateAbortDone, DropCheckpoint
    <3>3. NoResume.offset = 0
      BY DEF NoResume
    <3>4. QED
      BY <3>2, <3>3 DEF TypeInv, ClientInv, RecordsOK
  <2>3. QED
    BY <2>1, <2>2 DEF OrphanAborted, OrphanOpened, Evict
<1>3. FirstFile'
  BY <1>1, <1>2 DEF FirstInv, FirstFile, SameEvents
<1>4. \A k : Upto(k)' = Upto(k)
  BY <1>1 DEF Upto
<1>5. Asks' = Asks
  BY <1>1 DEF Asks
<1>6. Accounts => Accounts'
  BY <1>1, <1>4, <1>5 DEF Accounts, AccountsAt, SameEvents
<1>7. Fits => Fits'
  BY <1>1, <1>4 DEF Fits, SameEvents
<1>8. Within => Within'
  BY <1>1, <1>4, <1>6, <1>7 DEF Within, SameEvents
<1>9. Unopened => Unopened'
  BY <1>1 DEF Unopened, Unspoken, NothingSaid, SameEvents
<1>10. QED
  BY <1>1, <1>3, <1>8, <1>9 DEF FirstInv

LEMMA CancelQueuedWindow ==
    ASSUME FirstInv, NEW f \in Files, CancelQueued(f)
    PROVE  FALSE
<1>1. queue = <<>>
  BY DEF FirstInv, FirstFile
<1>2. DOMAIN queue = {}
  BY <1>1, IdsEmpty
<1>3. QED
  BY <1>2 DEF CancelQueued

LEMMA ReloadWindow ==
    ASSUME TypeInv, FirstInv, SameEvents, Reload
    PROVE  FirstInv'
<1>1. /\ active' = NoDownload /\ queue' = <<>> /\ items' = FALSE
      /\ cOpen' = FALSE /\ late' = {}
      /\ saved' = [f \in Files |-> [saved[f] EXCEPT !.dir = "own"]]
  BY DEF Reload
<1>2. Over
  BY <1>1, NothingIsOver
<1>3. active'.id = NoFile
  BY <1>2 DEF Over
<1>4. \A f \in Files : saved'[f].offset = saved[f].offset
  BY <1>1 DEF TypeInv, ClientInv, RecordsOK, ResumeFrom
<1>5. FirstFile'
  BY <1>1, <1>3, <1>4 DEF FirstInv, FirstFile, SameEvents
<1>6. Unopened'
  BY <1>1, <1>2 DEF Unopened, Over
<1>7. QED
  BY <1>2, <1>5, <1>6 DEF FirstInv, Over

\* The channel is lost: what was received is what the next one resumes from.
LEMMA ClientCloseWindow ==
    ASSUME TypeInv, TypeInv', Downloads <= 1, FirstInv, SameEvents, ClientClose
    PROVE  FirstInv'
<1>1. active \in Download
  BY DEF TypeInv, ClientInv, LineOK
<1>2. /\ active' = [active EXCEPT !.accepting = FALSE]
      /\ cOpen /\ cOpen' = FALSE /\ UNCHANGED <<items, queue, late, saved>>
  BY DEF ClientClose, storageVars
<1>3. /\ active'.id = active.id /\ active'.ready = active.ready
      /\ active'.received = active.received /\ active'.lastAck = active.lastAck
      /\ active'.written = active.written /\ active'.barrier = active.barrier
      /\ ~active'.accepting
  BY <1>1, <1>2 DEF Download
<1>4. FirstFile'
  BY <1>2, <1>3 DEF FirstInv, FirstFile, SameEvents
<1>5. CASE ~active.ready
  <2>1. Unopened'
    BY <1>2, <1>3, <1>5 DEF FirstInv, Unopened
  <2>2. QED
    BY <1>3, <1>4, <1>5, <2>1 DEF FirstInv
<1>6. CASE active.ready
  <2>1. Within
    BY <1>6 DEF FirstInv
  <2>2. \A k : Upto(k)' = Upto(k)
    BY <1>3 DEF Upto
  <2>3. CASE Fits
    <3>1. Fits'
      BY <1>3, <2>2, <2>3 DEF Fits, SameEvents
    <3>2. Within'
      BY <1>3, <2>1, <3>1 DEF Within
    <3>3. QED
      BY <1>3, <1>4, <1>6, <3>2 DEF FirstInv
  <2>4. CASE ~Fits
    <3>1. active.barrier = 0 /\ Accounts
      BY <1>2, <2>1, <2>4 DEF Within
    <3>2. PICK k \in Nat : AccountsAt(k)
      BY <3>1 DEF Accounts
    <3>3. k <= Connected
      <4>1. Asks \in Nat /\ Connected \in Nat
        BY AsksNat DEF Asks
      <4>2. QED
        BY <3>2, <4>1 DEF AccountsAt
    <3>4. Upto(k) <= Upto(Connected)
      BY <3>3, EventsNat, UptoMore
    <3>5. active.received <= Upto(Connected)
      <4>1. /\ active.received \in Nat /\ Upto(k) \in Nat
            /\ Upto(Connected) \in Nat
        BY <1>1, UptoNat, EventsNat DEF Download
      <4>2. active.received <= Upto(k)
        BY <3>2 DEF AccountsAt
      <4>3. QED
        BY <3>4, <4>1, <4>2
    <3>6. active'.received <= Upto(Connected)'
      BY <1>3, <2>2, <3>5 DEF SameEvents
    <3>7. Within'
      BY <1>2, <1>3, <2>1, <3>1, <3>6 DEF Within
    <3>8. QED
      BY <1>3, <1>4, <1>6, <3>7 DEF FirstInv
  <2>5. QED
    BY <2>3, <2>4
<1>7. QED
  BY <1>5, <1>6

-----------------------------------------------------------------------------
(* The sink opens; the user asks. *)

LEMMA CountLen ==
    ASSUME NEW S, NEW q \in Seq(S), NEW t
    PROVE  Count(q, t) <= Len(q)
<1>1. Len(q) \in Nat /\ DOMAIN q = 1 .. Len(q)
  BY LenProperties
<1>2. IsFiniteSet(1 .. Len(q)) /\ Cardinality(1 .. Len(q)) = Len(q)
  BY <1>1, FS_Interval
<1>3. At(q, t) \in SUBSET (1 .. Len(q))
  BY <1>1 DEF At
<1>4. QED
  BY <1>2, <1>3, FS_Subset DEF Count

\* The channel says nothing of a file: hellos at most.
LEMMA OnlyHellos ==
    ASSUME NEW q \in Seq(SenderMsg), \A i \in 1 .. Len(q) : q[i].t = "hello",
           NEW acc, NEW f, NEW b
    PROVE  Count(q, "start") = 0 /\ BoxOK(q, acc, f, b)
<1>1. DOMAIN q = 1 .. Len(q)
  BY LenProperties
<1>2. Count(q, "start") = 0
  BY <1>1, CountNone
<1>3. BoxOK(q, acc, f, b)
  BY DEF BoxOK
<1>4. QED
  BY <1>2, <1>3

\* The first request of a channel.
LEMMA FirstGet ==
    ASSUME toServer = <<>>, NEW f \in Files, NEW n \in Nat,
           Send(<<Get(f, n)>>)
    PROVE  /\ toServer' \in Seq(ReceiverMsg) /\ Len(toServer') <= 1
           /\ \A i \in 1 .. Len(toServer') :
                  /\ toServer'[i].t = "get" /\ toServer'[i].id = f
                  /\ toServer'[i].offset = n
<1>1. PICK m : m = Get(f, n)
  OBVIOUS
<1>2. m \in ReceiverMsg /\ m.t = "get" /\ m.id = f /\ m.offset = n
  BY <1>1 DEF Get, ReceiverMsg
<1>3. toServer' = <<>> \o <<m>> \/ toServer' = <<>>
  BY <1>1 DEF Send, Deliver
<1>4. <<>> \o <<m>> = <<m>>
  OBVIOUS
<1>5. CASE toServer' = <<m>>
  <2>1. PICK s : s = <<m>>
    OBVIOUS
  <2>2. s \in Seq(ReceiverMsg) /\ Len(s) = 1 /\ s[1] = m /\ 1 .. 1 = {1}
    BY <1>2, <2>1
  <2>3. toServer' = s
    BY <1>5, <2>1
  <2>4. /\ s \in Seq(ReceiverMsg) /\ Len(s) <= 1
        /\ \A i \in 1 .. Len(s) :
               s[i].t = "get" /\ s[i].id = f /\ s[i].offset = n
    BY <1>2, <2>2
  <2>5. QED
    BY <2>3, <2>4
<1>6. CASE toServer' = <<>>
  <2>1. <<>> \in Seq(ReceiverMsg) /\ Len(<<>>) = 0 /\ 1 .. 0 = {}
    OBVIOUS
  <2>2. toServer' \in Seq(ReceiverMsg) /\ Len(toServer') = 0
    BY <1>6, <2>1
  <2>3. 1 .. Len(toServer') = {}
    BY <2>1, <2>2
  <2>4. QED
    BY <2>2, <2>3
<1>7. QED
  BY <1>3, <1>4, <1>5, <1>6

LEMMA OpenedAccounts ==
    ASSUME TypeInv, TypeInv', Unspoken, items, Connected' = Connected,
           NEW f \in Files, NEW n \in Nat, Send(<<Get(f, n)>>),
           active'.id = f, active'.received = n, active'.lastAck = n,
           ~active'.accepting,
           toClient' = toClient, srv' = srv
    PROVE  Accounts'
<1>1. /\ toServer = <<>> /\ srv.phase = "idle" /\ srv.queue = <<>>
      /\ \A i \in 1 .. Len(toClient) : toClient[i].t = "hello"
      /\ Len(toClient) + 1 <= Connected
  BY DEF Unspoken, NothingSaid
<1>2. toClient \in Seq(SenderMsg) /\ Len(toClient) \in Nat
  BY LenProperties DEF TypeInv, ChannelTypeOK
<1>3. /\ toServer' \in Seq(ReceiverMsg) /\ Len(toServer') <= 1
      /\ \A i \in 1 .. Len(toServer') :
             /\ toServer'[i].t = "get" /\ toServer'[i].id = f
             /\ toServer'[i].offset = n
  BY <1>1, FirstGet
<1>4. PICK g \in Nat, h \in Nat, l \in Nat, e \in Nat :
          /\ g = Count(toServer', "get") /\ h = Count(toClient, "hello")
          /\ l = Len(toClient) /\ e = Connected
  <2>1. Count(toServer', "get") \in Nat /\ Count(toClient, "hello") \in Nat
    BY <1>2, <1>3, CountNat
  <2>2. QED
    BY <1>2, <2>1, EventsNat
<1>5. g <= 1 /\ h <= l
  <2>1. Count(toServer', "get") <= Len(toServer') /\ Len(toServer') \in Nat
    BY <1>3, CountLen, LenProperties
  <2>2. h <= l
    BY <1>2, <1>4, CountLen
  <2>3. QED
    BY <1>3, <1>4, <2>1, <2>2
<1>6. PICK k \in Nat : g + h + k = e
  <2>1. l + 1 <= e
    BY <1>1, <1>4
  <2>2. e - g - h \in Nat /\ g + h + (e - g - h) = e
    BY <1>4, <1>5, <2>1
  <2>3. QED
    BY <2>2
<1>7. PICK p \in Nat : p = k * Window1
  BY WindowNat, TimesNat
<1>8. Upto(k)' = n + p
  BY <1>7 DEF Upto
<1>9. n <= n + p
  BY <1>7
<1>10. Asks' + k = Connected'
  <2>1. Count(toClient, "start") = 0
    BY <1>1, <1>2, OnlyHellos
  <2>2. Len(srv'.queue) = 0
    BY <1>1
  <2>3. Asks' = g + 0 + 0 + h
    BY <1>4, <2>1, <2>2 DEF Asks
  <2>4. QED
    BY <1>4, <1>6, <2>3
<1>11. GetsOK(toServer', active'.id, active'.lastAck, Upto(k)')
  BY <1>3, <1>8, <1>9 DEF GetsOK
<1>12. QueueOK(srv'.queue, active'.id, Upto(k)')
  BY <1>1 DEF QueueOK
<1>13. RunOK(srv', Count(toClient', "start") # 0, active'.accepting, active'.id,
             Upto(k)', Upto(Connected - 1)')
  BY <1>1 DEF RunOK
<1>14. BoxOK(toClient', active'.accepting, active'.id, Upto(k)')
  BY <1>1, <1>2, OnlyHellos
<1>15. active'.received <= Upto(k)'
  BY <1>8, <1>9
<1>16. AccountsAt(k)'
  BY <1>10, <1>11, <1>12, <1>13, <1>14, <1>15 DEF AccountsAt
<1>17. QED
  BY <1>16 DEF Accounts

LEMMA OpenedWindow ==
    ASSUME TypeInv, TypeInv', LineInv, Downloads <= 1, FirstInv, SameEvents,
           srv' = srv, Opened
    PROVE  FirstInv'
<1>1. PICK wasm \in Wasm : SinkOpened(wasm)
  BY DEF Opened
<1>2. /\ active \in Download /\ active.id \in Files /\ ~active.ready /\ items
      /\ items' = items /\ cOpen' = cOpen
      /\ queue' = queue /\ toClient' = toClient /\ late' = late
  BY <1>1 DEF SinkOpened, TypeInv, ClientInv, LineOK, Download, LineInv,
              BeforeItems
<1>3. FirstFile /\ Unopened /\ Downloads # 0 /\ Connected >= 1
  BY <1>2 DEF FirstInv, FirstFile
<1>4. FirstFile'
  BY <1>2, <1>3 DEF FirstFile, SameEvents
<1>5. PICK n : n = IF Len(disk[active.id]) >= active.received
                   THEN active.received ELSE 0
  OBVIOUS
<1>6. n \in Nat /\ n <= Size[active.id]
  <2>1. active.received \in Nat /\ Size[active.id] \in Nat
    BY <1>2 DEF Download
  <2>2. active.received <= Size[active.id]
    BY <1>2, <1>3 DEF Unopened
  <2>3. QED
    BY <1>5, <2>1, <2>2
<1>7. /\ active'.id = active.id /\ active'.ready /\ active'.received = n
      /\ active'.written = n /\ active'.lastAck = n
      /\ active'.accepting = active.accepting /\ active'.barrier = active.barrier
  BY <1>1, <1>2, <1>5 DEF SinkOpened, Download
<1>8. Send(<<Get(active.id, n)>>)
  BY <1>1, <1>5 DEF SinkOpened
<1>9. ~active'.accepting /\ active'.barrier = 0
  BY <1>3, <1>7 DEF Unopened
<1>10. CASE cOpen
  <2>1. Unspoken
    BY <1>2, <1>3, <1>10 DEF Unopened
  <2>2. Accounts'
    BY <1>2, <1>6, <1>7, <1>8, <1>9, <2>1, OpenedAccounts DEF SameEvents
  <2>3. Within'
    BY <1>2, <1>6, <1>7, <1>9, <1>10, <2>2 DEF Within
  <2>4. QED
    BY <1>4, <1>7, <2>3 DEF FirstInv
<1>11. CASE ~cOpen
  <2>1. PICK p \in Nat : p = Connected * Window1
    BY EventsNat, WindowNat, TimesNat
  <2>2. Upto(Connected)' = n + p
    BY <1>7, <2>1 DEF Upto, SameEvents
  <2>3. active'.received <= Upto(Connected)'
    BY <1>6, <1>7, <2>1, <2>2
  <2>4. Within'
    BY <1>2, <1>6, <1>7, <1>9, <1>11, <2>3 DEF Within
  <2>5. QED
    BY <1>4, <1>7, <2>4 DEF FirstInv
<1>12. QED
  BY <1>10, <1>11

\* The first request of the page.
LEMMA UserDownloadWindow ==
    ASSUME TypeInv, TypeInv', FirstInv, Connected' = Connected,
           Downloads = 0, Downloads' = 1, srv' = srv,
           NEW f \in Files, UserDownload(f)
    PROVE  FirstInv'
<1>1. active.id = NoFile /\ queue = <<>> /\ ~active.ready
  BY DEF FirstInv, FirstFile, TypeInv, ClientInv, LineOK, ClientOK
<1>2. /\ items /\ RequestDownload(f, NoResume)
      /\ items' = items /\ late' = late
      /\ UNCHANGED <<sOpen, cOpen, toClient, toServer>>
  BY DEF UserDownload, channelVars
<1>3. Connected >= 1
  BY <1>2 DEF FirstInv, FirstFile
<1>4. PICK e : e = [id |-> f, from |-> NoResume]
  OBVIOUS
<1>5. NoResume \in ResumeFrom /\ NoResume.offset = 0
  BY EmptySeq DEF NoResume, ResumeFrom, FileBytes, Folder
<1>6. e \in Queued /\ e.id = f /\ e.from = NoResume
  BY <1>4, <1>5 DEF Queued
<1>7. Append(queue, e) = <<e>>
  BY <1>1
<1>8. TakeNext(<<e>>, [states EXCEPT ![f] = "queued"])
  BY <1>1, <1>2, <1>4, <1>7 DEF RequestDownload
<1>9. PICK from : from = [NoResume EXCEPT !.offset = Least(@, Size[f])]
  OBVIOUS
<1>10. active' = NewDownload(f, from) /\ queue' = <<>>
  BY <1>6, <1>8, <1>9, TakeOne
<1>11. from.offset <= Size[f]
  BY <1>5, <1>9 DEF Least, NoResume
<1>12. /\ active'.id = f /\ ~active'.ready /\ ~active'.accepting
       /\ active'.barrier = 0
       /\ active'.received = from.offset /\ active'.lastAck = from.offset
  BY <1>10 DEF NewDownload
<1>13. FirstFile'
  BY <1>2, <1>3, <1>10 DEF FirstInv, FirstFile
<1>14. cOpen' => Unspoken'
  <2>1. cOpen => Unspoken
    BY <1>1 DEF FirstInv, Unopened
  <2>2. QED
    BY <1>2, <2>1 DEF Unspoken, NothingSaid
<1>15. Unopened'
  BY <1>11, <1>12, <1>14 DEF Unopened
<1>16. QED
  BY <1>12, <1>13, <1>15 DEF FirstInv

-----------------------------------------------------------------------------
(* The channel and the sender. *)

\* A fresh channel lets one more window in.
LEMMA ConnectWindow ==
    ASSUME TypeInv, TypeInv', FirstInv, Connected' = Connected + 1,
           Downloads' = Downloads, Connect
    PROVE  FirstInv'
<1>1. /\ UNCHANGED <<items, queue, active, late, saved>>
      /\ ~cOpen /\ cOpen' = TRUE /\ toServer' = <<>> /\ srv' = IdleServer
      /\ toClient' = <<Hello>>
  BY DEF Connect, attach, clientVars, storageVars
<1>2. srv'.phase = "idle" /\ srv'.queue = <<>>
  BY <1>1 DEF IdleServer
<1>3. PICK c \in Nat, d \in Nat : c = Connected /\ d = Connected' /\ d = c + 1
  BY EventsNat
<1>4. FirstFile'
  BY <1>1, <1>3 DEF FirstInv, FirstFile
<1>5. PICK m : m = Hello
  OBVIOUS
<1>6. m.t = "hello" /\ m \in SenderMsg
  BY <1>5 DEF Hello, SenderMsg
<1>7. PICK q : q = <<m>>
  OBVIOUS
<1>8. /\ q \in Seq(SenderMsg) /\ Len(q) = 1 /\ q[1] = m /\ 1 .. 1 = {1}
      /\ toClient' = q
  BY <1>1, <1>5, <1>6, <1>7
<1>9. \A i \in 1 .. Len(q) : q[i].t = "hello"
  BY <1>6, <1>8
<1>10. NothingSaid'
  BY <1>1, <1>2, <1>8, <1>9 DEF NothingSaid
<1>11. CASE ~active.ready
  <2>1. items => c >= 1
    BY <1>3 DEF FirstInv, FirstFile
  <2>2. Len(toClient') + (IF items' THEN 1 ELSE 0) <= Connected'
    BY <1>1, <1>3, <1>8, <2>1
  <2>3. Unspoken'
    BY <1>2, <1>10, <2>2 DEF Unspoken
  <2>4. Unopened'
    BY <1>1, <1>11, <2>3 DEF FirstInv, Unopened
  <2>5. QED
    BY <1>1, <1>4, <1>11, <2>4 DEF FirstInv
<1>12. CASE active.ready
  <2>1. Within /\ active.id \in Files
    BY <1>12 DEF FirstInv, TypeInv, ClientInv, LineOK, ClientOK, Download
  <2>2. \A k : Upto(k)' = Upto(k)
    BY <1>1 DEF Upto
  <2>3. CASE Fits
    <3>1. /\ Connected <= Connected' /\ active'.id = active.id
          /\ active.lastAck <= active'.lastAck
      <4>1. active.lastAck \in Nat
        BY DEF TypeInv, ClientInv, LineOK, Download
      <4>2. QED
        BY <1>1, <1>3, <4>1
    <3>2. Fits'
      BY <2>1, <2>3, <3>1, FitsKept
    <3>3. QED
      BY <1>1, <1>4, <1>12, <2>1, <3>2 DEF FirstInv, Within
  <2>4. CASE ~Fits
    <3>1. /\ active.barrier = 0 /\ ~active.accepting
          /\ active.received <= Upto(c)
      BY <1>1, <1>3, <2>1, <2>4 DEF Within
    <3>2. /\ Count(toServer', "get") = 0 /\ Count(toClient', "start") = 0
          /\ Count(toClient', "hello") = 1
      BY <1>1, <1>6, <1>7, <1>8, CountEmpty, CountOne
    <3>3. Len(srv'.queue) = 0
      BY <1>2
    <3>4. Asks' = 0 + 0 + 0 + 1
      BY <3>2, <3>3 DEF Asks
    <3>5. Asks' + c = Connected'
      BY <1>3, <3>4
    <3>6. /\ GetsOK(toServer', active'.id, active'.lastAck, Upto(c)')
          /\ QueueOK(srv'.queue, active'.id, Upto(c)')
      <4>1. Len(toServer') = 0 /\ 1 .. 0 = {}
        BY <1>1
      <4>2. QED
        BY <3>3, <4>1 DEF GetsOK, QueueOK
    <3>7. RunOK(srv', Count(toClient', "start") # 0, active'.accepting,
                active'.id, Upto(c)', Upto(Connected - 1)')
      BY <1>2 DEF RunOK
    <3>8. BoxOK(toClient', active'.accepting, active'.id, Upto(c)')
      BY <1>8, <1>9, OnlyHellos
    <3>9. active'.received <= Upto(c)' /\ ~active'.accepting
      BY <1>1, <2>2, <3>1
    <3>10. AccountsAt(c)'
      BY <3>5, <3>6, <3>7, <3>8, <3>9 DEF AccountsAt
    <3>11. Accounts'
      BY <3>10 DEF Accounts
    <3>12. QED
      BY <1>1, <1>4, <1>12, <2>1, <3>1, <3>11 DEF FirstInv, Within
  <2>5. QED
    BY <2>3, <2>4
<1>13. QED
  BY <1>11, <1>12

LEMMA ServerWindow ==
    ASSUME TypeInv, TypeInv', Downloads <= 1, FirstInv, SameEvents,
           UNCHANGED clientVars,
           ServerStep \/ HashReady(FALSE) \/ ReadFails \/ ServerClose
    PROVE  FirstInv'
<1>1. UNCHANGED <<items, queue, active, late, saved, cOpen>>
  BY DEF clientVars, storageVars, ServerStep, OnServerMessage, BlockRead,
         SendChunk, HashReady, ReadFails, ServerClose
<1>2. FirstFile'
  BY <1>1 DEF FirstInv, FirstFile, SameEvents
<1>3. CASE ~active.ready
  <2>1. Unspoken => Unspoken'
    <3>1. ASSUME Unspoken PROVE Unspoken'
      <4>1. NothingSaid
        BY <3>1 DEF Unspoken
      <4>2. ServerClose
        BY <4>1
        DEF NothingSaid, ServerStep, OnServerMessage, BlockRead, SendChunk,
            HashReady, ReadFails
      <4>3. toServer' = <<>> /\ srv' = IdleServer /\ toClient' = toClient
        BY <4>2 DEF ServerClose
      <4>4. srv'.phase = "idle" /\ srv'.queue = <<>>
        BY <4>3 DEF IdleServer
      <4>5. QED
        BY <1>1, <3>1, <4>3, <4>4 DEF Unspoken, NothingSaid, SameEvents
    <3>2. QED
      BY <3>1
  <2>2. Unopened'
    BY <1>1, <1>3, <2>1 DEF FirstInv, Unopened, SameEvents
  <2>3. QED
    BY <1>1, <1>2, <1>3, <2>2 DEF FirstInv
<1>4. CASE active.ready
  <2>1. /\ Within /\ active.id \in Files
    BY <1>4 DEF FirstInv, TypeInv, ClientInv, LineOK, ClientOK, Download
  <2>2. \A k : Upto(k)' = Upto(k)
    BY <1>1 DEF Upto
  <2>3. Fits => Fits'
    BY <1>1, <2>2 DEF Fits, SameEvents
  <2>4. CASE Fits
    BY <1>1, <1>2, <1>4, <2>1, <2>3, <2>4 DEF FirstInv, Within
  <2>5. CASE ~Fits /\ ~cOpen
    <3>1. /\ active'.barrier = 0 /\ ~active'.accepting
          /\ active'.received <= Upto(Connected)'
      BY <1>1, <2>1, <2>2, <2>5 DEF Within, SameEvents
    <3>2. QED
      BY <1>1, <1>2, <1>4, <2>1, <2>5, <3>1 DEF FirstInv, Within
  <2>6. CASE ~Fits /\ cOpen
    <3>1. active.barrier = 0 /\ Accounts
      BY <2>1, <2>6 DEF Within
    <3>2. Connected >= 1
      BY <2>6 DEF FirstInv, FirstFile
    <3>3. Accounts' \/ Fits
      BY <2>1, <2>6, <3>1, <3>2, ServerAccounts DEF SameEvents
    <3>4. QED
      BY <1>1, <1>2, <1>4, <2>1, <2>3, <2>6, <3>1, <3>3 DEF FirstInv, Within
  <2>7. QED
    BY <2>4, <2>5, <2>6
<1>5. QED
  BY <1>3, <1>4

\* What was received is within the windows of the connections so far.
LEMMA WindowBounds ==
    ASSUME TypeInv, LineInv, WindowInv
    PROVE  Backpressure
<1>1. SUFFICES ASSUME Downloads <= 1
               PROVE  active.received - active.lastAck <= Connected * Window1
  BY DEF Backpressure, Downloads, Connected, Window1
<1>2. FirstInv
  BY <1>1 DEF WindowInv
<1>3. PICK n \in Nat, a \in Nat, p \in Nat :
          /\ n = active.received /\ a = active.lastAck
          /\ p = Connected * Window1
  <2>1. active.received \in Nat /\ active.lastAck \in Nat
    BY DEF TypeInv, ClientInv, LineOK, Download
  <2>2. Connected * Window1 \in Nat
    BY EventsNat, WindowNat, TimesNat
  <2>3. QED
    BY <2>1, <2>2
<1>4. CASE ~active.ready
  <2>1. n = a
    BY <1>2, <1>3, <1>4 DEF FirstInv, Unopened
  <2>2. QED
    BY <1>3, <2>1
<1>5. CASE active.ready
  <2>1. Within
    BY <1>2, <1>5 DEF FirstInv
  <2>2. Upto(Connected) = a + p
    BY <1>3 DEF Upto
  <2>3. n <= a + p
    <3>1. CASE Fits
      <4>1. active.id \in Files
        BY <1>5 DEF TypeInv, ClientInv, LineOK, ClientOK, Download
      <4>2. PICK z \in Nat : z = Size[active.id]
        BY <4>1
      <4>3. n <= z /\ z <= a + p
        BY <1>3, <2>1, <2>2, <3>1, <4>2 DEF Within, Fits
      <4>4. QED
        BY <4>3
    <3>2. CASE ~Fits /\ ~cOpen
      BY <1>3, <2>1, <2>2, <3>2 DEF Within
    <3>3. CASE ~Fits /\ cOpen
      <4>1. PICK k \in Nat : AccountsAt(k)
        BY <2>1, <3>3 DEF Within, Accounts
      <4>2. k <= Connected
        <5>1. Asks \in Nat /\ Connected \in Nat
          BY AsksNat DEF Asks
        <5>2. QED
          BY <4>1, <5>1 DEF AccountsAt
      <4>3. PICK u \in Nat : u = Upto(k) /\ u <= a + p
        BY <2>2, <4>2, UptoNat, UptoMore, EventsNat
      <4>4. n <= u
        BY <1>3, <4>1, <4>3 DEF AccountsAt
      <4>5. QED
        BY <4>3, <4>4
    <3>4. QED
      BY <3>1, <3>2, <3>3
  <2>4. QED
    BY <1>3, <2>3
<1>6. QED
  BY <1>4, <1>5

-----------------------------------------------------------------------------
(* Every step. *)

LEMMA InitWindow == Init => WindowInv
<1> SUFFICES ASSUME Init PROVE WindowInv
  OBVIOUS
<1>1. /\ active = NoDownload /\ queue = <<>> /\ ~items /\ ~cOpen
      /\ saved = [f \in Files |-> NoResume] /\ late = {}
  BY DEF Init
<1>2. /\ active.id = NoFile /\ ~active.ready /\ ~active.accepting
      /\ active.barrier = 0 /\ active.received = active.lastAck
  BY <1>1 DEF NoDownload, NewDownload, NoResume
<1>3. \A f \in Files : saved[f].offset = 0
  BY <1>1 DEF NoResume
<1>4. FirstFile
  BY <1>1, <1>2, <1>3 DEF FirstFile
<1>5. Unopened
  BY <1>1, <1>2 DEF Unopened
<1>6. QED
  BY <1>2, <1>4, <1>5 DEF WindowInv, FirstInv

\* Only the user's request of another file and another connection count.
LEMMA SpendEvents ==
    ASSUME TypeInv, NEW b \in Budget, Spend(b)
    PROVE  /\ Connected' = IF b = "connections" THEN Connected + 1 ELSE Connected
           /\ Downloads' = IF b = "downloads" THEN Downloads + 1 ELSE Downloads
<1>1. spent \in [Budget -> Nat] /\ spent' = [spent EXCEPT ![b] = @ + 1]
  BY DEF TypeInv, Spend
<1>2. "connections" \in Budget /\ "downloads" \in Budget
  BY DEF Budget
<1>3. QED
  BY <1>1, <1>2 DEF Connected, Downloads

LEMMA ActiveStepWindow ==
    ASSUME TypeInv, TypeInv', LineInv, WorkOK, Downloads <= 1, FirstInv,
           SameEvents, srv' = srv,
           \/ CancelActive \/ AbortStalled \/ WriteFails \/ CloseFails \/ WriteDone
           \/ SinkOpenFails \/ CloseDone \/ AbortDone
    PROVE  FirstInv'
<1>1. active.id # NoFile
  BY DEF CancelActive, AbortStalled, WriteFails, CloseFails, WriteDone,
         SinkOpenFails, CloseDone, AbortDone, TypeInv, ClientInv, LineOK, ClientOK
<1>2. CASE SinkOpenFails \/ CloseDone \/ AbortDone
  BY <1>1, <1>2, EndedWindow
<1>3. CASE WriteFails \/ CloseFails \/ WriteDone
  <2>1. active.ready
    BY <1>3 DEF WriteFails, CloseFails, WriteDone, WorkOK
  <2>2. QED
    BY <1>3, <2>1, SinkAnswersWindow
<1>4. CASE CancelActive \/ AbortStalled
  <2>1. CASE active.ready
    BY <1>4, <2>1, SinkAnswersWindow
  <2>2. CASE ~active.ready
    BY <1>1, <1>4, <2>2, EndedWindow
  <2>3. QED
    BY <2>1, <2>2
<1>5. QED
  BY <1>2, <1>3, <1>4

LEMMA ClientWindow ==
    ASSUME TypeInv, TypeInv', LineInv, WorkOK, HeadOK, Downloads <= 1, FirstInv,
           SameEvents, srv' = srv,
           \/ ClientStep \/ SinkOpenFails \/ WriteFails \/ CloseFails
           \/ CancelActive \/ AbortStalled \/ Reload \/ Evict \/ ClientClose
           \/ \E f \in Files : CancelQueued(f)
    PROVE  FirstInv'
<1>1. CASE OnClientMessage
  <2>1. CASE active.ready
    BY <1>1, <2>1, OpenMessageWindow
  <2>2. CASE ~active.ready
    BY <1>1, <2>2, UnopenedMessageWindow
  <2>3. QED
    BY <2>1, <2>2
<1>2. CASE Opened
  BY <1>2, OpenedWindow
<1>3. CASE OrphanAborted \/ Evict \/ \E l \in late : LateAbortDone(l)
  BY <1>3, IdleWindow
<1>4. CASE \/ CancelActive \/ AbortStalled \/ WriteFails \/ CloseFails
           \/ WriteDone \/ SinkOpenFails \/ CloseDone \/ AbortDone
  BY <1>4, ActiveStepWindow
<1>5. CASE Reload
  BY <1>5, ReloadWindow
<1>6. CASE ClientClose
  BY <1>6, ClientCloseWindow
<1>7. CASE \E f \in Files : CancelQueued(f)
  BY <1>7, CancelQueuedWindow
<1>8. CASE AbortRemoves \/ \E l \in late : LateWriteFails(l)
  BY <1>8, AbortRemovesWindow, LateWriteFailsWindow
<1>9. QED
  BY <1>1, <1>2, <1>3, <1>4, <1>5, <1>6, <1>7, <1>8
  DEF ClientStep, Opened, OrphanAborted

LEMMA NextWindow ==
    TypeInv /\ TypeInv' /\ LineInv /\ WorkOK /\ HeadOK /\ WindowInv /\ [Next]_vars
        => WindowInv'
<1> SUFFICES ASSUME TypeInv, TypeInv', LineInv, WorkOK, HeadOK, WindowInv,
                    [Next]_vars, Downloads' <= 1
             PROVE  FirstInv'
  BY DEF WindowInv
<1>1. Connected \in Nat /\ Downloads \in Nat /\ Connected' \in Nat
      /\ Downloads' \in Nat
  BY EventsNat DEF TypeInv, Connected, Downloads, Budget
<1>2. SameEvents => Downloads <= 1 /\ FirstInv
  BY DEF SameEvents, WindowInv
<1>3. spent' = spent => SameEvents
  BY DEF SameEvents, Connected, Downloads
<1>4. \A b \in Budget \ {"connections", "downloads"} : Spend(b) => SameEvents
  BY SpendEvents DEF SameEvents
<1>5. CASE Connect
  <2>1. Connected' = Connected + 1 /\ Downloads' = Downloads
    BY <1>5, SpendEvents DEF Connect, attach, Budget
  <2>2. FirstInv
    BY <2>1 DEF WindowInv
  <2>3. QED
    BY <1>5, <2>1, <2>2, ConnectWindow
<1>6. CASE ServerStep /\ UNCHANGED <<clientVars, spent>>
  BY <1>2, <1>3, <1>6, ServerWindow
<1>7. CASE ClientStep /\ UNCHANGED <<serverVars, spent>>
  BY <1>2, <1>3, <1>7, ClientWindow DEF serverVars
<1>8. CASE Spend("faults") /\ Fault
  <2>1. SameEvents
    BY <1>4, <1>8 DEF Budget
  <2>2. CASE (HashReady(FALSE) \/ ReadFails) /\ UNCHANGED clientVars
    BY <1>2, <2>1, <2>2, ServerWindow
  <2>3. CASE (SinkOpenFails \/ WriteFails \/ CloseFails) /\ UNCHANGED serverVars
    BY <1>2, <2>1, <2>3, ClientWindow DEF serverVars
  <2>4. QED
    BY <1>8, <2>2, <2>3 DEF Fault
<1>9. CASE User /\ UNCHANGED serverVars
  <2>1. srv' = srv
    BY <1>9 DEF serverVars
  <2>2. CASE Spend("downloads") /\ \E f \in Files : UserDownload(f)
    <3>1. Connected' = Connected /\ Downloads' = Downloads + 1
      BY <2>2, SpendEvents DEF Budget
    <3>2. Downloads = 0 /\ Downloads' = 1
      BY <1>1, <3>1
    <3>3. FirstInv
      BY <3>2 DEF WindowInv
    <3>4. QED
      BY <2>1, <2>2, <3>1, <3>2, <3>3, UserDownloadWindow
  <2>3. CASE Spend("cancels") /\ (CancelActive \/ \E f \in Files : CancelQueued(f))
    <3>1. SameEvents
      BY <1>4, <2>3 DEF Budget
    <3>2. QED
      BY <1>2, <2>1, <2>3, <3>1, ClientWindow
  <2>4. CASE Spend("stalls") /\ AbortStalled
    <3>1. SameEvents
      BY <1>4, <2>4 DEF Budget
    <3>2. QED
      BY <1>2, <2>1, <2>4, <3>1, ClientWindow
  <2>5. CASE Spend("reloads") /\ Reload
    <3>1. SameEvents
      BY <1>4, <2>5 DEF Budget
    <3>2. QED
      BY <1>2, <2>1, <2>5, <3>1, ClientWindow
  <2>6. CASE Spend("evictions") /\ Evict
    <3>1. SameEvents
      BY <1>4, <2>6 DEF Budget
    <3>2. QED
      BY <1>2, <2>1, <2>6, <3>1, ClientWindow
  <2>7. QED
    BY <1>9, <2>2, <2>3, <2>4, <2>5, <2>6 DEF User
<1>10. CASE Break /\ UNCHANGED spent
  <2>1. CASE ServerClose /\ UNCHANGED clientVars
    BY <1>2, <1>3, <1>10, <2>1, ServerWindow
  <2>2. CASE ClientClose /\ UNCHANGED serverVars
    BY <1>2, <1>3, <1>10, <2>2, ClientWindow DEF serverVars
  <2>3. QED
    BY <1>10, <2>1, <2>2 DEF Break
<1>11. CASE UNCHANGED vars
  <2>1. SameEvents /\ UNCHANGED <<channelVars, serverVars, clientVars>>
    BY <1>3, <1>11 DEF vars
  <2>2. /\ UNCHANGED <<items, queue, active, late, saved>>
        /\ UNCHANGED <<cOpen, toClient, toServer, srv>>
    BY <2>1 DEF channelVars, serverVars, clientVars, storageVars
  <2>3. (\A k : Upto(k)' = Upto(k)) /\ Asks' = Asks
    BY <2>2 DEF Upto, Asks
  <2>4. (Accounts => Accounts') /\ (Fits => Fits')
    BY <2>1, <2>2, <2>3 DEF Accounts, AccountsAt, Fits, SameEvents
  <2>5. FirstFile => FirstFile'
    BY <2>1, <2>2 DEF FirstFile, SameEvents
  <2>6. Within => Within'
    BY <2>1, <2>2, <2>3, <2>4 DEF Within, SameEvents
  <2>7. Unopened => Unopened'
    BY <2>1, <2>2 DEF Unopened, Unspoken, NothingSaid, SameEvents
  <2>8. QED
    BY <1>2, <2>1, <2>2, <2>5, <2>6, <2>7 DEF FirstInv
<1>12. QED
  BY <1>5, <1>6, <1>7, <1>8, <1>9, <1>10, <1>11 DEF Next

\* Of the first file a page asks for, what lies in memory between the channel
\* and the disk stays within one window for each connection, for every file
\* size, window and number of connections, however messages, acknowledgements,
\* writes, faults and lost channels interleave (server.ts:157, 214;
\* client.ts:228-235).
THEOREM BackpressureHolds == Spec => []Backpressure
<1>1. Spec => [](LineInv /\ SinkInv)
  BY TypeInvAlways, InitMaps, NextMaps, InitSink, NextSink, PTL DEF Spec
<1>2. SinkInv => WorkOK /\ HeadOK
  BY DEF SinkInv
<1>3. QED
  BY <1>1, <1>2, TypeInvAlways, InitWindow, NextWindow, WindowBounds, PTL
  DEF Spec
=============================================================================
