--------------------------- MODULE FramingProofs ---------------------------
(***************************************************************************)
(* For any bytes, start bytes, bodies and number of frames: a thread that  *)
(* is in step stays in step while the line is not disturbed, and one       *)
(* disturbance costs it two frames at most.                                *)
(*                                                                         *)
(* The argument is a state of the reader that no step leaves.  The line is *)
(* laid out in frames (Layout), and the thread is where it should be in    *)
(* one of them (Sync), one byte behind in it (Shifted), or past the start  *)
(* bytes of one it has lost (Lag).  What noise may have made of the one    *)
(* frame that it has touched is said by Hurt.                              *)
(*                                                                         *)
(* Sums are taken by induction over places: a least counterexample is      *)
(* found by LeastOf.                                                       *)
(***************************************************************************)
EXTENDS Framing, SequenceTheorems, FiniteSetTheorems, WellFoundedInduction, TLAPS

-----------------------------------------------------------------------------
(* Sums.                                                                   *)

\* A set of numbers that is not empty has a least one.
LEMMA LeastOf ==
  ASSUME NEW T, T \subseteq Nat, T # {}
  PROVE  \E x \in T : \A y \in T : x <= y
<1> DEFINE R == OpToRel(<, Nat)
<1>1. IsWellFoundedOn(R, Nat)
  BY NatLessThanWellFounded
<1>2. \A x, y \in Nat : << y, x >> \in R <=> y < x
  BY DEF OpToRel
<1> HIDE DEF R
<1>3. \E x \in T : \A y \in T : ~ (<< y, x >> \in R)
  BY <1>1, WFMin
<1>4. PICK x \in T : \A y \in T : ~ (<< y, x >> \in R)
  BY <1>3
<1>5. ASSUME NEW y \in T PROVE x <= y
  <2>1. x \in Nat /\ y \in Nat
    OBVIOUS
  <2>2. ~ (y < x)
    BY <1>2, <1>4, <2>1
  <2>3. QED  BY <2>1, <2>2
<1>6. QED  BY <1>5

\* What a sum is made by: for each set of places, from the last of them.
Sums(s, n, g) ==
  g = [u \in SUBSET (1 .. n) |-> IF u = {} THEN 0 ELSE (g[u \ {Max(u)}] + s[Max(u)]) % Base]

LEMMA MaxIs ==
  ASSUME NEW n \in Nat, NEW u \in SUBSET (1 .. n), u # {}
  PROVE  Max(u) \in u /\ \A y \in u : y <= Max(u)
<1> DEFINE T == {n - x : x \in u}
<1>1. T \subseteq Nat /\ T # {}  OBVIOUS
<1>2. PICK t \in T : \A y \in T : t <= y
  <2> HIDE DEF T
  <2>1. QED  BY ONLY <1>1, LeastOf
<1>3. PICK x \in u : t = n - x  BY <1>2
<1>4. \A y \in u : y <= x
  <2>1. ASSUME NEW y \in u PROVE y <= x
    <3>1. n - y \in T /\ x \in Int /\ y \in Int OBVIOUS
    <3>2. n - x <= n - y  BY <1>2, <1>3, <3>1
    <3>3. QED  BY <3>1, <3>2
  <2>2. QED  BY <2>1
<1>5. x \in u /\ \A y \in u : x >= y  BY <1>4
<1>6. \E z \in u : \A y \in u : z >= y  BY <1>5
<1>7. QED  BY <1>6 DEF Max

LEMMA SumsExist ==
  ASSUME NEW s \in Seq(Nat), NEW n \in Nat
  PROVE  \E g : Sums(s, n, g)
<1> DEFINE T == {k \in Nat : ~ \E g : Sums(s, k, g)}
<1>1. SUFFICES ASSUME n \in T PROVE FALSE
  OBVIOUS
<1>2. PICK k \in T : \A y \in T : k <= y
  BY <1>1, LeastOf
<1>3. CASE k = 0
  <2> DEFINE g == [u \in SUBSET (1 .. 0) |-> 0]
  <2>1. \A u \in SUBSET (1 .. 0) : u = {}  OBVIOUS
  <2>2. Sums(s, 0, g)  BY <2>1 DEF Sums
  <2>3. QED  BY <1>3, <2>2
<1>4. CASE k # 0
  <2>1. k \in Nat /\ k - 1 \in Nat /\ k - 1 \notin T  BY <1>2, <1>4
  <2>2. PICK h : Sums(s, k - 1, h)  BY <2>1
  <2> DEFINE g == [u \in SUBSET (1 .. k) |-> IF k \in u THEN (h[u \ {k}] + s[k]) % Base ELSE h[u]]
  <2>3. ASSUME NEW u \in SUBSET (1 .. k)
        PROVE  g[u] = IF u = {} THEN 0 ELSE (g[u \ {Max(u)}] + s[Max(u)]) % Base
    <3>1. CASE k \in u
      <4>1. Max(u) \in u /\ (\A y \in u : y <= Max(u))  BY <2>1, <3>1, MaxIs
      <4>2. Max(u) = k
        <5>1. Max(u) \in 1 .. k /\ k <= Max(u)  BY <3>1, <4>1
        <5>2. QED  BY <2>1, <5>1
      <4>3. u \ {k} \in SUBSET (1 .. k) /\ k \notin u \ {k}  OBVIOUS
      <4>4. g[u \ {k}] = h[u \ {k}]  BY <4>3
      <4>5. QED  BY <3>1, <4>2, <4>4
    <3>2. CASE k \notin u
      <4>1. u \in SUBSET (1 .. k - 1)
        BY <2>1, <3>2
      <4>2. h[u] = IF u = {} THEN 0 ELSE (h[u \ {Max(u)}] + s[Max(u)]) % Base
        BY <2>2, <4>1 DEF Sums
      <4>3. u \ {Max(u)} \in SUBSET (1 .. k) /\ k \notin u \ {Max(u)}  BY <3>2
      <4>4. g[u \ {Max(u)}] = h[u \ {Max(u)}]  BY <4>3
      <4>5. QED  BY <3>2, <4>2, <4>4
    <3>3. QED  BY <3>1, <3>2
  <2>4. g = [u \in SUBSET (1 .. k) |-> IF u = {} THEN 0 ELSE (g[u \ {Max(u)}] + s[Max(u)]) % Base]
    <3>1. g = [u \in SUBSET (1 .. k) |-> g[u]]  OBVIOUS
    <3> HIDE DEF g
    <3>2. QED  BY <2>3, <3>1
  <2>5. Sums(s, k, g)
    BY ONLY <2>4 DEF Sums
  <2>6. QED  BY <1>2, <2>5
<1>5. QED  BY <1>3, <1>4

LEMMA SumsAre ==
  ASSUME NEW s \in Seq(Nat), NEW n \in Nat, n = Len(s), NEW g, Sums(s, n, g)
  PROVE  g[1 .. n] \in Nat
<1> DEFINE T == {k \in Nat : k <= n /\ g[1 .. k] \notin Nat}
<1>1. SUFFICES ASSUME n \in T PROVE FALSE
  OBVIOUS
<1>2. PICK k \in T : \A y \in T : k <= y
  <2>1. T \subseteq Nat /\ T # {}  BY <1>1
  <2> HIDE DEF T
  <2>2. QED  BY ONLY <2>1, LeastOf
<1>3. ASSUME NEW u \in SUBSET (1 .. n)
      PROVE  g[u] = IF u = {} THEN 0 ELSE (g[u \ {Max(u)}] + s[Max(u)]) % Base
  <2> DEFINE e(v) == IF v = {} THEN 0 ELSE (g[v \ {Max(v)}] + s[Max(v)]) % Base
  <2>1. g = [v \in SUBSET (1 .. n) |-> e(v)]  BY DEF Sums
  <2> HIDE DEF e
  <2>2. g[u] = e(u)  BY <2>1
  <2>3. QED  BY <2>2 DEF e
<1>4. CASE k = 0
  <2>1. 1 .. 0 = {} OBVIOUS
  <2>2. g[{}] = 0  BY <1>3
  <2>3. QED  BY <1>2, <1>4, <2>1, <2>2
<1>5. CASE k # 0
  <2>1. k \in 1 .. n /\ k \in Nat /\ k - 1 \in Nat /\ k - 1 \notin T  BY <1>2, <1>5
  <2>2. g[1 .. k - 1] \in Nat /\ s[k] \in Nat  BY <1>2, <2>1
  <2> HIDE DEF T
  <2>3. 1 .. k \in SUBSET (1 .. n) /\ k \in 1 .. k  BY <2>1
  <2>4. Max(1 .. k) = k
    <3>1. 1 .. k \in SUBSET (1 .. k) /\ 1 .. k # {}  BY <2>3
    <3>2. Max(1 .. k) \in 1 .. k /\ \A y \in 1 .. k : y <= Max(1 .. k)
      BY ONLY <2>1, <3>1, MaxIs
    <3>3. QED  BY <2>1, <2>3, <3>2
  <2>5. (1 .. k) \ {k} = 1 .. k - 1  BY <2>1
  <2>6. g[1 .. k] = (g[1 .. k - 1] + s[k]) % Base
    <3>1. 1 .. k # {}  BY <2>3
    <3>2. QED  BY <1>3, <2>3, <2>4, <2>5, <3>1
  <2>7. Base \in Nat \ {0} BY FramingAssumption
  <2>8. g[1 .. k] \in Nat  BY <2>2, <2>6, <2>7
  <2>9. QED  BY <1>2, <2>8 DEF T
<1>6. QED  BY <1>4, <1>5

\* A sum of bytes is a byte.
LEMMA SumIs ==
  ASSUME NEW s \in Seq(Nat)
  PROVE  SumOf(s) \in Nat
<1> DEFINE n == Len(s)
           iter == CHOOSE g : g = [u \in SUBSET (DOMAIN s) |->
                                     IF u = {} THEN 0 ELSE (g[u \ {Max(u)}] + s[Max(u)]) % Base]
<1>1. SumOf(s) = iter[DOMAIN s]
  BY DEF SumOf, FoldLeft, MapThenFoldSet
<1>2. DOMAIN s = 1 .. n /\ n \in Nat
  OBVIOUS
<1>3. iter = CHOOSE g : Sums(s, n, g)
  BY <1>2 DEF Sums
<1> HIDE DEF iter
<1>4. Sums(s, n, iter)
  BY <1>2, <1>3, SumsExist
<1>5. iter[1 .. n] \in Nat
  BY <1>2, <1>4, SumsAre
<1>6. QED  BY <1>1, <1>2, <1>5

-----------------------------------------------------------------------------
(* Frames as they are sent, and what noise makes of them.                  *)

Size(body) == Len(body) + 5

Cell == [b : Nat, of : Nat, place : Nat, last : BOOLEAN]

\* What a reader makes use of.
Framed(e) ==
  /\ e \in Seq(Nat) /\ Len(e) > HeadLen /\ Len(e) <= Buffer
  /\ e[1] = Start[1] /\ e[2] = Start[2]
  /\ e[3] + Base * e[4] = Len(e)
  /\ SumOf(Front(e)) = Last(e)

NoStart(e) == \A i \in 3 .. Len(e) : e[i] # Start[1] /\ e[i] # Start[2]

LEMMA Joined ==
  ASSUME NEW S, NEW s \in Seq(S), NEW t \in Seq(S)
  PROVE  /\ s \o t \in Seq(S) /\ Len(s \o t) = Len(s) + Len(t)
         /\ \A i \in 1 .. Len(s) : (s \o t)[i] = s[i]
         /\ \A i \in 1 .. Len(t) : (s \o t)[Len(s) + i] = t[i]
OBVIOUS

LEMMA StartIs == Start \in Seq(Nat) /\ Start = << Start[1], Start[2] >> /\ Len(Start) = 2
                 /\ Start[1] # Start[2] /\ Start[1] \in Byte /\ Start[2] \in Byte
                 /\ ToSet(Start) = {Start[1], Start[2]}
<1>1. Start \in Byte \X Byte /\ Start[1] # Start[2] /\ Byte \subseteq Nat
  BY FramingAssumption DEF Byte
<1>2. Start = << Start[1], Start[2] >> /\ Start[1] \in Byte /\ Start[2] \in Byte
  BY <1>1
<1>3. ASSUME NEW p \in Nat, NEW q \in Nat PROVE << p, q >> \in Seq(Nat) /\ Len(<< p, q >>) = 2
  OBVIOUS
<1>4. ToSet(<< Start[1], Start[2] >>) = {Start[1], Start[2]}
  BY DEF ToSet
<1>5. QED  BY <1>1, <1>2, <1>3, <1>4

LEMMA Division ==
  ASSUME NEW n \in Nat
  PROVE  n % Base \in Nat /\ n \div Base \in Nat /\ (n % Base) + Base * (n \div Base) = n
<1>1. Base \in Nat /\ Base > 0  BY FramingAssumption
<1>2. QED  BY <1>1

LEMMA EncodeIs ==
  ASSUME NEW body \in Bodies
  PROVE  /\ Framed(Encode(body)) /\ Len(Encode(body)) = Size(body)
         /\ Plain(body) <=> NoStart(Encode(body))
<1> DEFINE len   == Size(body)
           front == Start \o << len % Base, len \div Base >> \o body
<1>1. body \in Seq(Nat) /\ Len(body) \in Nat /\ len \in Nat /\ len > HeadLen /\ len <= Buffer
      /\ HeadLen \in Nat /\ HeadLen >= 4
  BY FramingAssumption DEF Size, Byte
<1>2. len % Base \in Nat /\ len \div Base \in Nat /\ (len % Base) + Base * (len \div Base) = len
  BY <1>1, Division
<1>3. /\ front \in Seq(Nat) /\ Len(front) = len - 1
      /\ front[1] = Start[1] /\ front[2] = Start[2] /\ front[3] = len % Base /\ front[4] = len \div Base
  <2> DEFINE two == << len % Base, len \div Base >>
             h   == Start \o two
  <2>1. two \in Seq(Nat) /\ Len(two) = 2 /\ two[1] = len % Base /\ two[2] = len \div Base
    BY <1>2
  <2>0. Start \in Seq(Nat) /\ two \in Seq(Nat)  BY <2>1, StartIs
  <2> HIDE DEF two
  <2>2. /\ h \in Seq(Nat) /\ Len(h) = Len(Start) + Len(two)
        /\ \A i \in 1 .. Len(Start) : h[i] = Start[i]
        /\ \A i \in 1 .. Len(two) : h[Len(Start) + i] = two[i]
    BY ONLY Joined, <2>0
  <2> HIDE DEF h, len
  <2>3. Len(h) = 4 /\ h[1] = Start[1] /\ h[2] = Start[2] /\ h[2 + 1] = two[1] /\ h[2 + 2] = two[2]
    BY <2>1, <2>2, StartIs
  <2>4. /\ h \o body \in Seq(Nat) /\ Len(h \o body) = 4 + Len(body)
        /\ \A i \in 1 .. 4 : (h \o body)[i] = h[i]
    <3>1. h \in Seq(Nat) /\ body \in Seq(Nat)  BY <1>1, <2>2
    <3>2. /\ h \o body \in Seq(Nat) /\ Len(h \o body) = Len(h) + Len(body)
          /\ \A i \in 1 .. Len(h) : (h \o body)[i] = h[i]
      BY ONLY Joined, <3>1
    <3>3. QED  BY <2>3, <3>2
  <2>5. len - 1 = 4 + Len(body)  BY <1>1 DEF len, Size
  <2>6. front = h \o body  BY DEF h, two
  <2> HIDE DEF front
  <2>7. QED  BY <2>1, <2>3, <2>4, <2>5, <2>6
<1>4. Encode(body) = Append(front, SumOf(front))
  BY DEF Encode, Size
<1> HIDE DEF front, len
<1>5. SumOf(front) \in Nat /\ front \in Seq(Nat)
  BY <1>3, SumIs
<1> DEFINE e == Encode(body)
<1>6. /\ e \in Seq(Nat) /\ Len(e) = len
      /\ \A i \in 1 .. len - 1 : e[i] = front[i]
      /\ e[len] = SumOf(front)
  BY <1>1, <1>3, <1>4, <1>5
<1>7. Front(e) = front /\ Last(e) = SumOf(front)
  <2>1. Front(e) = SubSeq(e, 1, Len(e) - 1) /\ Last(e) = e[Len(e)]
    BY DEF Front, Last
  <2>2. SubSeq(e, 1, len - 1) = [i \in 1 .. len - 1 |-> e[i]]
    BY <1>1, <1>6
  <2>3. front = [i \in 1 .. len - 1 |-> front[i]]
    BY <1>1, <1>3
  <2>4. QED  BY <1>6, <2>1, <2>2, <2>3
<1>8. Framed(e)
  <2>1. e[1] = Start[1] /\ e[2] = Start[2] /\ e[3] = len % Base /\ e[4] = len \div Base
    BY <1>1, <1>3, <1>6
  <2>2. QED  BY <1>1, <1>2, <1>6, <1>7, <2>1 DEF Framed
<1>9. Plain(body) <=> NoStart(e)
  <2>1. Len(e) = Len(body) + 5  BY <1>6 DEF len, Size
  <2>2. QED  BY <2>1, StartIs DEF Plain, NoStart
<1>10. QED  BY <1>6, <1>8, <1>9 DEF len

LEMMA TaggedIs ==
  ASSUME NEW e \in Seq(Nat), NEW n \in Nat
  PROVE  /\ Tagged(e, n) \in Seq(Cell) /\ Len(Tagged(e, n)) = Len(e)
         /\ \A i \in 1 .. Len(e) : /\ Tagged(e, n)[i].b = e[i] /\ Tagged(e, n)[i].of = n
                                   /\ Tagged(e, n)[i].place = i /\ Tagged(e, n)[i].last = (i = Len(e))
<1> DEFINE t == [i \in 1 .. Len(e) |-> [b |-> e[i], of |-> n, place |-> i, last |-> i = Len(e)]]
<1>1. \A i \in 1 .. Len(e) : [b |-> e[i], of |-> n, place |-> i, last |-> i = Len(e)] \in Cell
  BY DEF Cell
<1>2. Tagged(e, n) = t  BY DEF Tagged
<1>3. Len(e) \in Nat /\ t \in Seq(Cell) /\ Len(t) = Len(e)  BY <1>1
<1>4. \A i \in 1 .. Len(e) : /\ t[i].b = e[i] /\ t[i].of = n
                            /\ t[i].place = i /\ t[i].last = (i = Len(e))
  OBVIOUS
<1> HIDE DEF t
<1>5. QED  BY <1>2, <1>3, <1>4

LEMMA StrangeIs ==
  ASSUME NEW b \in Byte
  PROVE  Strange(b) \in Cell /\ Strange(b).b = b /\ Strange(b).of = 0 /\ ~ Strange(b).last
<1>1. b \in Nat  BY FramingAssumption DEF Byte
<1>2. QED  BY <1>1 DEF Strange, Cell, False

\* What noise does, byte by byte.
LEMMA DroppedIs ==
  ASSUME NEW x \in Seq(Cell), NEW k \in 1 .. Len(x)
  PROVE  /\ Dropped(x, k) \in Seq(Cell) /\ Len(Dropped(x, k)) = Len(x) - 1
         /\ \A j \in 1 .. Len(x) - 1 : Dropped(x, k)[j] = IF j < k THEN x[j] ELSE x[j + 1]
<1> DEFINE l == SubSeq(x, 1, k - 1)
           r == SubSeq(x, k + 1, Len(x))
<1>1. l \in Seq(Cell) /\ Len(l) = k - 1 /\ \A j \in 1 .. k - 1 : l[j] = x[j]
  OBVIOUS
<1>2. r \in Seq(Cell) /\ Len(r) = Len(x) - k /\ \A j \in 1 .. Len(x) - k : r[j] = x[k + j]
  <2>1. \A j \in 1 .. Len(x) - k : r[j] = x[(k + 1) + j - 1]
    OBVIOUS
  <2>2. QED  BY <2>1
<1>3. Dropped(x, k) = l \o r
  BY DEF Dropped, RemoveAt
<1> HIDE DEF l, r
<1>4. l \in Seq(Cell) /\ r \in Seq(Cell)  BY <1>1, <1>2
<1>5. /\ l \o r \in Seq(Cell) /\ Len(l \o r) = Len(l) + Len(r)
      /\ \A j \in 1 .. Len(l) : (l \o r)[j] = l[j]
      /\ \A j \in 1 .. Len(r) : (l \o r)[Len(l) + j] = r[j]
  BY ONLY Joined, <1>4
<1> DEFINE y == l \o r
<1> HIDE DEF y
<1>6. ASSUME NEW j \in 1 .. Len(x) - 1 PROVE y[j] = IF j < k THEN x[j] ELSE x[j + 1]
  <2>1. CASE j < k
    <3>1. j \in 1 .. k - 1  BY <2>1
    <3>2. y[j] = l[j]  BY <1>1, <1>5, <3>1 DEF y
    <3>3. QED  BY <1>1, <2>1, <3>1, <3>2
  <2>2. CASE j >= k
    <3>1. j - (k - 1) \in 1 .. Len(x) - k /\ k + (j - (k - 1)) = j + 1 /\ (k - 1) + (j - (k - 1)) = j
      BY <2>2
    <3>2. r[j - (k - 1)] = x[j + 1]  BY <1>2, <3>1
    <3>3. y[(k - 1) + (j - (k - 1))] = r[j - (k - 1)]  BY <1>1, <1>2, <1>5, <3>1 DEF y
    <3>4. QED  BY <2>2, <3>1, <3>2, <3>3
  <2>3. QED  BY <2>1, <2>2
<1>7. y \in Seq(Cell) /\ Len(y) = Len(x) - 1  BY <1>1, <1>2, <1>5 DEF y
<1>8. QED  BY <1>3, <1>6, <1>7 DEF y

LEMMA AlteredIs ==
  ASSUME NEW x \in Seq(Cell), NEW k \in 1 .. Len(x), NEW b \in Byte
  PROVE  /\ Altered(x, k, b) \in Seq(Cell) /\ Len(Altered(x, k, b)) = Len(x)
         /\ \A j \in 1 .. Len(x) : Altered(x, k, b)[j] = IF j = k THEN Strange(b) ELSE x[j]
BY StrangeIs DEF Altered, ReplaceAt

LEMMA AddedIs ==
  ASSUME NEW x \in Seq(Cell), NEW k \in 1 .. Len(x), NEW b \in Byte
  PROVE  /\ Added(x, k, b) \in Seq(Cell) /\ Len(Added(x, k, b)) = Len(x) + 1
         /\ \A j \in 1 .. Len(x) + 1 :
              Added(x, k, b)[j] = IF j < k THEN x[j] ELSE IF j = k THEN Strange(b) ELSE x[j - 1]
<1> DEFINE l == SubSeq(x, 1, k - 1)
           s == << Strange(b) >>
           r == SubSeq(x, k, Len(x))
<1>1. l \in Seq(Cell) /\ Len(l) = k - 1 /\ \A j \in 1 .. k - 1 : l[j] = x[j]
  OBVIOUS
<1>2. r \in Seq(Cell) /\ Len(r) = Len(x) - k + 1 /\ \A j \in 1 .. Len(x) - k + 1 : r[j] = x[k + j - 1]
  OBVIOUS
<1>3. s \in Seq(Cell) /\ Len(s) = 1 /\ s[1] = Strange(b)
  BY StrangeIs
<1>4. Added(x, k, b) = (l \o s) \o r
  BY DEF Added, InsertAt
<1> HIDE DEF l, r, s
<1> DEFINE ls == l \o s
           y  == ls \o r
<1>5. l \in Seq(Cell) /\ s \in Seq(Cell)  BY <1>1, <1>3
<1>6. /\ ls \in Seq(Cell) /\ Len(ls) = Len(l) + Len(s)
      /\ \A j \in 1 .. Len(l) : ls[j] = l[j]
      /\ \A j \in 1 .. Len(s) : ls[Len(l) + j] = s[j]
  BY ONLY Joined, <1>5
<1> HIDE DEF ls
<1>7. Len(ls) = k /\ ls[k] = Strange(b)
  <2>1. Len(ls) = k /\ Len(l) + 1 = k  BY <1>1, <1>3, <1>6
  <2>2. QED  BY <1>3, <1>6, <2>1
<1>8. ls \in Seq(Cell) /\ r \in Seq(Cell)  BY <1>2, <1>6
<1>9. /\ y \in Seq(Cell) /\ Len(y) = Len(ls) + Len(r)
      /\ \A j \in 1 .. Len(ls) : y[j] = ls[j]
      /\ \A j \in 1 .. Len(r) : y[Len(ls) + j] = r[j]
  BY ONLY Joined, <1>8
<1> HIDE DEF y
<1>10. ASSUME NEW j \in 1 .. Len(x) + 1
       PROVE  y[j] = IF j < k THEN x[j] ELSE IF j = k THEN Strange(b) ELSE x[j - 1]
  <2>1. CASE j < k
    <3>1. j \in 1 .. k - 1 /\ j \in 1 .. k  BY <2>1
    <3>2. y[j] = ls[j]  BY <1>7, <1>9, <3>1
    <3>3. ls[j] = l[j] /\ l[j] = x[j]  BY <1>1, <1>6, <3>1
    <3>4. QED  BY <2>1, <3>2, <3>3
  <2>2. CASE j = k
    <3>1. y[k] = ls[k]  BY <1>7, <1>9
    <3>2. QED  BY <1>7, <2>2, <3>1
  <2>3. CASE j > k
    <3>1. j - k \in 1 .. Len(x) - k + 1 /\ k + (j - k) - 1 = j - 1 /\ k + (j - k) = j
      BY <2>3
    <3>2. r[j - k] = x[j - 1]  BY <1>2, <3>1
    <3>3. y[k + (j - k)] = r[j - k]  BY <1>2, <1>7, <1>9, <3>1
    <3>4. QED  BY <2>3, <3>1, <3>2, <3>3
  <2>4. QED  BY <2>1, <2>2, <2>3
<1>11. Len(y) = Len(x) + 1  BY <1>2, <1>7, <1>9
<1>12. QED  BY <1>4, <1>9, <1>10, <1>11 DEF y, ls

-----------------------------------------------------------------------------
(* What a reader meets in a frame that noise has touched.                  *)

Sound(x, e, i) == Framed(e) /\ x = Tagged(e, i)

Marked(x) == x[1].b = Start[1] /\ x[2].b = Start[2]

\* No first start byte after place c.
Quiet(x, c) == \A j \in 1 .. Len(x) : j > c => x[j].b # Start[1]

\* One byte before it, and only the serial thread gets over that.
Slipped(x, e, i) ==
  /\ port = "serial" /\ Len(x) = Len(e) + 1 /\ x[1].b # Start[1]
  /\ \A j \in 1 .. Len(e) : x[j + 1] = Tagged(e, i)[j]

Hurt(x, e, i) ==
  /\ x \in Seq(Cell) /\ Len(x) >= 4
  /\ x[1].b # Start[1] => Quiet(x, 1) \/ Slipped(x, e, i)
  /\ x[1].b = Start[1] /\ x[2].b # Start[2] => Quiet(x, 2)
  /\ ~ Marked(x) => /\ Quiet(x, 4)
                    /\ port = "usb" => Len(x) = Len(e) /\ x[3].b = e[3] /\ x[4].b = e[4]
  /\ Marked(x) =>
       /\ x[3].b = e[3] /\ x[4].b = e[4]
       /\ \/ Len(x) = Len(e) - 1
          \/ Len(x) = Len(e) /\ \E k \in 5 .. Len(e) : x[k].of = 0
          \/ Len(x) = Len(e) + 1 /\ ~ x[Len(e)].last /\ x[Len(x)].b # Start[1]

LEMMA SoundIs ==
  ASSUME NEW e, NEW i \in Nat, NEW x, Sound(x, e, i)
  PROVE  /\ x \in Seq(Cell) /\ Len(x) = Len(e) /\ Len(e) \in Nat /\ Len(e) >= 5
         /\ \A j \in 1 .. Len(e) : /\ x[j].b = e[j] /\ x[j].of = i
                                   /\ x[j].place = j /\ x[j].last = (j = Len(e))
         /\ Marked(x)
         /\ NoStart(e) => Quiet(x, 1)
<1>1. e \in Seq(Nat) /\ Len(e) \in Nat /\ Len(e) >= 5 /\ e[1] = Start[1] /\ e[2] = Start[2]
  BY FramingAssumption DEF Sound, Framed
<1>2. /\ x \in Seq(Cell) /\ Len(x) = Len(e)
      /\ \A j \in 1 .. Len(e) : /\ x[j].b = e[j] /\ x[j].of = i
                                /\ x[j].place = j /\ x[j].last = (j = Len(e))
  BY <1>1, TaggedIs DEF Sound
<1>3. Marked(x)
  BY <1>1, <1>2 DEF Marked
<1>4. ASSUME NoStart(e), NEW j \in 1 .. Len(x), j > 1 PROVE x[j].b # Start[1]
  <2>1. j = 2 \/ j \in 3 .. Len(e)  BY <1>1, <1>2, <1>4
  <2>2. QED  BY <1>1, <1>2, <1>4, <2>1, StartIs DEF NoStart
<1>5. QED  BY <1>1, <1>2, <1>3, <1>4 DEF Quiet

LEMMA SlippedIs ==
  ASSUME NEW e, NEW i \in Nat, NEW x, Framed(e), Slipped(x, e, i)
  PROVE  /\ e \in Seq(Nat) /\ Len(e) \in Nat /\ Len(e) >= 5 /\ Len(x) = Len(e) + 1
         /\ \A j \in 1 .. Len(e) : /\ x[j + 1].b = e[j] /\ x[j + 1].of = i
                                   /\ x[j + 1].place = j /\ x[j + 1].last = (j = Len(e))
<1>1. e \in Seq(Nat) /\ Len(e) \in Nat /\ Len(e) >= 5 /\ Len(x) = Len(e) + 1
  BY FramingAssumption DEF Framed, Slipped
<1>2. \A j \in 1 .. Len(e) : x[j + 1] = Tagged(e, i)[j]
  BY DEF Slipped
<1> DEFINE t == Tagged(e, i)
<1>3. \A j \in 1 .. Len(e) : /\ t[j].b = e[j] /\ t[j].of = i
                            /\ t[j].place = j /\ t[j].last = (j = Len(e))
  BY <1>1, TaggedIs
<1>4. \A j \in 1 .. Len(e) : x[j + 1] = t[j]  BY <1>2
<1> HIDE DEF t
<1>5. ASSUME NEW j \in 1 .. Len(e)
      PROVE  /\ x[j + 1].b = e[j] /\ x[j + 1].of = i
             /\ x[j + 1].place = j /\ x[j + 1].last = (j = Len(e))
  <2>1. x[j + 1] = t[j]  BY ONLY <1>4, <1>5
  <2>2. t[j].b = e[j] /\ t[j].of = i /\ t[j].place = j /\ t[j].last = (j = Len(e))
    BY ONLY <1>3, <1>5
  <2>3. QED  BY ONLY <2>1, <2>2
<1>6. QED  BY <1>1, <1>5

LEMMA DropHurts ==
  ASSUME port \in {"serial", "usb"}, NEW e, NEW i \in Nat, Framed(e), NoStart(e), NEW k \in 1 .. Len(e), NEW b \in Byte,
         ~ TouchesLength("drop", k, b)
  PROVE  Hurt(Dropped(Tagged(e, i), k), e, i)
<1> DEFINE t == Tagged(e, i)
           x == Dropped(t, k)
           L == Len(e)
<1>1. Sound(t, e, i)  BY DEF Sound
<1>2. /\ t \in Seq(Cell) /\ Len(t) = L /\ L \in Nat /\ L >= 5
      /\ \A j \in 1 .. L : t[j].b = e[j]
      /\ e[1] = Start[1] /\ e[2] = Start[2]
  BY <1>1, SoundIs DEF Framed
<1> HIDE DEF t
<1>3. k # 3 /\ k # 4 /\ (port = "usb" => k >= 5)
  BY <1>2 DEF TouchesLength
<1>4. /\ x \in Seq(Cell) /\ Len(x) = L - 1
      /\ \A j \in 1 .. L - 1 : x[j] = IF j < k THEN t[j] ELSE t[j + 1]
  <2>1. t \in Seq(Cell) /\ k \in 1 .. Len(t)  BY <1>2
  <2> HIDE DEF L
  <2>2. QED  BY <1>2, <2>1, DroppedIs
<1> HIDE DEF x, L
<1>5. \A j \in 1 .. L - 1 : x[j].b = IF j < k THEN e[j] ELSE e[j + 1]
  <2>1. ASSUME NEW j \in 1 .. L - 1 PROVE x[j].b = IF j < k THEN e[j] ELSE e[j + 1]
    <3>1. j \in 1 .. L /\ j + 1 \in 1 .. L  BY <1>2
    <3>2. QED  BY <1>2, <1>4, <3>1
  <2>2. QED  BY <2>1
<1>6. \A j \in 3 .. L : e[j] # Start[1] /\ e[j] # Start[2]
  BY DEF NoStart, L
<1>7. \A j \in 2 .. L : e[j] # Start[1]
  BY <1>2, <1>6, StartIs
<1>8. /\ x[1].b = IF 1 < k THEN e[1] ELSE e[2]
      /\ x[2].b = IF 2 < k THEN e[2] ELSE e[3]
      /\ x[3].b = IF 3 < k THEN e[3] ELSE e[4]
      /\ x[4].b = IF 4 < k THEN e[4] ELSE e[5]
  <2>1. 1 \in 1 .. L - 1 /\ 2 \in 1 .. L - 1 /\ 3 \in 1 .. L - 1 /\ 4 \in 1 .. L - 1  BY <1>2
  <2>2. QED  BY <1>5, <2>1
<1>9. Quiet(x, 1)
  <2>1. ASSUME NEW j \in 1 .. Len(x), j > 1 PROVE x[j].b # Start[1]
    <3>1. j \in 1 .. L - 1 /\ j \in 2 .. L /\ j + 1 \in 2 .. L  BY <1>2, <1>4, <2>1
    <3>2. QED  BY <1>5, <1>7, <3>1
  <2>2. QED  BY <2>1 DEF Quiet
<1>10. Quiet(x, 2) /\ Quiet(x, 4)
  BY <1>9, <1>2, <1>4 DEF Quiet
<1>11. Marked(x) => k >= 5
  <2>1. k = 1 => x[1].b = Start[2]  BY <1>2, <1>8
  <2>2. k = 2 => x[2].b = e[3] /\ e[3] # Start[2]  BY <1>2, <1>6, <1>8
  <2>3. k \in 1 .. L  BY DEF L
  <2>4. QED  BY <1>2, <1>3, <2>1, <2>2, <2>3, StartIs DEF Marked
<1>12. k >= 5 => Marked(x) /\ x[3].b = e[3] /\ x[4].b = e[4]
  BY <1>2, <1>8 DEF Marked
<1>13. QED  BY <1>2, <1>3, <1>4, <1>9, <1>10, <1>11, <1>12 DEF Hurt, L, x, t

LEMMA AlterHurts ==
  ASSUME port \in {"serial", "usb"}, NEW e, NEW i \in Nat, Framed(e), NoStart(e), NEW k \in 1 .. Len(e), NEW b \in Byte,
         b # e[k], ~ TouchesLength("alter", k, b)
  PROVE  Hurt(Altered(Tagged(e, i), k, b), e, i)
<1> DEFINE t == Tagged(e, i)
           x == Altered(t, k, b)
           L == Len(e)
<1>1. Sound(t, e, i)  BY DEF Sound
<1>2. /\ t \in Seq(Cell) /\ Len(t) = L /\ L \in Nat /\ L >= 5
      /\ \A j \in 1 .. L : t[j].b = e[j]
      /\ e[1] = Start[1] /\ e[2] = Start[2]
  BY <1>1, SoundIs DEF Framed
<1> HIDE DEF t
<1>3. k # 3 /\ k # 4
  BY <1>2 DEF TouchesLength
<1>4. /\ x \in Seq(Cell) /\ Len(x) = L
      /\ \A j \in 1 .. L : x[j] = IF j = k THEN Strange(b) ELSE t[j]
  BY <1>2, AlteredIs
<1> HIDE DEF x, L
<1>5. /\ \A j \in 1 .. L : x[j].b = IF j = k THEN b ELSE e[j]
      /\ x[k].of = 0
  BY <1>2, <1>4, StrangeIs DEF L
<1>6. \A j \in 3 .. L : e[j] # Start[1] /\ e[j] # Start[2]
  BY DEF NoStart, L
<1>7. \A j \in 2 .. L : e[j] # Start[1]
  BY <1>2, <1>6, StartIs
<1>8. /\ x[1].b = IF k = 1 THEN b ELSE e[1]
      /\ x[2].b = IF k = 2 THEN b ELSE e[2]
      /\ x[3].b = e[3] /\ x[4].b = e[4]
  <2>1. 1 \in 1 .. L /\ 2 \in 1 .. L /\ 3 \in 1 .. L /\ 4 \in 1 .. L  BY <1>2
  <2>2. QED  BY <1>3, <1>5, <2>1
<1>9. ASSUME k <= 2 PROVE ~ Marked(x) /\ Quiet(x, 2) /\ Quiet(x, 4) /\ (k = 1 => Quiet(x, 1)) /\ (k = 2 => x[1].b = Start[1])
  <2>1. k = 1 \/ k = 2  BY <1>9 DEF L
  <2>2. ~ Marked(x)  BY <1>2, <1>8, <2>1 DEF Marked
  <2>3. ASSUME NEW j \in 1 .. Len(x), j > k PROVE x[j].b # Start[1]
    <3>1. j \in 1 .. L /\ j \in 2 .. L /\ j # k  BY <1>2, <1>4, <2>1, <2>3
    <3>2. QED  BY <1>5, <1>7, <3>1
  <2>4. Quiet(x, k)  BY <2>3 DEF Quiet
  <2>5. Quiet(x, 2) /\ Quiet(x, 4) /\ (k = 1 => Quiet(x, 1))
    BY <1>2, <1>4, <2>1, <2>4 DEF Quiet
  <2>6. QED  BY <1>2, <1>8, <2>1, <2>2, <2>5
<1>10. k >= 5 => Marked(x)
  BY <1>2, <1>8 DEF Marked
<1>11. k <= 2 \/ k \in 5 .. L
  BY <1>2, <1>3 DEF L
<1>12. QED  BY <1>2, <1>4, <1>5, <1>8, <1>9, <1>10, <1>11 DEF Hurt, Marked, L, x, t

LEMMA AddHurts ==
  ASSUME port \in {"serial", "usb"}, NEW e, NEW i \in Nat, Framed(e), NoStart(e), NEW k \in 1 .. Len(e), NEW b \in Byte,
         ~ TouchesLength("add", k, b)
  PROVE  Hurt(Added(Tagged(e, i), k, b), e, i)
<1> DEFINE t == Tagged(e, i)
           x == Added(t, k, b)
           L == Len(e)
<1>1. Sound(t, e, i)  BY DEF Sound
<1>2. /\ t \in Seq(Cell) /\ Len(t) = L /\ L \in Nat /\ L >= 5
      /\ \A j \in 1 .. L : t[j].b = e[j] /\ t[j].last = (j = L)
      /\ e[1] = Start[1] /\ e[2] = Start[2]
  BY <1>1, SoundIs DEF Framed
<1> HIDE DEF t
<1>3. k # 3 /\ k # 4 /\ (port = "usb" => k >= 5) /\ (k = 2 => b # Start[2])
  BY <1>2 DEF TouchesLength
<1>4. /\ x \in Seq(Cell) /\ Len(x) = L + 1
      /\ \A j \in 1 .. L + 1 : x[j] = IF j < k THEN t[j] ELSE IF j = k THEN Strange(b) ELSE t[j - 1]
  BY <1>2, AddedIs
<1>0. k \in 1 .. L  BY DEF L
<1> HIDE DEF x, L
<1>5. \A j \in 1 .. L + 1 : x[j].b = IF j < k THEN e[j] ELSE IF j = k THEN b ELSE e[j - 1]
  <2>1. ASSUME NEW j \in 1 .. L + 1 PROVE x[j].b = IF j < k THEN e[j] ELSE IF j = k THEN b ELSE e[j - 1]
    <3>1. (j < k => j \in 1 .. L) /\ (j > k => j - 1 \in 1 .. L)  BY <1>0, <1>2
    <3>2. QED  BY <1>0, <1>2, <1>4, <3>1, StrangeIs
  <2>2. QED  BY <2>1
<1>6. \A j \in 3 .. L : e[j] # Start[1] /\ e[j] # Start[2]
  BY DEF NoStart, L
<1>7. \A j \in 2 .. L : e[j] # Start[1]
  BY <1>2, <1>6, StartIs
<1>8. /\ x[1].b = IF 1 < k THEN e[1] ELSE b
      /\ x[2].b = IF 2 < k THEN e[2] ELSE IF k = 2 THEN b ELSE e[1]
      /\ k >= 5 => x[3].b = e[3] /\ x[4].b = e[4]
  <2>1. 1 \in 1 .. L + 1 /\ 2 \in 1 .. L + 1 /\ 3 \in 1 .. L + 1 /\ 4 \in 1 .. L + 1  BY <1>2
  <2>2. k \in Nat /\ k >= 1  BY <1>0
  <2>3. QED  BY <1>5, <2>1, <2>2
<1>9. ASSUME k <= 2 PROVE ~ Marked(x) /\ Quiet(x, 2) /\ Quiet(x, 4)
  <2>1. k = 1 \/ k = 2  BY <1>0, <1>9
  <2>2. ~ Marked(x)  BY <1>2, <1>3, <1>8, <2>1, StartIs DEF Marked
  <2>3. ASSUME NEW j \in 1 .. Len(x), j > 2 PROVE x[j].b # Start[1]
    <3>1. j \in 1 .. L + 1 /\ j - 1 \in 2 .. L /\ ~ (j < k) /\ j # k  BY <1>2, <1>4, <2>1, <2>3
    <3>2. QED  BY <1>5, <1>7, <3>1
  <2>4. Quiet(x, 2)  BY <2>3 DEF Quiet
  <2>5. Quiet(x, 4)
    BY <1>2, <1>4, <2>4 DEF Quiet
  <2>6. QED  BY <2>2, <2>4, <2>5
<1>10. ASSUME k <= 2, x[1].b # Start[1] PROVE Slipped(x, e, i)
  <2>1. k = 1  BY <1>0, <1>2, <1>8, <1>10
  <2>2. port = "serial"  BY <1>3, <1>10, <2>1
  <2>3. ASSUME NEW j \in 1 .. L PROVE x[j + 1] = t[j]
    <3>1. j + 1 \in 1 .. L + 1 /\ ~ (j + 1 < k) /\ j + 1 # k /\ (j + 1) - 1 = j  BY <1>2, <2>1
    <3>2. QED  BY <1>4, <3>1
  <2>4. QED  BY <1>4, <1>10, <2>2, <2>3 DEF Slipped, L, t
<1>11. ASSUME k >= 5 PROVE Marked(x) /\ ~ x[L].last /\ x[L + 1].b # Start[1]
  <2>1. Marked(x)  BY <1>2, <1>8, <1>11, <1>0 DEF Marked
  <2>2. x[L + 1].b # Start[1]
    <3>1. L + 1 \in 1 .. L + 1 /\ ~ (L + 1 < k) /\ L + 1 # k /\ (L + 1) - 1 = L /\ L \in 2 .. L  BY <1>0, <1>2
    <3>2. QED  BY <1>5, <1>7, <3>1
  <2>3. ~ x[L].last
    <3>1. L \in 1 .. L + 1 /\ ~ (L < k) /\ L - 1 \in 1 .. L /\ L - 1 # L  BY <1>0, <1>2
    <3>2. CASE k = L  BY <1>4, <3>1, <3>2, StrangeIs
    <3>3. CASE k # L
      <4>1. x[L] = t[L - 1]  BY <1>4, <3>1, <3>3
      <4>2. QED  BY <1>2, <3>1, <4>1
    <3>4. QED  BY <3>2, <3>3
  <2>4. QED  BY <2>1, <2>2, <2>3
<1>12. k <= 2 \/ k >= 5
  BY <1>0, <1>2, <1>3
<1>13. QED  BY <1>2, <1>3, <1>4, <1>8, <1>9, <1>10, <1>11, <1>12 DEF Hurt, Marked, L, x, t

-----------------------------------------------------------------------------
(* What is on the line: the rest of frame m, of which c bytes have been    *)
(* read, and the frames after it.  Frame i is F[i], and its first byte is, *)
(* or would be, at place P[i] + 1.                                         *)

Layout(P, F) ==
  /\ P \in [1 .. sent + 1 -> Int] /\ F \in [1 .. sent -> Seq(Cell)]
  /\ P[sent + 1] = Len(line)
  /\ \A i \in 1 .. sent : P[i + 1] = P[i] + Len(F[i])
  /\ \A i, j \in 1 .. sent + 1 : i <= j => P[i] <= P[j]
  /\ \A i \in 1 .. sent : \A j \in 1 .. Len(F[i]) : P[i] + j >= 1 => line[P[i] + j] = F[i][j]

Here(P, F, m, c) ==
  /\ m \in 1 .. sent + 1 /\ c \in Nat /\ P[m] = -c
  /\ m <= sent => c < Len(F[m])

TypeInv ==
  /\ port \in {"serial", "usb"} /\ at \in {"seek", "first", "locked", "step", "dead"}
  /\ line \in Seq(Cell) /\ sent \in Nat /\ out \in Seq(Nat)
  /\ noise \in Nat /\ plain \in BOOLEAN /\ lengthOk \in BOOLEAN

LEMMA Peek ==
  ASSUME TypeInv, NEW P, NEW F, Layout(P, F), NEW m, NEW c, Here(P, F, m, c), m <= sent,
         NEW q \in Nat, q >= 1, c + q <= Len(F[m])
  PROVE  q <= Len(line) /\ line[q] = F[m][c + q]
<1>1. m \in 1 .. sent /\ c \in Nat /\ P[m] = -c /\ F[m] \in Seq(Cell) /\ Len(F[m]) \in Nat
      /\ sent \in Nat
  BY DEF Here, Layout, TypeInv
<1>2. c + q \in 1 .. Len(F[m]) /\ P[m] + (c + q) = q
  BY <1>1
<1>3. line[q] = F[m][c + q]
  BY <1>1, <1>2 DEF Layout
<1>4. P[m + 1] = P[m] + Len(F[m]) /\ P[m + 1] <= P[sent + 1] /\ P[sent + 1] = Len(line) /\ Len(line) \in Nat
  <2>1. m + 1 \in 1 .. sent + 1 /\ sent + 1 \in 1 .. sent + 1 /\ m + 1 <= sent + 1  BY <1>1 DEF TypeInv
  <2>2. QED  BY <1>1, <2>1 DEF Layout, TypeInv
<1>5. q <= Len(line)
  <2> DEFINE p == P[m + 1]
             l == Len(F[m])
             s == Len(line)
  <2>1. p = -c + l /\ p <= s /\ s \in Nat /\ l \in Nat /\ c \in Nat /\ c + q <= l  BY <1>1, <1>4
  <2> HIDE DEF p, l, s
  <2>2. q <= s  BY <2>1
  <2>3. QED  BY <2>2 DEF s
<1>6. QED  BY <1>3, <1>5

\* Place q on the line is place d of the next frame.
InNext(F, m, c, q, m2, d) ==
  /\ m2 = m + 1 /\ m2 <= sent
  /\ q \in Nat /\ c + q > Len(F[m]) /\ c + q <= Len(F[m]) + Len(F[m2])
  /\ d = c + q - Len(F[m])

LEMMA Past ==
  ASSUME TypeInv, NEW P, NEW F, Layout(P, F), NEW m, NEW c, Here(P, F, m, c),
         NEW q, NEW m2, NEW d, InNext(F, m, c, q, m2, d)
  PROVE  line[q] = F[m2][d]
<1>0. /\ m2 = m + 1 /\ m2 <= sent
      /\ q \in Nat /\ c + q > Len(F[m]) /\ c + q <= Len(F[m]) + Len(F[m2])
      /\ d = c + q - Len(F[m])
  BY DEF InNext
<1>1. /\ m \in 1 .. sent /\ m2 \in 1 .. sent /\ c \in Nat /\ P[m] = -c
      /\ F[m] \in Seq(Cell) /\ F[m2] \in Seq(Cell)
      /\ c < Len(F[m]) /\ sent \in Nat
  <2>1. m \in 1 .. sent /\ m2 \in 1 .. sent  BY <1>0 DEF Here, TypeInv
  <2>2. QED  BY <2>1 DEF Here, Layout, TypeInv
<1> DEFINE p == P[m2]
           x == F[m]
           y == F[m2]
           l == Len(x)
           k == Len(y)
<1>2. l \in Nat /\ k \in Nat
  <2> HIDE DEF x, y
  <2>1. x \in Seq(Cell) /\ y \in Seq(Cell)  BY <1>1 DEF x, y
  <2>2. QED  BY ONLY <2>1
<1>3. p = l - c
  BY <1>0, <1>1 DEF Layout
<1>4. d \in 1 .. k /\ p + d = q /\ q >= 1
  <2>1. c \in Nat /\ c < l /\ c + q > l /\ c + q <= l + k /\ d = c + q - l
    BY <1>0, <1>1
  <2> HIDE DEF p, l, k
  <2>2. QED  BY <1>0, <1>2, <1>3, <2>1
<1>5. P[m2] + d >= 1 => line[P[m2] + d] = F[m2][d]
  BY <1>1, <1>4 DEF Layout
<1>6. QED  BY <1>4, <1>5

LEMMA More ==
  ASSUME TypeInv, NEW P, NEW F, Layout(P, F), NEW m, NEW c, Here(P, F, m, c),
         NEW q \in Nat, q >= 1, Len(line) >= q
  PROVE  m <= sent /\ (c + q > Len(F[m]) => m + 1 <= sent)
<1>1. m \in 1 .. sent + 1 /\ c \in Nat /\ P[m] = -c /\ Len(line) \in Nat /\ sent \in Nat
  BY DEF Here, TypeInv
<1>2. m <= sent
  <2>1. m = sent + 1 => Len(line) = -c  BY <1>1 DEF Layout
  <2>2. QED  BY <1>1, <2>1
<1>3. m + 1 = sent + 1 => Len(line) = -c + Len(F[m])
  BY <1>1, <1>2 DEF Layout
<1>4. m \in 1 .. sent /\ Len(F[m]) \in Nat
  BY <1>1, <1>2 DEF Layout
<1>5. ASSUME c + q > Len(F[m]) PROVE m + 1 <= sent
  <2>1. m + 1 # sent + 1
    <3> DEFINE l == Len(F[m])
               s == Len(line)
    <3>1. c \in Nat /\ l \in Nat /\ s \in Nat /\ s >= q /\ c + q > l /\ (m + 1 = sent + 1 => s = -c + l)
      BY <1>1, <1>3, <1>4, <1>5
    <3> HIDE DEF l, s
    <3>2. QED  BY <3>1
  <2>2. QED  BY <1>1, <1>2, <2>1
<1>6. QED  BY <1>2, <1>5

LEMMA Consume ==
  ASSUME TypeInv, NEW P, NEW F, Layout(P, F), NEW m, NEW c, Here(P, F, m, c),
         NEW r \in Nat, Read(r), sent' = sent,
         NEW m2, NEW c2 \in Nat,
         (m2 = m /\ c2 = c + r) \/ (m2 = m + 1 /\ m <= sent /\ c2 = c + r - Len(F[m])),
         m2 <= sent => c2 < Len(F[m2])
  PROVE  \E Q : Layout(Q, F)' /\ Here(Q, F, m2, c2)'
<1>0. PICK Q : Q = [i \in 1 .. sent + 1 |-> P[i] - r]
  OBVIOUS
<1>1. /\ sent \in Nat /\ line \in Seq(Cell) /\ Len(line) \in Nat /\ r <= Len(line)
      /\ line' = SubSeq(line, r + 1, Len(line))
      /\ P \in [1 .. sent + 1 -> Int] /\ F \in [1 .. sent -> Seq(Cell)]
  BY DEF TypeInv, Layout, Read
<1>2. Len(line') = Len(line) - r /\ \A q \in 1 .. Len(line) - r : line'[q] = line[r + q]
  <2>1. Len(line') = Len(line) - r  BY <1>1
  <2>2. \A q \in 1 .. Len(line) - r : line'[q] = line[(r + 1) + q - 1]  BY <1>1
  <2>3. QED  BY <1>1, <2>1, <2>2
<1>3. /\ Q \in [1 .. sent + 1 -> Int] /\ Q[sent + 1] = Len(line')
      /\ \A i \in 1 .. sent : Q[i + 1] = Q[i] + Len(F[i])
      /\ \A i, j \in 1 .. sent + 1 : i <= j => Q[i] <= Q[j]
      /\ \A i \in 1 .. sent + 1 : Q[i] = P[i] - r
  <2>1. \A i \in 1 .. sent + 1 : Q[i] = P[i] - r /\ P[i] \in Int /\ Q[i] \in Int  BY <1>0, <1>1
  <2>2. Q \in [1 .. sent + 1 -> Int]  BY <1>0, <2>1
  <2>3. \A i \in 1 .. sent : i \in 1 .. sent + 1 /\ i + 1 \in 1 .. sent + 1 /\ Len(F[i]) \in Nat  BY <1>1
  <2>4. sent + 1 \in 1 .. sent + 1  BY <1>1
  <2>5. Q[sent + 1] = Len(line')  BY <1>2, <2>1, <2>4 DEF Layout
  <2>6. ASSUME NEW i \in 1 .. sent PROVE Q[i + 1] = Q[i] + Len(F[i])
    <3>1. P[i + 1] = P[i] + Len(F[i])  BY DEF Layout
    <3>2. i + 1 \in 1 .. sent + 1 /\ i \in 1 .. sent + 1 /\ Len(F[i]) \in Nat  BY <2>3
    <3>3. Q[i + 1] = P[i + 1] - r /\ Q[i] = P[i] - r /\ P[i] \in Int  BY <2>1, <3>2
    <3> DEFINE l == Len(F[i])
               p == P[i]
    <3>4. Q[i + 1] = (p + l) - r /\ Q[i] = p - r /\ p \in Int /\ l \in Nat  BY <3>1, <3>2, <3>3
    <3> HIDE DEF l, p
    <3>5. Q[i + 1] = Q[i] + l  BY <3>4
    <3>6. QED  BY <3>5 DEF l
  <2>7. ASSUME NEW i \in 1 .. sent + 1, NEW j \in 1 .. sent + 1, i <= j PROVE Q[i] <= Q[j]
    <3>1. P[i] <= P[j]  BY <2>7 DEF Layout
    <3>2. QED  BY <1>1, <2>1, <3>1
  <2>8. QED  BY <2>1, <2>2, <2>5, <2>6, <2>7
<1>4. ASSUME NEW i \in 1 .. sent, NEW j \in 1 .. Len(F[i]), Q[i] + j >= 1
      PROVE  line'[Q[i] + j] = F[i][j]
  <2>1. i \in 1 .. sent + 1 /\ i + 1 \in 1 .. sent + 1 /\ sent + 1 \in 1 .. sent + 1 /\ i + 1 <= sent + 1
        /\ Len(F[i]) \in Nat /\ P[i] \in Int /\ Q[i] \in Int
    BY <1>1, <1>3
  <2>2. P[i] + j >= 1 /\ Q[i] = P[i] - r
    <3>1. Q[i] = P[i] - r  BY <1>3, <2>1
    <3> DEFINE q == Q[i]
               p == P[i]
    <3>2. q = p - r /\ p \in Int /\ q + j >= 1 /\ j \in Int  BY <1>4, <2>1, <3>1
    <3> HIDE DEF q, p
    <3>3. p + j >= 1  BY <3>2
    <3>4. QED  BY <3>1, <3>3 DEF p
  <2>3. line[P[i] + j] = F[i][j]  BY <2>2 DEF Layout
  <2>4. Q[i] + Len(F[i]) = Q[i + 1] /\ Q[i + 1] <= Q[sent + 1] /\ Q[sent + 1] = Len(line) - r
    BY <1>2, <1>3, <2>1
  <2>5. Q[i] + j \in 1 .. Len(line) - r /\ r + (Q[i] + j) = P[i] + j
    <3> DEFINE l == Len(F[i])
               p == P[i]
               o == Q[i]
               s == Len(line)
    <3>1. /\ l \in Nat /\ p \in Int /\ o \in Int /\ s \in Nat /\ o = p - r /\ j \in 1 .. l
          /\ o + l <= s - r /\ o + j >= 1
      BY <1>1, <1>4, <2>1, <2>2, <2>4
    <3> HIDE DEF l, p, o, s
    <3>2. o + j \in 1 .. s - r /\ r + (o + j) = p + j  BY <3>1
    <3>3. QED  BY <3>2 DEF p, o, s
  <2>6. QED  BY <1>2, <2>3, <2>5
<1>5. Layout(Q, F)'
  <2>1. sent' = sent  OBVIOUS
  <2>2. \A i \in 1 .. sent : \A j \in 1 .. Len(F[i]) : Q[i] + j >= 1 => line'[Q[i] + j] = F[i][j]
    BY <1>4
  <2>3. F \in [1 .. sent -> Seq(Cell)]  BY <1>1
  <2>4. QED  BY ONLY <1>3, <2>1, <2>2, <2>3 DEF Layout
<1>6. m \in 1 .. sent + 1 /\ c \in Nat /\ P[m] = -c /\ Q[m] = P[m] - r
  BY <1>3 DEF Here
<1>7. CASE m2 = m /\ c2 = c + r
  BY <1>1, <1>5, <1>6, <1>7 DEF Here
<1>8. CASE m2 = m + 1 /\ m <= sent /\ c2 = c + r - Len(F[m])
  <2>1. m \in 1 .. sent /\ Len(F[m]) \in Nat /\ m2 \in 1 .. sent + 1  BY <1>1, <1>6, <1>8
  <2>2. Q[m2] = Q[m] + Len(F[m])  BY <1>3, <1>8, <2>1
  <2>3. Q[m2] = -c2
    <3> DEFINE l == Len(F[m])
    <3>1. l \in Nat /\ Q[m2] = (-c - r) + l /\ c2 = c + r - l  BY <1>6, <1>8, <2>1, <2>2
    <3> HIDE DEF l
    <3>2. c \in Nat /\ r \in Nat /\ c2 \in Nat /\ l \in Nat /\ c2 = c + r - l  BY <1>6, <3>1
    <3>4. -c2 = (-c - r) + l  BY ONLY <3>2
    <3>3. QED  BY <3>1, <3>4
  <2>4. Here(Q, F, m2, c2)'  BY <1>1, <2>1, <2>3 DEF Here
  <2>5. QED  BY <1>5, <2>4
<1>9. QED  BY <1>7, <1>8

LEMMA Extend ==
  ASSUME TypeInv, NEW P, NEW F, Layout(P, F), NEW m, NEW c, Here(P, F, m, c),
         NEW x \in Seq(Cell), Len(x) >= 1, line' = line \o x, sent' = sent + 1,
         NEW G, G = [i \in 1 .. sent + 1 |-> IF i = sent + 1 THEN x ELSE F[i]]
  PROVE  \E Q : Layout(Q, G)' /\ Here(Q, G, m, c)'
<1>0. PICK Q : Q = [i \in 1 .. sent + 2 |-> IF i = sent + 2 THEN Len(line) + Len(x) ELSE P[i]]
  OBVIOUS
<1>1. /\ sent \in Nat /\ line \in Seq(Cell) /\ Len(line) \in Nat /\ Len(x) \in Nat
      /\ P \in [1 .. sent + 1 -> Int] /\ F \in [1 .. sent -> Seq(Cell)]
      /\ P[sent + 1] = Len(line)
  BY DEF TypeInv, Layout
<1>2. /\ line' \in Seq(Cell) /\ Len(line') = Len(line) + Len(x)
      /\ \A q \in 1 .. Len(line) : line'[q] = line[q]
      /\ \A q \in 1 .. Len(x) : line'[Len(line) + q] = x[q]
  <2>1. line \in Seq(Cell) /\ x \in Seq(Cell)  BY <1>1
  <2>2. /\ line \o x \in Seq(Cell) /\ Len(line \o x) = Len(line) + Len(x)
        /\ \A q \in 1 .. Len(line) : (line \o x)[q] = line[q]
        /\ \A q \in 1 .. Len(x) : (line \o x)[Len(line) + q] = x[q]
    BY ONLY <2>1, Joined
  <2>3. QED  BY <2>2
<1>3. /\ \A i \in 1 .. sent + 1 : Q[i] = P[i] /\ Q[i] \in Int
      /\ Q[sent + 2] = Len(line) + Len(x)
      /\ Q \in [1 .. sent + 2 -> Int]
  BY <1>0, <1>1
<1>4. /\ \A i \in 1 .. sent : G[i] = F[i]
      /\ G[sent + 1] = x
      /\ G \in [1 .. sent + 1 -> Seq(Cell)]
  BY <1>1
<1>5. ASSUME NEW i \in 1 .. sent + 1 PROVE Q[i + 1] = Q[i] + Len(G[i])
  <2>1. CASE i = sent + 1
    <3>1. i + 1 = sent + 2 /\ i \in 1 .. sent + 1  BY <1>1, <2>1
    <3>2. QED  BY <1>1, <1>3, <1>4, <2>1, <3>1
  <2>2. CASE i # sent + 1
    <3>1. i \in 1 .. sent /\ i \in 1 .. sent + 1 /\ i + 1 \in 1 .. sent + 1  BY <1>1, <2>2
    <3>2. P[i + 1] = P[i] + Len(F[i])  BY <3>1 DEF Layout
    <3>3. Q[i + 1] = P[i + 1] /\ Q[i] = P[i] /\ G[i] = F[i]  BY <1>3, <1>4, <3>1
    <3>4. QED  BY <3>2, <3>3
  <2>3. QED  BY <2>1, <2>2
<1>6. ASSUME NEW i \in 1 .. sent + 2, NEW j \in 1 .. sent + 2, i <= j PROVE Q[i] <= Q[j]
  <2>1. CASE j # sent + 2
    <3>1. i \in 1 .. sent + 1 /\ j \in 1 .. sent + 1  BY <1>1, <1>6, <2>1
    <3>2. P[i] <= P[j]  BY <1>6, <3>1 DEF Layout
    <3>3. QED  BY <1>3, <3>1, <3>2
  <2>2. CASE j = sent + 2 /\ i # sent + 2
    <3>1. i \in 1 .. sent + 1 /\ sent + 1 \in 1 .. sent + 1 /\ i <= sent + 1  BY <1>1, <2>2
    <3>2. P[i] <= P[sent + 1]  BY <3>1 DEF Layout
    <3>3. QED  BY <1>1, <1>3, <2>2, <3>1, <3>2
  <2>3. CASE j = sent + 2 /\ i = sent + 2
    BY <1>1, <1>3, <2>3
  <2>4. QED  BY <2>1, <2>2, <2>3
<1>7. ASSUME NEW i \in 1 .. sent + 1, NEW j \in 1 .. Len(G[i]), Q[i] + j >= 1
      PROVE  line'[Q[i] + j] = G[i][j]
  <2>1. CASE i = sent + 1
    BY <1>1, <1>2, <1>3, <1>4, <2>1
  <2>2. CASE i # sent + 1
    <3>1. i \in 1 .. sent /\ i \in 1 .. sent + 1 /\ i + 1 \in 1 .. sent + 1 /\ sent + 1 \in 1 .. sent + 1 /\ i + 1 <= sent + 1
          /\ G[i] = F[i] /\ Len(F[i]) \in Nat /\ Q[i] = P[i] /\ P[i] \in Int
      BY <1>1, <1>3, <1>4, <2>2
    <3>2. line[P[i] + j] = F[i][j]  BY <1>7, <3>1 DEF Layout
    <3>3. P[i] + Len(F[i]) = P[i + 1] /\ P[i + 1] <= P[sent + 1]  BY <3>1 DEF Layout
    <3>4. P[i] + j \in 1 .. Len(line)
      <4> DEFINE l == Len(F[i])
                 p == P[i]
                 s == Len(line)
      <4>1. l \in Nat /\ p \in Int /\ s \in Nat /\ j \in 1 .. l /\ p + l <= s /\ p + j >= 1
        BY <1>1, <1>7, <3>1, <3>3
      <4> HIDE DEF l, p, s
      <4>2. p + j \in 1 .. s  BY <4>1
      <4>3. QED  BY <4>2 DEF p, s
    <3>5. QED  BY <1>2, <3>1, <3>2, <3>4
  <2>3. QED  BY <2>1, <2>2
<1>8. sent + 1 = sent' /\ sent + 2 = sent' + 1  BY <1>1
<1>9. Layout(Q, G)'
  <2>1. /\ Q \in [1 .. sent + 2 -> Int] /\ G \in [1 .. sent + 1 -> Seq(Cell)]
        /\ Q[sent + 2] = Len(line')
        /\ \A i \in 1 .. sent + 1 : Q[i + 1] = Q[i] + Len(G[i])
        /\ \A i, j \in 1 .. sent + 2 : i <= j => Q[i] <= Q[j]
        /\ \A i \in 1 .. sent + 1 : \A j \in 1 .. Len(G[i]) : Q[i] + j >= 1 => line'[Q[i] + j] = G[i][j]
    BY <1>2, <1>3, <1>4, <1>5, <1>6, <1>7
  <2>2. QED  BY ONLY <1>8, <2>1 DEF Layout
<1>10. Here(Q, G, m, c)'
  <2>1. m \in 1 .. sent + 1 /\ c \in Nat /\ P[m] = -c /\ (m <= sent => c < Len(F[m]))  BY DEF Here
  <2>2. m = sent + 1 => c = 0
    <3> DEFINE s == Len(line)
    <3>1. m = sent + 1 => s = -c  BY <1>1, <2>1
    <3>2. s \in Nat  BY <1>1
    <3> HIDE DEF s
    <3>3. QED  BY <2>1, <3>1, <3>2
  <2>3. m \in 1 .. sent' + 1 /\ Q[m] = -c  BY <1>1, <1>3, <1>8, <2>1
  <2>4. m <= sent' => c < Len(G[m])  BY <1>1, <1>4, <2>1, <2>2
  <2>5. QED  BY ONLY <2>1, <2>3, <2>4 DEF Here
<1>11. QED  BY <1>9, <1>10

-----------------------------------------------------------------------------
(* What a reader takes from the line.                                      *)

LEMMA HeaderIs ==
  ASSUME TypeInv, at \in {"locked", "step"}, Len(line) >= HeadSize
  PROVE  /\ Header \in Seq(Nat) /\ Len(Header) = 4 /\ LengthOf(Header) \in Nat
         /\ HeadSize \in {2, 4} /\ (at = "locked" <=> HeadSize = 2)
         /\ at = "locked" => /\ Header[1] = Start[1] /\ Header[2] = Start[2]
                             /\ Header[3] = line[1].b /\ Header[4] = line[2].b
         /\ at = "step" => \A j \in 1 .. 4 : Header[j] = line[j].b
         /\ IsStart(Header) <=> Header[1] = Start[1] /\ Header[2] = Start[2]
<1>1. line \in Seq(Cell) /\ Len(line) \in Nat /\ \A q \in 1 .. Len(line) : line[q].b \in Nat
  <2>1. line \in Seq(Cell) /\ Len(line) \in Nat  BY DEF TypeInv
  <2>2. \A q \in 1 .. Len(line) : line[q] \in Cell  BY <2>1
  <2>3. QED  BY <2>1, <2>2 DEF Cell
<1>2. ASSUME NEW h \in Seq(Nat), Len(h) = 4
      PROVE  /\ LengthOf(h) \in Nat
             /\ IsStart(h) <=> h[1] = Start[1] /\ h[2] = Start[2]
  <2>10. h \in Seq(Nat) /\ Len(h) = 4  BY <1>2
  <2>11. \A j \in 1 .. Len(h) : h[j] \in Nat  BY <2>10, ElementOfSeq
  <2>0. \A j \in 1 .. 4 : h[j] \in Nat  BY <2>10, <2>11
  <2>1. h[1] \in Nat /\ h[2] \in Nat /\ h[3] \in Nat /\ h[4] \in Nat  BY ONLY <2>0
  <2>2. Base \in Nat  BY FramingAssumption
  <2>3. LengthOf(h) \in Nat
    <3> DEFINE p == h[3]
               q == h[4]
    <3>1. p \in Nat /\ q \in Nat  BY <2>1
    <3> HIDE DEF p, q
    <3>2. p + Base * q \in Nat  BY ONLY <2>2, <3>1
    <3>3. QED  BY <3>2 DEF LengthOf, p, q
  <2>4. SubSeq(h, 1, 2) = << h[1], h[2] >>
    <3>1. SubSeq(h, 1, 2) = [i \in 1 .. 2 |-> h[i]]  BY ONLY <2>10
    <3>2. << h[1], h[2] >> = [i \in 1 .. 2 |-> h[i]]  OBVIOUS
    <3>3. QED  BY <3>1, <3>2
  <2>5. IsStart(h) <=> << h[1], h[2] >> = << Start[1], Start[2] >>
    BY <2>4, StartIs DEF IsStart
  <2>6. QED  BY <2>3, <2>5
<1>3. CASE at = "locked"
  <2>1. HeadSize = 2 /\ Len(line) >= 2  BY <1>3 DEF HeadSize
  <2>2. Bytes(2) \in Seq(Nat) /\ Len(Bytes(2)) = 2 /\ Bytes(2)[1] = line[1].b /\ Bytes(2)[2] = line[2].b
    <3>1. \A q \in 1 .. 2 : line[q].b \in Nat  BY <1>1, <2>1
    <3>2. QED  BY <3>1 DEF Bytes
  <2>3. Header = Start \o Bytes(2)  BY <1>3 DEF Header
  <2> DEFINE h == Bytes(2)
  <2> HIDE DEF h
  <2>4. Start \in Seq(Nat) /\ h \in Seq(Nat)  BY <2>2, StartIs DEF h
  <2>5. /\ Start \o h \in Seq(Nat) /\ Len(Start \o h) = Len(Start) + Len(h)
        /\ \A i \in 1 .. Len(Start) : (Start \o h)[i] = Start[i]
        /\ \A i \in 1 .. Len(h) : (Start \o h)[Len(Start) + i] = h[i]
    BY ONLY <2>4, Joined
  <2>6. Header = Start \o h  BY <2>3 DEF h
  <2>7. Len(Start) = 2 /\ Len(h) = 2 /\ h[1] = line[1].b /\ h[2] = line[2].b  BY <2>2, StartIs DEF h
  <2>8. /\ Header \in Seq(Nat) /\ Len(Header) = 4 /\ Header[1] = Start[1] /\ Header[2] = Start[2]
        /\ Header[2 + 1] = line[1].b /\ Header[2 + 2] = line[2].b
    BY <2>5, <2>6, <2>7
  <2>9. QED  BY <1>2, <1>3, <2>1, <2>8
<1>4. CASE at = "step"
  <2>1. HeadSize = 4 /\ Len(line) >= 4 /\ Header = Bytes(4)  BY <1>4 DEF HeadSize, Header
  <2>2. \A q \in 1 .. 4 : line[q].b \in Nat  BY <1>1, <2>1
  <2>3. /\ Header \in Seq(Nat) /\ Len(Header) = 4
        /\ \A j \in 1 .. 4 : Header[j] = line[j].b
    BY <2>1, <2>2 DEF Bytes
  <2>4. QED  BY <1>2, <1>4, <2>1, <2>3
<1>5. QED  BY <1>3, <1>4

\* The bytes that the sum is of.
All(rest) == Header \o SubSeq(Bytes(rest), HeadSize + 1, rest)

LEMMA AllIs ==
  ASSUME TypeInv, at \in {"locked", "step"}, Len(line) >= HeadSize,
         NEW rest \in Nat, rest >= HeadSize, Len(line) >= rest
  PROVE  /\ All(rest) \in Seq(Nat) /\ Len(All(rest)) = 4 + rest - HeadSize
         /\ \A j \in 1 .. 4 : All(rest)[j] = Header[j]
         /\ \A j \in HeadSize + 1 .. rest : All(rest)[4 + j - HeadSize] = line[j].b
<1> DEFINE y == Bytes(rest)
           z == SubSeq(y, HeadSize + 1, rest)
           h == HeadSize
<1>1. Header \in Seq(Nat) /\ Len(Header) = 4 /\ h \in Nat
  BY HeaderIs
<1>2. y \in Seq(Nat) /\ Len(y) = rest /\ \A j \in 1 .. rest : y[j] = line[j].b
  <2>1. line \in Seq(Cell) /\ \A q \in 1 .. rest : line[q] \in Cell  BY DEF TypeInv
  <2>2. \A q \in 1 .. rest : line[q].b \in Nat  BY <2>1 DEF Cell
  <2>3. QED  BY <2>2 DEF Bytes
<1>0. rest >= h  OBVIOUS
<1> HIDE DEF y, h
<1>3. z \in Seq(Nat) /\ Len(z) = rest - h /\ \A j \in 1 .. rest - h : z[j] = y[(h + 1) + j - 1]
  <2>1. PICK f : f = h + 1  OBVIOUS
  <2>2. z = SubSeq(y, f, rest)  BY <2>1 DEF h
  <2>3. y \in Seq(Nat) /\ f \in 1 .. Len(y) + 1 /\ rest \in f - 1 .. Len(y)
    <3>1. f \in 1 .. rest + 1 /\ rest \in f - 1 .. rest  BY <1>0, <1>1, <2>1
    <3>2. QED  BY <1>2, <3>1
  <2>4. /\ SubSeq(y, f, rest) \in Seq(Nat) /\ Len(SubSeq(y, f, rest)) = rest - f + 1
        /\ \A i \in 1 .. rest - f + 1 : SubSeq(y, f, rest)[i] = y[f + i - 1]
    BY ONLY <2>3, SubSeqProperties
  <2>5. rest - f + 1 = rest - h  BY <1>1, <2>1
  <2>6. QED  BY <2>1, <2>2, <2>4, <2>5
<1> HIDE DEF z
<1>4. Header \in Seq(Nat) /\ z \in Seq(Nat)  BY <1>1, <1>3
<1>5. /\ Header \o z \in Seq(Nat) /\ Len(Header \o z) = Len(Header) + Len(z)
      /\ \A i \in 1 .. Len(Header) : (Header \o z)[i] = Header[i]
      /\ \A i \in 1 .. Len(z) : (Header \o z)[Len(Header) + i] = z[i]
  BY ONLY <1>4, Joined
<1>6. All(rest) = Header \o z  BY DEF All, z, y
<1> DEFINE a == Header \o z
<1> HIDE DEF a
<1>7. ASSUME NEW j \in h + 1 .. rest PROVE a[4 + j - h] = line[j].b
  <2>1. j - h \in 1 .. rest - h /\ (h + 1) + (j - h) - 1 = j /\ j \in 1 .. rest /\ 4 + (j - h) = 4 + j - h  BY <1>0, <1>1
  <2>2. a[4 + (j - h)] = z[j - h]  BY <1>1, <1>3, <1>5, <2>1 DEF a
  <2>3. z[j - h] = y[j]  BY <1>3, <2>1
  <2>4. QED  BY <1>2, <2>1, <2>2, <2>3
<1>8. a \in Seq(Nat) /\ Len(a) = 4 + rest - h /\ \A j \in 1 .. 4 : a[j] = Header[j]
  BY <1>0, <1>1, <1>3, <1>5 DEF a
<1>9. QED  BY <1>6, <1>7, <1>8 DEF a, h

\* If the bytes are those of a frame as it was sent, the sum is right.
LEMMA Good ==
  ASSUME NEW e, Framed(e), NEW a \in Seq(Nat), Len(a) = Len(e), \A j \in 1 .. Len(e) : a[j] = e[j]
  PROVE  SumOf(Front(a)) = Last(a)
<1>1. a = [j \in 1 .. Len(e) |-> a[j]] /\ e = [j \in 1 .. Len(e) |-> e[j]]
  BY DEF Framed
<1>2. a = e
  BY <1>1
<1>3. QED  BY <1>2 DEF Framed

LEMMA WhichIs ==
  ASSUME TypeInv, NEW r \in Nat, r >= 1, Len(line) >= r
  PROVE  /\ Which(SubSeq(line, 1, r)) \in Nat
         /\ ~ line[r].last => Which(SubSeq(line, 1, r)) = 0
         /\ (\E q \in 1 .. r : line[q].of = 0) => Which(SubSeq(line, 1, r)) = 0
         /\ \A i \in Nat : \A o \in Nat :
              line[r].last /\ (\A q \in 1 .. r : line[q].of = i /\ line[q].place = o + q)
                => Which(SubSeq(line, 1, r)) = i
<1> DEFINE y == SubSeq(line, 1, r)
<1>1. y \in Seq(Cell) /\ Len(y) = r /\ DOMAIN y = 1 .. r /\ \A q \in 1 .. r : y[q] = line[q]
  BY DEF TypeInv
<1>2. r \in 1 .. r  OBVIOUS
<1> HIDE DEF y
<1>3. Which(y) = IF line[r].last /\ \A k \in 1 .. r : line[k].of = line[r].of /\ line[k].place = line[r].place - (r - k)
                   THEN line[r].of ELSE 0
  BY <1>1, <1>2 DEF Which, False
<1>4. \A q \in 1 .. r : line[q].of \in Nat /\ line[q].place \in Nat
  <2>1. \A q \in 1 .. r : y[q] \in Cell  BY <1>1
  <2>2. QED  BY <1>1, <2>1 DEF Cell
<1>5. ASSUME NEW i \in Nat, NEW o \in Nat, line[r].last, \A q \in 1 .. r : line[q].of = i /\ line[q].place = o + q
      PROVE  Which(y) = i
  <2>1. line[r].of = i /\ line[r].place = o + r  BY <1>2, <1>5
  <2>2. \A k \in 1 .. r : line[k].of = line[r].of /\ line[k].place = line[r].place - (r - k)
    BY <1>5, <2>1
  <2>3. QED  BY <1>3, <1>5, <2>1, <2>2
<1>6. ASSUME \E q \in 1 .. r : line[q].of = 0 PROVE Which(y) = 0
  BY <1>2, <1>3, <1>6
<1>7. Which(y) \in Nat  BY <1>2, <1>3, <1>4
<1>8. ~ line[r].last => Which(y) = 0  BY <1>3
<1>9. QED  BY <1>5, <1>6, <1>7, <1>8 DEF y

-----------------------------------------------------------------------------
(* The invariant.  Frame n is the one that noise has touched, if any.      *)

None == \A i \in DOMAIN out : out[i] # 0

\* What Recovers asks for.
Tame == noise <= 1 /\ (noise = 1 => plain /\ lengthOk /\ (port = "usb" => None))

Frames(F, n) ==
  \A i \in 1 .. sent : \E e :
    /\ Framed(e) /\ (plain => NoStart(e))
    /\ IF i = n THEN Hurt(F[i], e, i) ELSE Sound(F[i], e, i)

\* The frames before m were passed on, but for n and the one after it.
Outs(m, n) ==
  /\ \A i \in 1 .. m - 1 : i \in {n, n + 1} \/ \E j \in DOMAIN out : out[j] = i
  /\ \A i, j \in DOMAIN out : out[i] = 0 /\ out[j] = 0 => i = j
  /\ noise = 0 => n = -1 /\ Len(out) = m - 1 /\ \A i \in DOMAIN out : out[i] = i
  /\ noise # 0 => n \in 1 .. sent

\* The thread is at the start of frame m, or has found its start bytes.
Sync(F, m, c, n) ==
  /\ m <= n => None
  /\ \/ at \in {"seek", "step"} /\ c = 0
     \/ at = "first" /\ c = 1 /\ m <= sent /\ F[m][1].b = Start[1]
     \/ at = "locked" /\ c = 2 /\ m <= sent /\ Marked(F[m])

\* It is one byte behind, as there was one too many before the frame.
Shifted(F, m, c, n) ==
  /\ None /\ noise # 0 /\ m = n /\ m <= sent
  /\ (at = "seek" /\ c = 1) \/ (at = "first" /\ c = 2) \/ (at = "locked" /\ c = 3)
  /\ \E e : Framed(e) /\ Slipped(F[m], e, m)

\* It has lost frame m, and finds no start byte before the next; or it believes itself in
\* step, and will find out with the next header.
Lag(F, m, c, n) ==
  /\ noise # 0 /\ m \in {n, n + 1} /\ m <= sent /\ c >= 1 /\ Quiet(F[m], c)
  /\ \/ at = "seek"
     \/ /\ at = "step" /\ port = "serial"
        /\ m = n => c + 1 = Len(F[m])
        /\ m = n + 1 => c + 4 <= Len(F[m])

State(P, F, m, c, n) ==
  /\ Layout(P, F) /\ Here(P, F, m, c) /\ Frames(F, n) /\ Outs(m, n)
  /\ Sync(F, m, c, n) \/ Shifted(F, m, c, n) \/ Lag(F, m, c, n)

IInv == TypeInv /\ (Tame => \E P, F, m, c, n : State(P, F, m, c, n))

LEMMA FrameIs ==
  ASSUME TypeInv, Tame, NEW F, NEW n, Frames(F, n), NEW m, Outs(m, n), NEW i \in 1 .. sent
  PROVE  /\ i = n => noise # 0 /\ \E e : Framed(e) /\ Hurt(F[i], e, i)
         /\ i # n => \E e : Framed(e) /\ Sound(F[i], e, i) /\ (noise # 0 => Quiet(F[i], 1))
         /\ F[i] \in Seq(Cell) /\ Len(F[i]) \in Nat /\ Len(F[i]) >= 4
<1>1. PICK e : /\ Framed(e) /\ (plain => NoStart(e))
               /\ IF i = n THEN Hurt(F[i], e, i) ELSE Sound(F[i], e, i)
  BY DEF Frames
<1>2. noise # 0 => plain
  BY DEF Tame, TypeInv
<1>3. i = n => noise # 0
  <2>1. i \in Nat /\ i # -1  BY DEF TypeInv
  <2>2. QED  BY <2>1 DEF Outs
<1>4. CASE i = n
  <2>1. Hurt(F[i], e, i)  BY <1>1, <1>4
  <2>2. F[i] \in Seq(Cell) /\ Len(F[i]) >= 4  BY <2>1 DEF Hurt
  <2> DEFINE x == F[i]
  <2>3. x \in Seq(Cell)  BY <2>2
  <2> HIDE DEF x
  <2>4. Len(x) \in Nat  BY ONLY <2>3
  <2>5. QED  BY <1>1, <1>3, <1>4, <2>1, <2>2, <2>4 DEF x
<1>5. CASE i # n
  <2>1. Sound(F[i], e, i) /\ i \in Nat  BY <1>1, <1>5 DEF TypeInv
  <2>2. F[i] \in Seq(Cell) /\ Len(F[i]) = Len(e) /\ Len(e) \in Nat /\ Len(e) >= 5 /\ (NoStart(e) => Quiet(F[i], 1))
    BY <2>1, SoundIs
  <2>3. QED  BY <1>1, <1>2, <1>5, <2>1, <2>2
<1>6. QED  BY <1>4, <1>5

\* Nothing is passed on: frame m is, if it has been read, one of the two.
LEMMA OutsKept ==
  ASSUME TypeInv, NEW m \in Nat, NEW n, Outs(m, n), UNCHANGED << out, noise, sent >>,
         NEW m2, m2 = m \/ (m2 = m + 1 /\ noise # 0 /\ m \in {n, n + 1})
  PROVE  Outs(m2, n)' /\ (None => None')
<1>1. None => None'  BY DEF None
<1>2. ASSUME NEW i \in 1 .. m2 - 1 PROVE i \in {n, n + 1} \/ \E j \in DOMAIN out : out[j] = i
  <2>1. i \in 1 .. m - 1 \/ (i = m /\ m \in {n, n + 1})  OBVIOUS
  <2>2. QED  BY <2>1 DEF Outs
<1>3. noise = 0 => m2 = m  OBVIOUS
<1>4. QED  BY <1>1, <1>2, <1>3 DEF Outs

LEMMA OutsGrow ==
  ASSUME TypeInv, NEW m \in Nat, m >= 1, NEW n, Outs(m, n), out' = Append(out, m), UNCHANGED << noise, sent >>
  PROVE  Outs(m + 1, n)' /\ (None => None')
<1>1. /\ out \in Seq(Nat) /\ Len(out) \in Nat /\ out' \in Seq(Nat) /\ Len(out') = Len(out) + 1
      /\ DOMAIN out = 1 .. Len(out) /\ DOMAIN out' = 1 .. Len(out) + 1
      /\ \A j \in 1 .. Len(out) : out'[j] = out[j]
      /\ out'[Len(out) + 1] = m
  BY DEF TypeInv
<1>2. None => None'
  BY <1>1 DEF None
<1>3. ASSUME NEW i \in 1 .. m PROVE i \in {n, n + 1} \/ \E j \in DOMAIN out' : out'[j] = i
  <2>1. CASE i = m
    <3>1. Len(out) + 1 \in DOMAIN out'  BY <1>1
    <3>2. QED  BY <1>1, <2>1, <3>1
  <2>2. CASE i # m
    <3>1. i \in 1 .. m - 1  BY <2>2
    <3>2. i \in {n, n + 1} \/ \E j \in DOMAIN out : out[j] = i  BY <3>1 DEF Outs
    <3>3. QED  BY <1>1, <3>2
  <2>3. QED  BY <2>1, <2>2
<1>4. ASSUME NEW i \in DOMAIN out', NEW j \in DOMAIN out', out'[i] = 0, out'[j] = 0 PROVE i = j
  <2>1. i \in DOMAIN out /\ j \in DOMAIN out /\ out[i] = 0 /\ out[j] = 0  BY <1>1, <1>4
  <2>2. QED  BY <2>1 DEF Outs
<1>5. ASSUME noise = 0 PROVE n = -1 /\ Len(out') = m /\ \A i \in DOMAIN out' : out'[i] = i
  <2>1. n = -1 /\ Len(out) = m - 1 /\ \A i \in DOMAIN out : out[i] = i  BY <1>5 DEF Outs
  <2>2. QED  BY <1>1, <2>1
<1>6. noise # 0 => n \in 1 .. sent  BY DEF Outs
<1>7. (m + 1) - 1 = m  OBVIOUS
<1>8. QED  BY <1>2, <1>3, <1>4, <1>5, <1>6, <1>7 DEF Outs

LEMMA OutsFalse ==
  ASSUME TypeInv, NEW m \in Nat, m >= 1, NEW n, Outs(m, n), None, noise # 0, m = n,
         out' = Append(out, 0), UNCHANGED << noise, sent >>,
         NEW m2 \in {m, m + 1}
  PROVE  Outs(m2, n)' /\ ~ None'
<1>1. /\ out \in Seq(Nat) /\ Len(out) \in Nat /\ out' \in Seq(Nat) /\ Len(out') = Len(out) + 1
      /\ DOMAIN out = 1 .. Len(out) /\ DOMAIN out' = 1 .. Len(out) + 1
      /\ \A j \in 1 .. Len(out) : out'[j] = out[j]
      /\ out'[Len(out) + 1] = 0
  BY DEF TypeInv
<1>2. ASSUME NEW i \in 1 .. m2 - 1 PROVE i \in {n, n + 1} \/ \E j \in DOMAIN out' : out'[j] = i
  <2>1. i = m \/ i \in 1 .. m - 1  OBVIOUS
  <2>2. i \in {n, n + 1} \/ \E j \in DOMAIN out : out[j] = i  BY <2>1 DEF Outs
  <2>3. QED  BY <1>1, <2>2
<1>3. ASSUME NEW i \in DOMAIN out', NEW j \in DOMAIN out', out'[i] = 0, out'[j] = 0 PROVE i = j
  <2>1. i = Len(out) + 1 /\ j = Len(out) + 1  BY <1>1, <1>3 DEF None
  <2>2. QED  BY <2>1
<1>4. Len(out) + 1 \in DOMAIN out'  BY <1>1
<1>5. noise # 0 => n \in 1 .. sent  BY DEF Outs
<1>6. ~ None'  BY <1>1, <1>4 DEF None
<1>7. QED  BY <1>2, <1>3, <1>5, <1>6 DEF Outs

\* One step of a reader.
LEMMA Onward ==
  ASSUME TypeInv, NEW P, NEW F, NEW m, NEW c, NEW n, State(P, F, m, c, n),
         NEW r \in Nat, Read(r), UNCHANGED << port, sent, plain >>,
         NEW m2, NEW c2 \in Nat,
         (m2 = m /\ c2 = c + r) \/ (m2 = m + 1 /\ m <= sent /\ c2 = c + r - Len(F[m])),
         m2 <= sent => c2 < Len(F[m2]),
         Outs(m2, n)',
         Sync(F, m2, c2, n)' \/ Shifted(F, m2, c2, n)' \/ Lag(F, m2, c2, n)'
  PROVE  \E P2, F2, m3, c3, n2 : State(P2, F2, m3, c3, n2)'
<1>1. Layout(P, F) /\ Here(P, F, m, c) /\ Frames(F, n)  BY DEF State
<1>2. PICK Q : Layout(Q, F)' /\ Here(Q, F, m2, c2)'
  <2>1. sent' = sent  OBVIOUS
  <2>2. QED  BY <1>1, <2>1, Consume
<1>3. Frames(F, n)'
  <2>1. ASSUME NEW x, NEW e, NEW i PROVE Hurt(x, e, i)' <=> Hurt(x, e, i)
    <3>1. Slipped(x, e, i)' <=> Slipped(x, e, i)  BY DEF Slipped
    <3>2. Quiet(x, 1)' <=> Quiet(x, 1)  BY DEF Quiet
    <3>3. QED  BY <3>1, <3>2 DEF Hurt, Quiet, Marked
  <2>2. ASSUME NEW x, NEW e, NEW i PROVE Sound(x, e, i)' <=> Sound(x, e, i)
    BY DEF Sound
  <2>3. ASSUME NEW i \in 1 .. sent
        PROVE  \E e : /\ Framed(e)' /\ (plain' => NoStart(e)')
                      /\ IF i = n THEN Hurt(F[i], e, i)' ELSE Sound(F[i], e, i)'
    <3>1. PICK e : /\ Framed(e) /\ (plain => NoStart(e))
                   /\ IF i = n THEN Hurt(F[i], e, i) ELSE Sound(F[i], e, i)
      BY <1>1 DEF Frames
    <3>2. Framed(e)' /\ (plain' => NoStart(e)')  BY <3>1 DEF Framed, NoStart
    <3>3. QED  BY <2>1, <2>2, <3>1, <3>2
  <2>4. sent' = sent  OBVIOUS
  <2>5. QED  BY <2>3, <2>4 DEF Frames
<1>4. State(Q, F, m2, c2, n)'
  BY <1>2, <1>3 DEF State
<1>5. QED  BY <1>4

LEMMA Within ==
  ASSUME TypeInv, NEW P, NEW F, NEW m, NEW c, NEW n, State(P, F, m, c, n),
         NEW r \in Nat, Read(r), UNCHANGED << port, sent, plain >>,
         NEW d \in Nat, d = c + r, m <= sent => d < Len(F[m]),
         Outs(m, n)',
         Sync(F, m, d, n)' \/ Shifted(F, m, d, n)' \/ Lag(F, m, d, n)'
  PROVE  \E P2, F2, m2, c2, n2 : State(P2, F2, m2, c2, n2)'
<1>1. PICK k : k = m  OBVIOUS
<1>2. /\ (k = m /\ d = c + r) \/ (k = m + 1 /\ m <= sent /\ d = c + r - Len(F[m]))
      /\ k <= sent => d < Len(F[k])
      /\ Outs(k, n)'
      /\ Sync(F, k, d, n)' \/ Shifted(F, k, d, n)' \/ Lag(F, k, d, n)'
  BY <1>1
<1>3. QED  BY <1>2, Onward

LEMMA FirstByte ==
  ASSUME TypeInv, Tame, NEW P, NEW F, NEW m, NEW c, NEW n, State(P, F, m, c, n), Len(line) >= 1
  PROVE  /\ sent \in Nat /\ m \in 1 .. sent /\ m \in Nat /\ m >= 1 /\ c \in Nat
         /\ F[m] \in Seq(Cell) /\ Len(F[m]) \in Nat /\ Len(F[m]) >= 4 /\ c < Len(F[m])
         /\ line[1] = F[m][c + 1]
<1>1. Layout(P, F) /\ Here(P, F, m, c) /\ Frames(F, n) /\ Outs(m, n)  BY DEF State
<1>2. sent \in Nat /\ m \in 1 .. sent + 1 /\ c \in Nat /\ (m <= sent => c < Len(F[m]))
  BY <1>1 DEF Here, TypeInv
<1>3. m <= sent
  <2>1. 1 \in Nat /\ 1 >= 1 /\ Len(line) >= 1  OBVIOUS
  <2>2. QED  BY <1>1, <2>1, More
<1>4. m \in 1 .. sent  BY <1>2, <1>3
<1>5. F[m] \in Seq(Cell) /\ Len(F[m]) \in Nat /\ Len(F[m]) >= 4
  BY <1>1, <1>4, FrameIs
<1>6. c + 1 <= Len(F[m])  BY <1>2, <1>3, <1>5
<1>7. line[1] = F[m][c + 1]
  <2>1. 1 \in Nat /\ 1 >= 1  OBVIOUS
  <2>2. QED  BY <1>1, <1>3, <1>6, <2>1, Peek
<1>8. QED  BY <1>2, <1>3, <1>4, <1>5, <1>7

LEMMA SeekStep ==
  ASSUME TypeInv, Tame, NEW P, NEW F, NEW m, NEW c, NEW n, State(P, F, m, c, n), Seek
  PROVE  \E P2, F2, m2, c2, n2 : State(P2, F2, m2, c2, n2)'
<1>1. /\ at = "seek" /\ Read(1) /\ at' = (IF line[1].b = Start[1] THEN "first" ELSE "seek")
      /\ UNCHANGED << port, sent, out, noise, plain, lengthOk >> /\ Len(line) >= 1
  BY DEF Seek, Read
<1> DEFINE x == F[m]
<1>2. /\ sent \in Nat /\ m \in 1 .. sent /\ m \in Nat /\ m >= 1 /\ c \in Nat
      /\ x \in Seq(Cell) /\ Len(x) \in Nat /\ Len(x) >= 4 /\ c < Len(x)
      /\ line[1] = x[c + 1]
  BY <1>1, FirstByte
<1>3. Frames(F, n) /\ Outs(m, n) /\ (Sync(F, m, c, n) \/ Shifted(F, m, c, n) \/ Lag(F, m, c, n))
  BY DEF State
<1>4. Outs(m, n)' /\ (None => None')
  BY <1>1, <1>2, <1>3, OutsKept
<1>5. ASSUME c + 1 < Len(x), Sync(F, m, c + 1, n)' \/ Shifted(F, m, c + 1, n)' \/ Lag(F, m, c + 1, n)'
      PROVE  \E P2, F2, m2, c2, n2 : State(P2, F2, m2, c2, n2)'
  <2>1. /\ 1 \in Nat /\ Read(1) /\ UNCHANGED << port, sent, plain >>
        /\ c + 1 \in Nat /\ (m <= sent => c + 1 < Len(F[m]))
    BY <1>1, <1>2, <1>5
  <2>2. QED  BY <1>4, <1>5, <2>1, Within
<1>6. CASE Sync(F, m, c, n)
  <2>1. c = 0 /\ (m <= n => None)  BY <1>1, <1>6 DEF Sync
  <2>2. CASE line[1].b = Start[1]
    <3>1. Sync(F, m, c + 1, n)'
      BY <1>1, <1>2, <1>4, <2>1, <2>2 DEF Sync
    <3>2. QED  BY <1>2, <1>5, <2>1, <3>1
  <2>3. CASE line[1].b # Start[1]
    <3>1. m = n /\ noise # 0 /\ None
      <4>1. ASSUME m # n PROVE FALSE
        <5>1. PICK e : Framed(e) /\ Sound(x, e, m)  BY <1>2, <1>3, <4>1, FrameIs
        <5>2. Marked(x)  BY <1>2, <5>1, SoundIs
        <5>3. QED  BY <1>2, <2>1, <2>3, <5>2 DEF Marked
      <4>2. QED  BY <1>2, <1>3, <2>1, <4>1, FrameIs
    <3>2. PICK e : Framed(e) /\ Hurt(x, e, m)  BY <1>2, <1>3, <3>1, FrameIs
    <3>3. Quiet(x, 1) \/ Slipped(x, e, m)  BY <1>2, <2>1, <2>3, <3>2 DEF Hurt
    <3>4. CASE Quiet(x, 1)
      <4>1. Lag(F, m, c + 1, n)'
        BY <1>1, <1>2, <2>1, <2>3, <3>1, <3>4 DEF Lag, Quiet
      <4>2. QED  BY <1>2, <1>5, <2>1, <4>1
    <3>5. CASE Slipped(x, e, m)
      <4>1. Slipped(x, e, m)'  BY <1>1, <3>5 DEF Slipped
      <4>2. Shifted(F, m, c + 1, n)'
        BY <1>1, <1>2, <1>4, <2>1, <2>3, <3>1, <3>2, <4>1 DEF Shifted, Framed
      <4>3. QED  BY <1>2, <1>5, <2>1, <4>2
    <3>6. QED  BY <3>3, <3>4, <3>5
  <2>4. QED  BY <2>2, <2>3
<1>7. CASE Shifted(F, m, c, n)
  <2>1. c = 1 /\ m = n /\ None /\ noise # 0 /\ \E e : Framed(e) /\ Slipped(x, e, m)
    BY <1>1, <1>7 DEF Shifted
  <2>2. PICK e : Framed(e) /\ Slipped(x, e, m)  BY <2>1
  <2>3. x[2].b = Start[1]
    <3>1. Len(e) \in Nat /\ Len(e) >= 5 /\ \A j \in 1 .. Len(e) : x[j + 1].b = e[j]
      <4>1. m \in Nat /\ Framed(e) /\ Slipped(x, e, m)  BY <1>2, <2>2
      <4> HIDE DEF x
      <4>2. QED  BY ONLY <4>1, SlippedIs
    <3>2. 1 \in 1 .. Len(e)  BY <3>1
    <3>3. x[1 + 1].b = e[1]  BY <3>1, <3>2
    <3>4. QED  BY <2>2, <3>3 DEF Framed
  <2>4. at' = "first"  BY <1>1, <1>2, <2>1, <2>3
  <2>5. Slipped(x, e, m)'  BY <1>1, <2>2 DEF Slipped
  <2>6. Shifted(F, m, c + 1, n)'
    BY <1>1, <1>2, <1>4, <2>1, <2>2, <2>4, <2>5 DEF Shifted, Framed
  <2>7. QED  BY <1>2, <1>5, <2>1, <2>6
<1>8. CASE Lag(F, m, c, n)
  <2>1. noise # 0 /\ m \in {n, n + 1} /\ c >= 1 /\ Quiet(x, c)  BY <1>8 DEF Lag
  <2>2. at' = "seek"
    <3>1. c + 1 \in 1 .. Len(x) /\ c + 1 > c  BY <1>2
    <3>2. x[c + 1].b # Start[1]  BY <2>1, <3>1 DEF Quiet
    <3>3. QED  BY <1>1, <1>2, <3>2
  <2>3. CASE c + 1 < Len(x)
    <3>1. Quiet(x, c + 1)  BY <1>2, <2>1 DEF Quiet
    <3>2. Lag(F, m, c + 1, n)'
      BY <1>1, <1>2, <2>1, <2>2, <3>1 DEF Lag, Quiet
    <3>3. QED  BY <1>5, <2>3, <3>2
  <2>4. CASE ~ (c + 1 < Len(x))
    <3>1. c + 1 = Len(x)  BY <1>2, <2>4
    <3>2. Outs(m + 1, n)'  BY <1>1, <1>2, <1>3, <2>1, OutsKept
    <3>3. n \in Nat  BY <1>2, <1>3, <2>1 DEF Outs
    <3>4. ~ (m + 1 <= n)  BY <1>2, <2>1, <3>3
    <3>5. Sync(F, m + 1, 0, n)'  BY <2>2, <3>4 DEF Sync
    <3>6. m + 1 <= sent => 0 < Len(F[m + 1])
      <4>1. ASSUME m + 1 <= sent PROVE 0 < Len(F[m + 1])
        <5>1. m + 1 \in 1 .. sent  BY <1>2, <4>1
        <5>2. Len(F[m + 1]) \in Nat /\ Len(F[m + 1]) >= 4  BY <1>3, <5>1, FrameIs
        <5>3. QED  BY <5>2
      <4>2. QED  BY <4>1
    <3>7. /\ 1 \in Nat /\ Read(1) /\ UNCHANGED << port, sent, plain >>
          /\ 0 \in Nat /\ m <= sent /\ 0 = c + 1 - Len(F[m])
      BY <1>1, <1>2, <3>1
    <3>8. QED  BY <3>2, <3>5, <3>6, <3>7, Onward
  <2>5. QED  BY <2>3, <2>4
<1>9. QED  BY <1>3, <1>6, <1>7, <1>8

\* A step that ends where frame m does.
LEMMA Over ==
  ASSUME TypeInv, Tame, NEW P, NEW F, NEW m, NEW c, NEW n, State(P, F, m, c, n),
         NEW r \in Nat, Read(r), UNCHANGED << port, sent, plain >>,
         m \in 1 .. sent, c + r = Len(F[m]), at' \in {"seek", "step"},
         NEW k, k = m + 1, Outs(k, n)', k <= n => None'
  PROVE  \E P2, F2, m2, c2, n2 : State(P2, F2, m2, c2, n2)'
<1>1. sent \in Nat /\ m \in Nat /\ c \in Nat /\ Frames(F, n) /\ Outs(m, n)
  BY DEF State, Here, TypeInv
<1>2. Len(F[m]) \in Nat  BY <1>1, FrameIs
<1>3. k = m + 1  OBVIOUS
<1>4. PICK d : d = 0  OBVIOUS
<1>5. k <= sent => d < Len(F[k])
  <2>1. ASSUME k <= sent PROVE d < Len(F[k])
    <3>1. k \in 1 .. sent  BY <1>1, <1>3, <2>1
    <3>2. Len(F[k]) \in Nat /\ Len(F[k]) >= 4  BY <1>1, <3>1, FrameIs
    <3>3. QED  BY <1>4, <3>2
  <2>2. QED  BY <2>1
<1>6. /\ d \in Nat
      /\ (k = m /\ d = c + r) \/ (k = m + 1 /\ m <= sent /\ d = c + r - Len(F[m]))
  <2> DEFINE l == Len(F[m])
  <2>1. l \in Nat /\ c + r = l  BY <1>2
  <2> HIDE DEF l
  <2>2. 0 = c + r - l  BY <1>1, <2>1
  <2>3. m <= sent  BY <1>1
  <2>4. QED  BY <1>3, <1>4, <2>2, <2>3 DEF l
<1>7. Sync(F, k, d, n)'  BY <1>3, <1>4 DEF Sync
<1>8. Outs(k, n)'  OBVIOUS
<1>9. QED  BY <1>5, <1>6, <1>7, <1>8, Onward

LEMMA SecondStep ==
  ASSUME TypeInv, Tame, NEW P, NEW F, NEW m, NEW c, NEW n, State(P, F, m, c, n), Second
  PROVE  \E P2, F2, m2, c2, n2 : State(P2, F2, m2, c2, n2)'
<1>1. /\ at = "first" /\ Read(1) /\ at' = (IF line[1].b = Start[2] THEN "locked" ELSE "seek")
      /\ UNCHANGED << port, sent, out, noise, plain, lengthOk >> /\ Len(line) >= 1
  BY DEF Second, Read
<1> DEFINE x == F[m]
<1>2. /\ sent \in Nat /\ m \in 1 .. sent /\ m \in Nat /\ m >= 1 /\ c \in Nat
      /\ x \in Seq(Cell) /\ Len(x) \in Nat /\ Len(x) >= 4 /\ c < Len(x)
      /\ line[1] = x[c + 1]
  BY <1>1, FirstByte
<1>3. Frames(F, n) /\ Outs(m, n) /\ (Sync(F, m, c, n) \/ Shifted(F, m, c, n) \/ Lag(F, m, c, n))
  BY DEF State
<1>4. Outs(m, n)' /\ (None => None')
  BY <1>1, <1>2, <1>3, OutsKept
<1>5. ASSUME c + 1 < Len(x), Sync(F, m, c + 1, n)' \/ Shifted(F, m, c + 1, n)' \/ Lag(F, m, c + 1, n)'
      PROVE  \E P2, F2, m2, c2, n2 : State(P2, F2, m2, c2, n2)'
  <2>1. /\ 1 \in Nat /\ Read(1) /\ UNCHANGED << port, sent, plain >>
        /\ c + 1 \in Nat /\ (m <= sent => c + 1 < Len(F[m]))
    BY <1>1, <1>2, <1>5
  <2>2. QED  BY <1>4, <1>5, <2>1, Within
<1>6. CASE Sync(F, m, c, n)
  <2>1. c = 1 /\ (m <= n => None) /\ x[1].b = Start[1]  BY <1>1, <1>6 DEF Sync
  <2>2. CASE line[1].b = Start[2]
    <3>1. Marked(x)  BY <1>2, <2>1, <2>2 DEF Marked
    <3>2. Sync(F, m, c + 1, n)'
      BY <1>1, <1>2, <1>4, <2>1, <2>2, <3>1 DEF Sync, Marked
    <3>3. QED  BY <1>2, <1>5, <2>1, <3>2
  <2>3. CASE line[1].b # Start[2]
    <3>1. m = n /\ noise # 0
      <4>1. ASSUME m # n PROVE FALSE
        <5>1. PICK e : Framed(e) /\ Sound(x, e, m)  BY <1>2, <1>3, <4>1, FrameIs
        <5>2. Marked(x)  BY <1>2, <5>1, SoundIs
        <5>3. QED  BY <1>2, <2>1, <2>3, <5>2 DEF Marked
      <4>2. QED  BY <1>2, <1>3, <4>1, FrameIs
    <3>2. PICK e : Framed(e) /\ Hurt(x, e, m)  BY <1>2, <1>3, <3>1, FrameIs
    <3>3. Quiet(x, 2)  BY <1>2, <2>1, <2>3, <3>2 DEF Hurt
    <3>4. Lag(F, m, c + 1, n)'
      BY <1>1, <1>2, <2>1, <2>3, <3>1, <3>3 DEF Lag, Quiet
    <3>5. QED  BY <1>2, <1>5, <2>1, <3>4
  <2>4. QED  BY <2>2, <2>3
<1>7. CASE Shifted(F, m, c, n)
  <2>1. c = 2 /\ m = n /\ None /\ noise # 0 /\ \E e : Framed(e) /\ Slipped(x, e, m)
    BY <1>1, <1>7 DEF Shifted
  <2>2. PICK e : Framed(e) /\ Slipped(x, e, m)  BY <2>1
  <2>3. x[3].b = Start[2] /\ Len(x) >= 6
    <3>1. Len(e) \in Nat /\ Len(e) >= 5 /\ Len(x) = Len(e) + 1 /\ \A j \in 1 .. Len(e) : x[j + 1].b = e[j]
      <4>1. m \in Nat /\ Framed(e) /\ Slipped(x, e, m)  BY <1>2, <2>2
      <4> HIDE DEF x
      <4>2. QED  BY ONLY <4>1, SlippedIs
    <3>2. 2 \in 1 .. Len(e)  BY <3>1
    <3>3. x[2 + 1].b = e[2]  BY <3>1, <3>2
    <3>4. QED  BY <2>2, <3>1, <3>3 DEF Framed
  <2>4. at' = "locked"  BY <1>1, <1>2, <2>1, <2>3
  <2>5. Slipped(x, e, m)'  BY <1>1, <2>2 DEF Slipped
  <2>6. Shifted(F, m, c + 1, n)'
    BY <1>1, <1>2, <1>4, <2>1, <2>2, <2>4, <2>5 DEF Shifted, Framed
  <2>7. QED  BY <1>2, <1>5, <2>1, <2>3, <2>6
<1>8. CASE Lag(F, m, c, n)
  BY <1>1, <1>8 DEF Lag
<1>9. QED  BY <1>3, <1>6, <1>7, <1>8

\* What is read as the header of a frame.
LEMMA Ahead ==
  ASSUME TypeInv, Tame, NEW P, NEW F, NEW m, NEW c, NEW n, State(P, F, m, c, n),
         at \in {"locked", "step"}, Len(line) >= HeadSize
  PROVE  /\ Sync(F, m, c, n) => c = 4 - HeadSize /\ \A j \in 1 .. 4 : Header[j] = F[m][j].b
         /\ Shifted(F, m, c, n) => /\ HeadSize = 2 /\ c = 3 /\ Header[1] = Start[1] /\ Header[2] = Start[2]
                                   /\ Header[3] = F[m][4].b /\ Header[4] = F[m][5].b
         /\ Lag(F, m, c, n) => HeadSize = 4 /\ at = "step" /\ port = "serial" /\ ~ IsStart(Header)
<1> DEFINE x == F[m]
<1>1. /\ Len(Header) = 4 /\ HeadSize \in {2, 4} /\ (at = "locked" <=> HeadSize = 2)
      /\ at = "locked" => /\ Header[1] = Start[1] /\ Header[2] = Start[2]
                          /\ Header[3] = line[1].b /\ Header[4] = line[2].b
      /\ at = "step" => \A j \in 1 .. 4 : Header[j] = line[j].b
      /\ IsStart(Header) <=> Header[1] = Start[1] /\ Header[2] = Start[2]
  BY HeaderIs
<1>2. Len(line) >= 1
  <2>1. Len(line) \in Nat  BY DEF TypeInv
  <2>2. QED  BY <1>1, <2>1
<1>3. /\ sent \in Nat /\ m \in 1 .. sent /\ m \in Nat /\ m >= 1 /\ c \in Nat
      /\ x \in Seq(Cell) /\ Len(x) \in Nat /\ Len(x) >= 4 /\ c < Len(x)
      /\ line[1] = x[c + 1]
  BY <1>2, FirstByte
<1>4. Layout(P, F) /\ Here(P, F, m, c) /\ m <= sent  BY <1>3 DEF State
<1>5. \A q \in 1 .. 4 : c + q <= Len(x) => line[q] = x[c + q]
  <2>1. \A q \in 1 .. 4 : q \in Nat /\ q >= 1  OBVIOUS
  <2>2. QED  BY <1>4, <2>1, Peek
<1>6. ASSUME Sync(F, m, c, n)
      PROVE  c = 4 - HeadSize /\ \A j \in 1 .. 4 : Header[j] = x[j].b
  <2>1. CASE at = "step"
    <3>1. c = 0 /\ HeadSize = 4  BY <1>1, <1>6, <2>1 DEF Sync
    <3>2. \A q \in 1 .. 4 : line[q] = x[q]  BY <1>3, <1>5, <3>1
    <3>3. QED  BY <1>1, <2>1, <3>1, <3>2
  <2>2. CASE at = "locked"
    <3>1. c = 2 /\ HeadSize = 2 /\ Marked(x)  BY <1>1, <1>6, <2>2 DEF Sync
    <3>2. line[1] = x[3] /\ line[2] = x[4]  BY <1>3, <1>5, <3>1
    <3>3. Header[1] = x[1].b /\ Header[2] = x[2].b /\ Header[3] = x[3].b /\ Header[4] = x[4].b
      BY <1>1, <2>2, <3>1, <3>2 DEF Marked
    <3>4. \A j \in 1 .. 4 : j = 1 \/ j = 2 \/ j = 3 \/ j = 4  OBVIOUS
    <3>5. QED  BY <3>1, <3>3, <3>4
  <2>3. QED  BY <2>1, <2>2
<1>7. ASSUME Shifted(F, m, c, n)
      PROVE  /\ HeadSize = 2 /\ c = 3 /\ Header[1] = Start[1] /\ Header[2] = Start[2]
             /\ Header[3] = x[4].b /\ Header[4] = x[5].b
  <2>1. at = "locked" /\ c = 3 /\ HeadSize = 2  BY <1>1, <1>7 DEF Shifted
  <2>2. Len(x) >= 6
    <3>1. PICK e : Framed(e) /\ Slipped(x, e, m)  BY <1>7 DEF Shifted
    <3>2. Len(e) \in Nat /\ Len(e) >= 5 /\ Len(x) = Len(e) + 1  BY <1>3, <3>1, SlippedIs
    <3>3. QED  BY <3>2
  <2>3. line[1] = x[4] /\ line[2] = x[5]  BY <1>3, <1>5, <2>1, <2>2
  <2>4. QED  BY <1>1, <2>1, <2>3
<1>8. ASSUME Lag(F, m, c, n)
      PROVE  HeadSize = 4 /\ at = "step" /\ port = "serial" /\ ~ IsStart(Header)
  <2>1. at = "step" /\ port = "serial" /\ Quiet(x, c) /\ HeadSize = 4  BY <1>1, <1>8 DEF Lag
  <2>2. c + 1 \in 1 .. Len(x) /\ c + 1 > c  BY <1>3
  <2>3. line[1].b # Start[1]  BY <1>3, <2>1, <2>2 DEF Quiet
  <2>4. 1 \in 1 .. 4  OBVIOUS
  <2>5. QED  BY <1>1, <2>1, <2>3, <2>4
<1>9. QED  BY <1>6, <1>7, <1>8

LEMMA FalseStep ==
  ASSUME TypeInv, Tame, NEW P, NEW F, NEW m, NEW c, NEW n, State(P, F, m, c, n), FalseStart
  PROVE  \E P2, F2, m2, c2, n2 : State(P2, F2, m2, c2, n2)'
<1>1. /\ at \in {"locked", "step"} /\ port = "serial" /\ Read(HeadSize) /\ ~ IsStart(Header) /\ at' = "seek"
      /\ UNCHANGED << port, sent, out, noise, plain, lengthOk >> /\ Len(line) >= HeadSize
  BY DEF FalseStart, Read
<1> DEFINE x == F[m]
<1>2. /\ HeadSize \in {2, 4} /\ (at = "locked" <=> HeadSize = 2) /\ Len(line) \in Nat
      /\ IsStart(Header) <=> Header[1] = Start[1] /\ Header[2] = Start[2]
  BY <1>1, HeaderIs DEF TypeInv
<1>3. /\ sent \in Nat /\ m \in 1 .. sent /\ m \in Nat /\ m >= 1 /\ c \in Nat
      /\ x \in Seq(Cell) /\ Len(x) \in Nat /\ Len(x) >= 4 /\ c < Len(x)
  <2>1. Len(line) >= 1  BY <1>1, <1>2
  <2>2. QED  BY <2>1, FirstByte
<1>4. /\ Layout(P, F) /\ Here(P, F, m, c) /\ Frames(F, n) /\ Outs(m, n)
      /\ Sync(F, m, c, n) \/ Shifted(F, m, c, n) \/ Lag(F, m, c, n)
  BY DEF State
<1>5. /\ Outs(m, n)' /\ (None => None')
      /\ noise # 0 /\ m \in {n, n + 1} => Outs(m + 1, n)'
  BY <1>1, <1>3, <1>4, OutsKept
<1>6. ASSUME HeadSize = 4, c + 4 < Len(x), Lag(F, m, c + 4, n)'
      PROVE  \E P2, F2, m2, c2, n2 : State(P2, F2, m2, c2, n2)'
  <2>1. /\ 4 \in Nat /\ Read(4) /\ UNCHANGED << port, sent, plain >>
        /\ c + 4 \in Nat /\ (m <= sent => c + 4 < Len(F[m]))
    BY <1>1, <1>3, <1>6
  <2>2. QED  BY <1>5, <1>6, <2>1, Within
<1>7. ASSUME HeadSize = 4, c + 4 = Len(x), noise # 0, m \in {n, n + 1}
      PROVE  \E P2, F2, m2, c2, n2 : State(P2, F2, m2, c2, n2)'
  <2>1. PICK k : k = m + 1  OBVIOUS
  <2>2. ~ (k <= n)
    <3>1. n \in Nat  BY <1>3, <1>4, <1>7 DEF Outs
    <3>2. QED  BY <1>3, <1>7, <2>1, <3>1
  <2>3. /\ 4 \in Nat /\ Read(4) /\ UNCHANGED << port, sent, plain >> /\ c + 4 = Len(F[m])
        /\ at' \in {"seek", "step"} /\ Outs(k, n)' /\ m \in 1 .. sent
    BY <1>1, <1>3, <1>5, <1>7, <2>1
  <2>4. QED  BY <2>1, <2>2, <2>3, Over
<1>8. CASE Sync(F, m, c, n)
  <2>1. c = 4 - HeadSize /\ \A j \in 1 .. 4 : Header[j] = x[j].b  BY <1>1, <1>8, Ahead
  <2>2. ~ Marked(x)
    <3>1. 1 \in 1 .. 4 /\ 2 \in 1 .. 4  OBVIOUS
    <3>2. QED  BY <1>1, <1>2, <2>1, <3>1 DEF Marked
  <2>3. at = "step" /\ HeadSize = 4 /\ c = 0
    <3>1. at = "locked" => Marked(x)  BY <1>8 DEF Sync
    <3>2. QED  BY <1>1, <1>2, <2>1, <2>2, <3>1
  <2>4. m = n /\ noise # 0
    <3>1. ASSUME m # n PROVE FALSE
      <4>1. PICK e : Framed(e) /\ Sound(x, e, m)  BY <1>3, <1>4, <3>1, FrameIs
      <4>2. QED  BY <1>3, <2>2, <4>1, SoundIs
    <3>2. QED  BY <1>3, <1>4, <3>1, FrameIs
  <2>5. PICK e : Framed(e) /\ Hurt(x, e, m)  BY <1>3, <1>4, <2>4, FrameIs
  <2>6. Quiet(x, 4)  BY <2>2, <2>5 DEF Hurt
  <2>7. CASE 4 < Len(x)
    <3>1. Lag(F, m, c + 4, n)'
      BY <1>1, <1>3, <2>3, <2>4, <2>6 DEF Lag, Quiet
    <3>2. QED  BY <1>6, <2>3, <2>7, <3>1
  <2>8. CASE 4 = Len(x)
    BY <1>7, <2>3, <2>4, <2>8
  <2>9. 4 < Len(x) \/ 4 = Len(x)
    <3> DEFINE l == Len(x)
    <3>1. l \in Nat /\ l >= 4  BY <1>3
    <3> HIDE DEF l
    <3>2. 4 < l \/ 4 = l  BY <3>1
    <3>3. QED  BY <3>2 DEF l
  <2>10. QED  BY <2>7, <2>8, <2>9
<1>9. CASE Shifted(F, m, c, n)
  BY <1>1, <1>2, <1>9, Ahead
<1>10. CASE Lag(F, m, c, n)
  <2>1. HeadSize = 4 /\ at = "step"  BY <1>1, <1>10, Ahead
  <2>2. /\ noise # 0 /\ m \in {n, n + 1} /\ c >= 1 /\ Quiet(x, c)
        /\ m = n => c + 1 = Len(x)
        /\ m = n + 1 => c + 4 <= Len(x)
    BY <1>10, <2>1 DEF Lag
  <2>3. CASE m = n + 1
    <3>1. CASE c + 4 < Len(x)
      <4>1. Quiet(x, c + 4)  BY <1>3, <2>2 DEF Quiet
      <4>2. c + 4 >= 1 /\ m <= sent  BY <1>3
      <4>3. Lag(F, m, c + 4, n)'
        BY <1>1, <2>2, <4>1, <4>2 DEF Lag, Quiet
      <4>4. QED  BY <1>6, <2>1, <3>1, <4>3
    <3>2. CASE c + 4 = Len(x)
      BY <1>7, <2>1, <2>2, <3>2
    <3>3. QED  BY <1>3, <2>2, <2>3, <3>1, <3>2
  <2>4. CASE m = n
    <3>1. m + 1 <= sent
      <4>1. 4 \in Nat /\ 4 >= 1 /\ Len(line) >= 4 /\ c + 4 > Len(F[m])  BY <1>1, <1>3, <2>1, <2>2, <2>4
      <4>2. QED  BY <1>4, <4>1, More
    <3>2. PICK k : k = m + 1  OBVIOUS
    <3>3. PICK d : d = 3  OBVIOUS
    <3>4. k \in 1 .. sent /\ k # n  BY <1>3, <2>4, <3>1, <3>2
    <3>5. Len(F[k]) \in Nat /\ Len(F[k]) >= 4 /\ Quiet(F[k], 1)  BY <1>4, <2>2, <3>4, FrameIs
    <3>6. Quiet(F[k], d)  BY <3>3, <3>5 DEF Quiet
    <3>7. k <= sent' /\ d >= 1 /\ k \in {n, n + 1}  BY <1>1, <2>4, <3>1, <3>2, <3>3
    <3>8. Lag(F, k, d, n)'  BY <1>1, <2>2, <3>6, <3>7 DEF Lag, Quiet
    <3>9. 3 = c + 4 - Len(F[m]) /\ m <= sent
      <4> DEFINE l == Len(x)
      <4>1. l \in Nat /\ c + 1 = l  BY <1>3, <2>2, <2>4
      <4> HIDE DEF l
      <4>2. 3 = c + 4 - l  BY <1>3, <4>1
      <4>3. QED  BY <1>3, <4>2 DEF l
    <3>10. /\ 4 \in Nat /\ Read(4) /\ UNCHANGED << port, sent, plain >>
           /\ d \in Nat /\ ((k = m /\ d = c + 4) \/ (k = m + 1 /\ m <= sent /\ d = c + 4 - Len(F[m])))
           /\ (k <= sent => d < Len(F[k]))
           /\ Outs(k, n)'
      BY <1>1, <1>5, <2>1, <2>2, <3>2, <3>3, <3>5, <3>9
    <3>11. QED  BY <3>8, <3>10, Onward
  <2>5. QED  BY <2>2, <2>3, <2>4
<1>11. QED  BY <1>4, <1>8, <1>9, <1>10

\* The length is that of a frame, and there is no lag.
LEMMA LengthIs ==
  ASSUME TypeInv, Tame, NEW P, NEW F, NEW m, NEW c, NEW n, State(P, F, m, c, n),
         at \in {"locked", "step"}, Len(line) >= HeadSize, port = "serial" => IsStart(Header)
  PROVE  /\ ~ Lag(F, m, c, n)
         /\ \E e : /\ Framed(e) /\ LengthOf(Header) = Len(e)
                   /\ \/ Sync(F, m, c, n) /\ m # n /\ Sound(F[m], e, m) /\ (noise # 0 => Quiet(F[m], 1))
                      \/ Sync(F, m, c, n) /\ m = n /\ noise # 0 /\ Hurt(F[m], e, m)
                      \/ Shifted(F, m, c, n) /\ Slipped(F[m], e, m)
<1> DEFINE x == F[m]
<1>1. /\ HeadSize \in {2, 4} /\ Len(line) >= 1
      /\ IsStart(Header) <=> Header[1] = Start[1] /\ Header[2] = Start[2]
  <2>1. HeadSize \in {2, 4} /\ Len(line) \in Nat  BY HeaderIs DEF TypeInv
  <2>2. QED  BY <2>1, HeaderIs
<1>2. /\ sent \in Nat /\ m \in 1 .. sent /\ m \in Nat /\ m >= 1 /\ c \in Nat
      /\ x \in Seq(Cell) /\ Len(x) \in Nat /\ Len(x) >= 4 /\ c < Len(x)
  BY <1>1, FirstByte
<1>3. Frames(F, n) /\ Outs(m, n) /\ (Sync(F, m, c, n) \/ Shifted(F, m, c, n) \/ Lag(F, m, c, n))
  BY DEF State
<1>4. ~ Lag(F, m, c, n)  BY Ahead
<1>5. CASE Sync(F, m, c, n)
  <2>1. \A j \in 1 .. 4 : Header[j] = x[j].b  BY <1>5, Ahead
  <2>2. Header[1] = x[1].b /\ Header[2] = x[2].b /\ Header[3] = x[3].b /\ Header[4] = x[4].b
    BY <2>1
  <2>3. CASE m # n
    <3>1. PICK e : Framed(e) /\ Sound(x, e, m) /\ (noise # 0 => Quiet(x, 1))  BY <1>2, <1>3, <2>3, FrameIs
    <3>2. Len(e) \in Nat /\ Len(e) >= 5 /\ \A j \in 1 .. Len(e) : x[j].b = e[j]
      <4>1. m \in Nat /\ Sound(x, e, m)  BY <1>2, <3>1
      <4> HIDE DEF x
      <4>2. QED  BY ONLY <4>1, SoundIs
    <3>3. x[3].b = e[3] /\ x[4].b = e[4]  BY <3>2
    <3>4. LengthOf(Header) = Len(e)  BY <2>2, <3>1, <3>3 DEF LengthOf, Framed
    <3>5. QED  BY <1>4, <1>5, <2>3, <3>1, <3>4
  <2>4. CASE m = n
    <3>1. noise # 0 /\ \E e : Framed(e) /\ Hurt(x, e, m)  BY <1>2, <1>3, <2>4, FrameIs
    <3>2. PICK e : Framed(e) /\ Hurt(x, e, m)  BY <3>1
    <3>3. Marked(x) \/ port = "usb"
      <4>1. port = "serial" => Marked(x)  BY <1>1, <2>2 DEF Marked
      <4>2. QED  BY <4>1 DEF TypeInv
    <3>4. x[3].b = e[3] /\ x[4].b = e[4]  BY <3>2, <3>3 DEF Hurt
    <3>5. LengthOf(Header) = Len(e)  BY <2>2, <3>2, <3>4 DEF LengthOf, Framed
    <3>6. QED  BY <1>4, <1>5, <2>4, <3>1, <3>2, <3>5
  <2>5. QED  BY <2>3, <2>4
<1>6. CASE Shifted(F, m, c, n)
  <2>1. PICK e : Framed(e) /\ Slipped(x, e, m)  BY <1>6 DEF Shifted
  <2>2. Len(e) \in Nat /\ Len(e) >= 5 /\ \A j \in 1 .. Len(e) : x[j + 1].b = e[j]
    <3>1. m \in Nat /\ Framed(e) /\ Slipped(x, e, m)  BY <1>2, <2>1
    <3> HIDE DEF x
    <3>2. QED  BY ONLY <3>1, SlippedIs
  <2>3. 3 \in 1 .. Len(e) /\ 4 \in 1 .. Len(e) /\ 3 + 1 = 4 /\ 4 + 1 = 5  BY <2>2
  <2>4. x[4].b = e[3] /\ x[5].b = e[4]  BY <2>2, <2>3
  <2>5. Header[3] = x[4].b /\ Header[4] = x[5].b  BY <1>6, Ahead
  <2>6. LengthOf(Header) = Len(e)  BY <2>1, <2>4, <2>5 DEF LengthOf, Framed
  <2>7. QED  BY <1>4, <1>6, <2>1, <2>6
<1>7. QED  BY <1>3, <1>4, <1>5, <1>6

LEMMA Sizes ==
  ASSUME NEW e, Framed(e)
  PROVE  Len(e) \in Nat /\ Len(e) >= 5 /\ ~ NoSlice(Len(e)) /\ ~ NoHeader(Len(e)) /\ ~ NoPayload(Len(e))
<1> DEFINE l == Len(e)
<1>1. l \in Nat /\ l > HeadLen /\ l <= Buffer /\ HeadLen \in Nat /\ HeadLen >= 4 /\ Buffer \in Nat
  BY FramingAssumption DEF Framed
<1> HIDE DEF l
<1>2. l >= 5 /\ ~ (l < 4) /\ ~ (l > Buffer) /\ ~ (l < HeadLen) /\ ~ (l < HeadLen + 1)
  BY <1>1
<1>3. QED  BY <1>1, <1>2 DEF l, NoSlice, NoHeader, NoPayload

LEMMA NeverBroken ==
  ASSUME TypeInv, Tame, NEW P, NEW F, NEW m, NEW c, NEW n, State(P, F, m, c, n)
  PROVE  ~ Broken
<1>1. SUFFICES ASSUME Broken PROVE FALSE
  OBVIOUS
<1>2. /\ at \in {"locked", "step"} /\ Len(line) >= HeadSize /\ (port = "serial" => IsStart(Header))
      /\ NoSlice(LengthOf(Header))
  BY <1>1 DEF Broken, Read
<1>3. PICK e : Framed(e) /\ LengthOf(Header) = Len(e)
  BY <1>2, LengthIs
<1>4. QED  BY <1>2, <1>3, Sizes

LEMMA FrameReads ==
  ASSUME TypeInv, Frame, NEW e, Framed(e), LengthOf(Header) = Len(e),
         NEW rest, rest = Len(e) - 4 + HeadSize,
         NEW good, good = (IsStart(Header) /\ SumOf(Front(All(rest))) = Last(All(rest)))
  PROVE  /\ rest \in Nat /\ rest > HeadSize /\ rest >= 1 /\ Read(rest)
         /\ UNCHANGED << port, sent, noise, plain, lengthOk >>
         /\ \/ good /\ at' = "step" /\ out' = Append(out, Which(SubSeq(line, 1, rest)))
            \/ ~ good /\ at' = "seek" /\ out' = out
<1>1. at \in {"locked", "step"} /\ Len(line) >= HeadSize
  BY DEF Frame
<1>2. HeadSize \in {2, 4}  BY <1>1, HeaderIs
<1>3. Len(e) \in Nat /\ Len(e) >= 5 /\ ~ NoSlice(Len(e)) /\ ~ NoHeader(Len(e)) /\ ~ NoPayload(Len(e))
  BY Sizes
<1>4. rest \in Nat /\ rest > HeadSize /\ rest >= 1
  <2> DEFINE l == Len(e)
  <2>1. l \in Nat /\ l >= 5 /\ rest = l - 4 + HeadSize  BY <1>3
  <2> HIDE DEF l
  <2>2. QED  BY <1>2, <2>1
<1>5. /\ Read(rest)
      /\ \/ (NoHeader(Len(e)) /\ IsStart(Header)) \/ (good /\ NoPayload(Len(e)))
         \/ good /\ ~ NoPayload(Len(e)) /\ at' = "step" /\ out' = Append(out, Which(SubSeq(line, 1, rest)))
         \/ ~ good /\ at' = "seek" /\ out' = out
      /\ UNCHANGED << port, sent, noise, plain, lengthOk >>
  BY DEF Frame, All
<1>6. QED  BY <1>3, <1>4, <1>5

\* Cells of frame m that are read, and their bytes in what is summed.
LEMMA Window ==
  ASSUME TypeInv, Tame, NEW P, NEW F, NEW m, NEW c, NEW n, State(P, F, m, c, n),
         at \in {"locked", "step"}, Len(line) >= HeadSize, m <= sent
  PROVE  \A q \in Nat : q >= 1 /\ c + q <= Len(F[m]) => line[q] = F[m][c + q]
<1>1. Layout(P, F) /\ Here(P, F, m, c)  BY DEF State
<1>2. QED  BY <1>1, Peek

\* A frame that noise has not touched is passed on.
LEMMA WholeStep ==
  ASSUME TypeInv, Tame, NEW P, NEW F, NEW m, NEW c, NEW n, State(P, F, m, c, n), Frame,
         NEW e, Framed(e), LengthOf(Header) = Len(e), Sync(F, m, c, n), m # n, Sound(F[m], e, m)
  PROVE  \E P2, F2, m2, c2, n2 : State(P2, F2, m2, c2, n2)'
<1> DEFINE x == F[m]
           h == HeadSize
           L == Len(e)
<1>1. at \in {"locked", "step"} /\ Len(line) >= HeadSize  BY DEF Frame
<1>2. Len(line) >= 1 /\ h \in {2, 4}
  <2>1. HeadSize \in {2, 4} /\ Len(line) \in Nat  BY <1>1, HeaderIs DEF TypeInv
  <2>2. QED  BY <1>1, <2>1
<1>3. /\ sent \in Nat /\ m \in 1 .. sent /\ m \in Nat /\ m >= 1 /\ c \in Nat
      /\ Outs(m, n)
  BY <1>2, FirstByte DEF State
<1>4. /\ Len(x) = L /\ L \in Nat /\ L >= 5 /\ Marked(x)
      /\ \A j \in 1 .. L : /\ x[j].b = e[j] /\ x[j].of = m
                           /\ x[j].place = j /\ x[j].last = (j = L)
  <2>1. m \in Nat /\ Sound(x, e, m)  BY <1>3
  <2> HIDE DEF x
  <2>2. QED  BY ONLY <2>1, SoundIs
<1>5. c = 4 - h /\ \A j \in 1 .. 4 : Header[j] = x[j].b
  BY <1>1, Ahead
<1>6. PICK rest : rest = L - 4 + h  OBVIOUS
<1>7. PICK good : good = (IsStart(Header) /\ SumOf(Front(All(rest))) = Last(All(rest)))  OBVIOUS
<1>8. /\ rest \in Nat /\ rest > HeadSize /\ rest >= 1 /\ Read(rest)
      /\ UNCHANGED << port, sent, noise, plain, lengthOk >>
      /\ \/ good /\ at' = "step" /\ out' = Append(out, Which(SubSeq(line, 1, rest)))
         \/ ~ good /\ at' = "seek" /\ out' = out
  BY <1>6, <1>7, FrameReads
<1>9. \A q \in 1 .. rest : line[q] = x[c + q] /\ c + q \in 1 .. L
  <2>1. \A q \in Nat : q >= 1 /\ c + q <= Len(F[m]) => line[q] = F[m][c + q]
    BY <1>1, <1>3, Window
  <2> HIDE DEF L
  <2>2. ASSUME NEW q \in 1 .. rest PROVE q \in Nat /\ q >= 1 /\ c + q \in 1 .. L
    BY <1>2, <1>4, <1>5, <1>6, <1>8
  <2>3. QED  BY <1>4, <2>1, <2>2
<1>10. /\ All(rest) \in Seq(Nat) /\ Len(All(rest)) = 4 + rest - h
       /\ \A j \in 1 .. 4 : All(rest)[j] = Header[j]
       /\ \A j \in h + 1 .. rest : All(rest)[4 + j - h] = line[j].b
  <2>1. rest >= HeadSize /\ Len(line) >= rest  BY <1>2, <1>8 DEF Read
  <2>2. QED  BY <1>1, <1>8, <2>1, AllIs
<1> DEFINE a == All(rest)
<1> HIDE DEF a, h, L, x
<1>11. Len(a) = L  BY <1>2, <1>4, <1>6, <1>10 DEF a
<1>12. ASSUME NEW j \in 1 .. L PROVE a[j] = e[j]
  <2>1. CASE j <= 4
    <3>1. j \in 1 .. 4  BY <2>1
    <3>2. a[j] = Header[j]  BY <1>10, <3>1 DEF a
    <3>3. Header[j] = x[j].b  BY <1>5, <3>1
    <3>4. x[j].b = e[j]  BY <1>4
    <3>5. QED  BY <3>2, <3>3, <3>4
  <2>2. CASE j > 4
    <3>1. j - 4 + h \in h + 1 .. rest /\ 4 + (j - 4 + h) - h = j /\ j - 4 + h \in 1 .. rest
          /\ c + (j - 4 + h) = j
      BY <1>2, <1>4, <1>5, <1>6, <2>2
    <3>2. a[j] = line[j - 4 + h].b  BY <1>10, <3>1 DEF a
    <3>3. line[j - 4 + h] = x[j]  BY <1>9, <3>1
    <3>4. QED  BY <1>4, <3>2, <3>3
  <2>3. QED  BY <1>4, <2>1, <2>2
<1>13. good
  <2>1. Header[1] = x[1].b /\ Header[2] = x[2].b  BY <1>5
  <2>2. IsStart(Header)  BY <1>1, <1>4, <2>1, HeaderIs DEF Marked
  <2>3. a \in Seq(Nat) /\ Len(a) = Len(e) /\ \A j \in 1 .. Len(e) : a[j] = e[j]
    BY <1>10, <1>11, <1>12 DEF a, L
  <2>4. SumOf(Front(a)) = Last(a)  BY <2>3, Good
  <2>5. QED  BY <1>7, <2>2, <2>4 DEF a
<1>14. Which(SubSeq(line, 1, rest)) = m
  <2>1. rest \in 1 .. rest /\ c + rest = L  BY <1>2, <1>4, <1>5, <1>6, <1>8
  <2>2. line[rest].last  BY <1>4, <1>9, <2>1
  <2>3. \A q \in 1 .. rest : line[q].of = m /\ line[q].place = c + q  BY <1>4, <1>9
  <2>4. rest \in Nat /\ rest >= 1 /\ Len(line) >= rest  BY <1>8 DEF Read
  <2>5. QED  BY <1>3, <2>2, <2>3, <2>4, WhichIs
<1>15. at' = "step" /\ out' = Append(out, m)
  BY <1>8, <1>13, <1>14
<1>16. PICK k : k = m + 1  OBVIOUS
<1>17. Outs(k, n)' /\ (None => None')
  BY <1>3, <1>8, <1>15, <1>16, OutsGrow
<1>18. k <= n => None'
  <2>1. m <= n => None  BY DEF Sync
  <2>2. k <= n => m <= n
    <3>1. noise = 0 => n = -1  BY <1>3 DEF Outs
    <3>2. noise # 0 => n \in Nat  BY <1>3 DEF Outs
    <3>3. QED  BY <1>3, <1>16, <3>1, <3>2
  <2>3. QED  BY <1>17, <2>1, <2>2
<1>19. c + rest = Len(F[m])  BY <1>2, <1>4, <1>5, <1>6 DEF x
<1>20. QED  BY <1>3, <1>8, <1>15, <1>16, <1>17, <1>18, <1>19, Over

\* So is one that had a strange byte before it.
LEMMA ShiftedStep ==
  ASSUME TypeInv, Tame, NEW P, NEW F, NEW m, NEW c, NEW n, State(P, F, m, c, n), Frame,
         NEW e, Framed(e), LengthOf(Header) = Len(e), Shifted(F, m, c, n), Slipped(F[m], e, m)
  PROVE  \E P2, F2, m2, c2, n2 : State(P2, F2, m2, c2, n2)'
<1> DEFINE x == F[m]
           h == HeadSize
           L == Len(e)
<1>1. at \in {"locked", "step"} /\ Len(line) >= HeadSize  BY DEF Frame
<1>2. /\ h = 2 /\ c = 3 /\ Header[1] = Start[1] /\ Header[2] = Start[2]
      /\ Header[3] = x[4].b /\ Header[4] = x[5].b
  BY <1>1, Ahead
<1>3. Len(line) >= 1
  <2>1. Len(line) \in Nat  BY DEF TypeInv
  <2>2. QED  BY <1>1, <1>2, <2>1
<1>4. /\ sent \in Nat /\ m \in 1 .. sent /\ m \in Nat /\ m >= 1 /\ c \in Nat
      /\ Outs(m, n)
  BY <1>3, FirstByte DEF State
<1>5. /\ L \in Nat /\ L >= 5 /\ Len(x) = L + 1
      /\ \A j \in 1 .. L : /\ x[j + 1].b = e[j] /\ x[j + 1].of = m
                           /\ x[j + 1].place = j /\ x[j + 1].last = (j = L)
  <2>1. m \in Nat /\ Framed(e) /\ Slipped(x, e, m)  BY <1>4
  <2> HIDE DEF x
  <2>2. QED  BY ONLY <2>1, SlippedIs
<1>6. PICK rest : rest = L - 4 + h  OBVIOUS
<1>7. PICK good : good = (IsStart(Header) /\ SumOf(Front(All(rest))) = Last(All(rest)))  OBVIOUS
<1>8. /\ rest \in Nat /\ rest > HeadSize /\ rest >= 1 /\ Read(rest)
      /\ UNCHANGED << port, sent, noise, plain, lengthOk >>
      /\ \/ good /\ at' = "step" /\ out' = Append(out, Which(SubSeq(line, 1, rest)))
         \/ ~ good /\ at' = "seek" /\ out' = out
  BY <1>6, <1>7, FrameReads
<1>9. \A q \in 1 .. rest : line[q] = x[(2 + q) + 1] /\ 2 + q \in 1 .. L
  <2>1. \A q \in Nat : q >= 1 /\ c + q <= Len(F[m]) => line[q] = F[m][c + q]
    BY <1>1, <1>4, Window
  <2> HIDE DEF L
  <2>2. ASSUME NEW q \in 1 .. rest PROVE q \in Nat /\ q >= 1 /\ c + q <= L + 1 /\ 2 + q \in 1 .. L /\ c + q = (2 + q) + 1
    BY <1>2, <1>5, <1>6, <1>8
  <2>3. QED  BY <1>5, <2>1, <2>2
<1>10. /\ All(rest) \in Seq(Nat) /\ Len(All(rest)) = 4 + rest - h
       /\ \A j \in 1 .. 4 : All(rest)[j] = Header[j]
       /\ \A j \in h + 1 .. rest : All(rest)[4 + j - h] = line[j].b
  <2>1. rest >= HeadSize /\ Len(line) >= rest  BY <1>2, <1>8 DEF Read
  <2>2. QED  BY <1>1, <1>8, <2>1, AllIs
<1> DEFINE a == All(rest)
<1> HIDE DEF a, h, L, x
<1>11. Len(a) = L  BY <1>2, <1>5, <1>6, <1>10 DEF a
<1>12. ASSUME NEW j \in 1 .. L PROVE a[j] = e[j]
  <2>1. CASE j <= 4
    <3>1. 3 \in 1 .. L /\ 4 \in 1 .. L /\ 3 + 1 = 4 /\ 4 + 1 = 5  BY <1>5
    <3>2. x[4].b = e[3] /\ x[5].b = e[4]  BY <1>5, <3>1
    <3>3. e[1] = Start[1] /\ e[2] = Start[2]  BY DEF Framed
    <3>4. j = 1 \/ j = 2 \/ j = 3 \/ j = 4  BY <1>5, <2>1
    <3>5. a[1] = Header[1] /\ a[2] = Header[2] /\ a[3] = Header[3] /\ a[4] = Header[4]
      BY <1>10 DEF a
    <3>6. QED  BY <1>2, <3>2, <3>3, <3>4, <3>5
  <2>2. CASE j > 4
    <3>1. j - 2 \in h + 1 .. rest /\ 4 + (j - 2) - h = j /\ j - 2 \in 1 .. rest /\ 2 + (j - 2) = j
      BY <1>2, <1>5, <1>6, <2>2
    <3>2. a[j] = line[j - 2].b  BY <1>10, <3>1 DEF a
    <3>3. line[j - 2] = x[j + 1]  BY <1>9, <3>1
    <3>4. QED  BY <1>5, <3>2, <3>3
  <2>3. QED  BY <1>5, <2>1, <2>2
<1>13. good
  <2>1. IsStart(Header)  BY <1>1, <1>2, HeaderIs
  <2>2. a \in Seq(Nat) /\ Len(a) = Len(e) /\ \A j \in 1 .. Len(e) : a[j] = e[j]
    BY <1>10, <1>11, <1>12 DEF a, L
  <2>3. SumOf(Front(a)) = Last(a)  BY <2>2, Good
  <2>4. QED  BY <1>7, <2>1, <2>3 DEF a
<1>14. Which(SubSeq(line, 1, rest)) = m
  <2>1. rest \in 1 .. rest /\ 2 + rest = L  BY <1>2, <1>5, <1>6, <1>8
  <2>2. line[rest].last  BY <1>5, <1>9, <2>1
  <2>3. \A q \in 1 .. rest : line[q].of = m /\ line[q].place = 2 + q  BY <1>5, <1>9
  <2>4. rest \in Nat /\ rest >= 1 /\ Len(line) >= rest  BY <1>8 DEF Read
  <2>5. 2 \in Nat  OBVIOUS
  <2>6. QED  BY <1>4, <2>2, <2>3, <2>4, <2>5, WhichIs
<1>15. at' = "step" /\ out' = Append(out, m)
  BY <1>8, <1>13, <1>14
<1>16. PICK k : k = m + 1  OBVIOUS
<1>17. Outs(k, n)' /\ (None => None')
  BY <1>4, <1>8, <1>15, <1>16, OutsGrow
<1>18. None'  BY <1>17 DEF Shifted
<1>19. c + rest = Len(F[m])  BY <1>2, <1>5, <1>6 DEF x
<1>20. QED  BY <1>4, <1>8, <1>15, <1>16, <1>17, <1>18, <1>19, Over

\* One that noise has touched is lost, and the next with it if a byte of that was taken; a
\* false packet is passed on at most once.
LEMMA HurtStep ==
  ASSUME TypeInv, Tame, Tame', NEW P, NEW F, NEW m, NEW c, NEW n, State(P, F, m, c, n), Frame,
         NEW e, Framed(e), LengthOf(Header) = Len(e), Sync(F, m, c, n), m = n, noise # 0, Hurt(F[m], e, m)
  PROVE  \E P2, F2, m2, c2, n2 : State(P2, F2, m2, c2, n2)'
<1> DEFINE x == F[m]
           h == HeadSize
           L == Len(e)
<1>1. at \in {"locked", "step"} /\ Len(line) >= HeadSize /\ (port = "serial" => IsStart(Header))
  BY DEF Frame
<1>2. /\ Len(line) >= 1 /\ h \in {2, 4}
      /\ IsStart(Header) <=> Header[1] = Start[1] /\ Header[2] = Start[2]
  <2>1. HeadSize \in {2, 4} /\ Len(line) \in Nat  BY <1>1, HeaderIs DEF TypeInv
  <2>2. QED  BY <1>1, <2>1, HeaderIs
<1>3. /\ sent \in Nat /\ m \in 1 .. sent /\ m \in Nat /\ m >= 1 /\ c \in Nat
      /\ x \in Seq(Cell) /\ Len(x) \in Nat /\ Len(x) >= 4
      /\ Outs(m, n) /\ Layout(P, F) /\ Here(P, F, m, c) /\ Frames(F, n)
  BY <1>2, FirstByte DEF State
<1>4. L \in Nat /\ L >= 5  BY Sizes
<1>5. c = 4 - h /\ \A j \in 1 .. 4 : Header[j] = x[j].b
  BY <1>1, Ahead
<1>6. PICK rest : rest = L - 4 + h  OBVIOUS
<1>7. PICK good : good = (IsStart(Header) /\ SumOf(Front(All(rest))) = Last(All(rest)))  OBVIOUS
<1>8. /\ rest \in Nat /\ rest > HeadSize /\ rest >= 1 /\ Read(rest)
      /\ UNCHANGED << port, sent, noise, plain, lengthOk >>
      /\ \/ good /\ at' = "step" /\ out' = Append(out, Which(SubSeq(line, 1, rest)))
         \/ ~ good /\ at' = "seek" /\ out' = out
  BY <1>6, <1>7, FrameReads
<1> HIDE DEF x, h, L
<1>9. c + rest = L /\ c <= 2  BY <1>2, <1>4, <1>5, <1>6
<1>10. rest \in Nat /\ rest >= 1 /\ Len(line) >= rest /\ UNCHANGED << noise, sent >>
  BY <1>8 DEF Read
<1>11. None  BY <1>3 DEF Sync
<1>12. PICK k : k = m + 1  OBVIOUS
<1>13. ASSUME Which(SubSeq(line, 1, rest)) = 0 \/ at' = "seek"
       PROVE  Outs(m, n)' /\ Outs(k, n)' /\ (at' = "step" => port = "serial")
  <2>1. CASE at' = "seek"
    <3>1. out' = out  BY <1>8, <2>1
    <3>2. UNCHANGED << out, noise, sent >>  BY <1>8, <3>1
    <3>3. Outs(m, n)' BY <1>3, <3>2, OutsKept
    <3>4. Outs(k, n)' BY <1>3, <1>12, <3>2, OutsKept
    <3>5. QED  BY <2>1, <3>3, <3>4
  <2>2. CASE at' # "seek"
    <3>1. at' = "step" /\ out' = Append(out, 0)  BY <1>8, <1>13, <2>2
    <3>2. m \in {m, m + 1} /\ k \in {m, m + 1}  BY <1>12
    <3>3. Outs(m, n)' /\ ~ None'  BY <1>3, <1>10, <1>11, <3>1, <3>2, OutsFalse
    <3>4. Outs(k, n)'  BY <1>3, <1>10, <1>11, <3>1, <3>2, OutsFalse
    <3>5. noise' = 1  BY <1>8 DEF Tame, TypeInv
    <3>6. port = "serial"  BY <1>8, <3>3, <3>5 DEF Tame, TypeInv
    <3>7. QED  BY <3>3, <3>4, <3>6
  <2>3. QED  BY <2>1, <2>2
<1>14. at' \in {"seek", "step"}  BY <1>8
<1>15. n \in Nat /\ ~ (k <= n)  BY <1>3, <1>12
<1>16. CASE ~ Marked(x)
  <2>1. ~ IsStart(Header)
    <3>1. Header[1] = x[1].b /\ Header[2] = x[2].b  BY <1>5
    <3>2. QED  BY <1>2, <1>16, <3>1 DEF Marked
  <2>2. port = "usb"  BY <1>1, <2>1 DEF TypeInv
  <2>3. Len(x) = L  BY <1>16, <2>2 DEF Hurt, x, L
  <2>4. at' = "seek"  BY <1>7, <1>8, <2>1
  <2>5. c + rest = Len(F[m])  BY <1>9, <2>3 DEF x
  <2>6. Outs(k, n)'  BY <1>13, <2>4
  <2>7. QED  BY <1>3, <1>8, <1>12, <1>14, <1>15, <2>5, <2>6, Over
<1>17. CASE Marked(x) /\ Len(x) = L /\ \E j \in 5 .. L : x[j].of = 0
  <2>1. PICK j \in 5 .. L : x[j].of = 0  BY <1>17
  <2>2. j - c \in 1 .. rest /\ j - c \in Nat /\ j - c >= 1 /\ c + (j - c) = j /\ j <= Len(x)
    BY <1>3, <1>4, <1>9, <1>10, <1>17
  <2>3. line[j - c] = x[c + (j - c)]
    <3>1. m <= sent  BY <1>3
    <3>2. \A q \in Nat : q >= 1 /\ c + q <= Len(F[m]) => line[q] = F[m][c + q]
      BY <1>1, <3>1, Window
    <3>3. QED  BY <2>2, <3>2 DEF x
  <2>4. line[j - c].of = 0  BY <2>1, <2>2, <2>3
  <2>5. Which(SubSeq(line, 1, rest)) = 0  BY <1>10, <2>2, <2>4, WhichIs
  <2>6. c + rest = Len(F[m])  BY <1>9, <1>17 DEF x
  <2>7. Outs(k, n)'  BY <1>13, <2>5
  <2>8. QED  BY <1>3, <1>8, <1>12, <1>14, <1>15, <2>6, <2>7, Over
<1>18. CASE Marked(x) /\ Len(x) = L + 1 /\ ~ x[L].last /\ x[Len(x)].b # Start[1]
  <2>1. line[rest] = x[L]
    <3>1. m <= sent /\ c + rest <= Len(x)  BY <1>3, <1>4, <1>9, <1>18
    <3>2. \A q \in Nat : q >= 1 /\ c + q <= Len(F[m]) => line[q] = F[m][c + q]
      BY <1>1, <3>1, Window
    <3>3. QED  BY <1>8, <1>9, <3>1, <3>2 DEF x
  <2>2. Which(SubSeq(line, 1, rest)) = 0  BY <1>10, <1>18, <2>1, WhichIs
  <2>3. Outs(m, n)' /\ (at' = "step" => port = "serial")  BY <1>13, <2>2
  <2>4. Quiet(x, L)
    <3>1. \A j \in 1 .. Len(x) : j > L => j = Len(x)  BY <1>4, <1>18
    <3>2. QED  BY <1>18, <3>1 DEF Quiet
  <2>5. L >= 1 /\ m <= sent' /\ m \in {n, n + 1} /\ L + 1 = Len(x) /\ ~ (m = n + 1) /\ noise' # 0 /\ port' = port
    BY <1>3, <1>4, <1>8, <1>18
  <2>6. PICK d : d = L  OBVIOUS
  <2>7. Quiet(F[m], d) /\ d >= 1 /\ d + 1 = Len(F[m])  BY <2>4, <2>5, <2>6 DEF x
  <2>8. Lag(F, m, d, n)'
    BY <1>14, <2>3, <2>5, <2>7 DEF Lag, Quiet
  <2>9. /\ d \in Nat /\ d = c + rest /\ (m <= sent => d < Len(F[m]))
        /\ UNCHANGED << port, sent, plain >>
    BY <1>4, <1>8, <1>9, <1>18, <2>6 DEF x
  <2>10. QED  BY <1>8, <2>3, <2>8, <2>9, Within
<1>19. CASE Marked(x) /\ Len(x) = L - 1
  <2>1. k <= sent /\ k \in 1 .. sent /\ k # n
    <3>1. rest \in Nat /\ rest >= 1 /\ Len(line) >= rest /\ c + rest > Len(F[m])
      BY <1>4, <1>9, <1>10, <1>19 DEF x
    <3>2. m + 1 <= sent  BY <1>3, <3>1, More
    <3>3. QED  BY <1>3, <1>12, <3>2
  <2>2. PICK f : Framed(f) /\ Sound(F[k], f, k) /\ (noise # 0 => Quiet(F[k], 1))
    BY <1>3, <2>1, FrameIs
  <2>3. Len(F[k]) = Len(f) /\ Len(f) \in Nat /\ Len(f) >= 5 /\ F[k][1].last = (1 = Len(f))
    <3>1. k \in Nat  BY <1>3, <1>12
    <3> DEFINE y == F[k]
    <3>5. k \in Nat /\ Sound(y, f, k)  BY <2>2, <3>1
    <3> HIDE DEF y
    <3>6. /\ Len(y) = Len(f) /\ Len(f) \in Nat /\ Len(f) >= 5
          /\ \A j \in 1 .. Len(f) : y[j].last = (j = Len(f))
      BY ONLY <3>5, SoundIs
    <3>2. /\ Len(F[k]) = Len(f) /\ Len(f) \in Nat /\ Len(f) >= 5
          /\ \A j \in 1 .. Len(f) : F[k][j].last = (j = Len(f))
      BY <3>6 DEF y
    <3>3. 1 \in 1 .. Len(f)  BY <3>2
    <3>4. QED  BY <3>2, <3>3
  <2>4. line[rest] = F[k][1]
    <3>1. /\ rest \in Nat /\ c + rest > Len(F[m]) /\ c + rest <= Len(F[m]) + Len(F[m + 1])
          /\ c + rest - Len(F[m]) = 1 /\ m + 1 <= sent
      <4> DEFINE l == Len(x)
                 l2 == Len(F[k])
      <4>1. l \in Nat /\ l = L - 1 /\ l2 \in Nat /\ l2 >= 5  BY <1>3, <1>19, <2>3
      <4> HIDE DEF l, l2
      <4>2. c + rest > l /\ c + rest <= l + l2 /\ c + rest - l = 1  BY <1>3, <1>4, <1>8, <1>9, <4>1
      <4>3. QED  BY <1>8, <1>12, <2>1, <4>2 DEF l, l2, x
    <3>2. line[rest] = F[m + 1][c + rest - Len(F[m])]
      <4>1. PICK q : q = rest  OBVIOUS
      <4>2. /\ q \in Nat /\ c + q > Len(F[m]) /\ c + q <= Len(F[m]) + Len(F[m + 1])
            /\ m + 1 <= sent
        BY <3>1, <4>1
      <4>3. Layout(P, F) /\ Here(P, F, m, c)  BY <1>3
      <4>4. PICK m2 : m2 = m + 1  OBVIOUS
      <4>5. PICK d : d = c + q - Len(F[m])  OBVIOUS
      <4>6. m2 <= sent /\ c + q <= Len(F[m]) + Len(F[m2])  BY <4>2, <4>4
      <4>7. line[q] = F[m2][d]
        <5>1. InNext(F, m, c, q, m2, d)  BY <4>2, <4>4, <4>5, <4>6 DEF InNext
        <5>2. QED  BY <4>3, <5>1, Past
      <4>8. QED  BY <4>1, <4>4, <4>5, <4>7
    <3>3. QED  BY <1>12, <3>1, <3>2
  <2>5. ~ line[rest].last
    <3> DEFINE l == Len(f)
    <3>1. l \in Nat /\ l >= 5  BY <2>3
    <3> HIDE DEF l
    <3>2. 1 # l  BY <3>1
    <3>3. QED  BY <2>3, <2>4, <3>2 DEF l
  <2>6. Which(SubSeq(line, 1, rest)) = 0  BY <1>10, <2>5, WhichIs
  <2>7. Outs(k, n)' /\ (at' = "step" => port = "serial")  BY <1>13, <2>6
  <2>8. PICK d : d = 1  OBVIOUS
  <2>9. /\ k <= sent' /\ noise' # 0 /\ port' = port /\ k \in {n, n + 1} /\ d >= 1
        /\ Quiet(F[k], d) /\ d + 4 <= Len(F[k]) /\ d < Len(F[k])
    BY <1>8, <1>12, <2>1, <2>2, <2>3, <2>8
  <2>10. Lag(F, k, d, n)'
    BY <1>14, <2>1, <2>7, <2>9 DEF Lag, Quiet
  <2>11. /\ d \in Nat
         /\ (k = m /\ d = c + rest) \/ (k = m + 1 /\ m <= sent /\ d = c + rest - Len(F[m]))
         /\ (k <= sent => d < Len(F[k]))
         /\ UNCHANGED << port, sent, plain >>
    <3> DEFINE l == Len(x)
    <3>1. l \in Nat /\ l = L - 1  BY <1>3, <1>19
    <3> HIDE DEF l
    <3>2. 1 = c + rest - l  BY <1>3, <1>4, <1>8, <1>9, <3>1
    <3>3. m <= sent  BY <1>3
    <3>4. QED  BY <1>8, <1>12, <2>8, <2>9, <3>2, <3>3 DEF l, x
  <2>12. QED  BY <1>8, <2>7, <2>10, <2>11, Onward
<1>20. QED
  <2>1. Marked(x) => \/ Len(x) = L - 1
                     \/ Len(x) = L /\ \E j \in 5 .. L : x[j].of = 0
                     \/ Len(x) = L + 1 /\ ~ x[L].last /\ x[Len(x)].b # Start[1]
    BY DEF Hurt, x, L
  <2>2. QED  BY <1>16, <1>17, <1>18, <1>19, <2>1

LEMMA FrameStep ==
  ASSUME TypeInv, Tame, Tame', NEW P, NEW F, NEW m, NEW c, NEW n, State(P, F, m, c, n), Frame
  PROVE  \E P2, F2, m2, c2, n2 : State(P2, F2, m2, c2, n2)'
<1>1. at \in {"locked", "step"} /\ Len(line) >= HeadSize /\ (port = "serial" => IsStart(Header))
  BY DEF Frame
<1>2. PICK e : /\ Framed(e) /\ LengthOf(Header) = Len(e)
               /\ \/ Sync(F, m, c, n) /\ m # n /\ Sound(F[m], e, m) /\ (noise # 0 => Quiet(F[m], 1))
                  \/ Sync(F, m, c, n) /\ m = n /\ noise # 0 /\ Hurt(F[m], e, m)
                  \/ Shifted(F, m, c, n) /\ Slipped(F[m], e, m)
  BY <1>1, LengthIs
<1>3. QED  BY <1>2, WholeStep, HurtStep, ShiftedStep

-----------------------------------------------------------------------------
(* What is sent.                                                           *)

\* One frame more on the line: the one that noise has touched, or a sound one.
LEMMA PutStep ==
  ASSUME TypeInv, NEW P, NEW F, NEW m, NEW c, NEW n, State(P, F, m, c, n),
         NEW body \in Bodies, NEW x \in Seq(Cell), Len(x) >= 4, Put(body, x),
         UNCHANGED << port, at, out >>, NEW n2,
         \/ noise' = noise /\ n2 = n /\ Sound(x, Encode(body), sent + 1)
         \/ noise = 0 /\ noise' = 1 /\ n2 = sent + 1 /\ Hurt(x, Encode(body), sent + 1)
  PROVE  \E P2, F2, m3, c3, n3 : State(P2, F2, m3, c3, n3)'
<1>1. /\ sent \in Nat /\ sent' = sent + 1 /\ line' = line \o x /\ (plain' <=> plain /\ Plain(body))
      /\ Layout(P, F) /\ Here(P, F, m, c) /\ Frames(F, n) /\ Outs(m, n) /\ m \in 1 .. sent + 1
      /\ Sync(F, m, c, n) \/ Shifted(F, m, c, n) \/ Lag(F, m, c, n)
  BY DEF TypeInv, Put, State, Here
<1>2. PICK G : G = [i \in 1 .. sent + 1 |-> IF i = sent + 1 THEN x ELSE F[i]]
  OBVIOUS
<1>3. PICK Q : Layout(Q, G)' /\ Here(Q, G, m, c)'
  <2>1. Len(x) >= 1  BY <1>1
  <2>2. QED  BY <1>1, <1>2, <2>1, Extend
<1>4. (\A i \in 1 .. sent : G[i] = F[i] /\ i # sent + 1) /\ G[sent + 1] = x
  BY <1>1, <1>2
<1>5. /\ n2 = n \/ n = -1
      /\ noise' # noise => n = -1 /\ n2 = sent + 1 /\ Len(out) = m - 1 /\ \A i \in DOMAIN out : out[i] = i
  BY <1>1 DEF Outs, TypeInv
<1>6. Frames(G, n2)'
  <2>1. ASSUME NEW y, NEW e, NEW i PROVE Hurt(y, e, i)' <=> Hurt(y, e, i)
    <3>1. Slipped(y, e, i)' <=> Slipped(y, e, i)  BY DEF Slipped
    <3>2. QED  BY <3>1 DEF Hurt, Quiet, Marked
  <2>2. ASSUME NEW y, NEW e, NEW i PROVE Sound(y, e, i)' <=> Sound(y, e, i)
    BY DEF Sound
  <2>3. ASSUME NEW i \in 1 .. sent
        PROVE  \E e : /\ Framed(e)' /\ (plain' => NoStart(e)')
                      /\ IF i = n2 THEN Hurt(G[i], e, i)' ELSE Sound(G[i], e, i)'
    <3>1. PICK e : /\ Framed(e) /\ (plain => NoStart(e))
                   /\ IF i = n THEN Hurt(F[i], e, i) ELSE Sound(F[i], e, i)
      BY <1>1 DEF Frames
    <3>2. Framed(e)' /\ (plain' => NoStart(e)')  BY <1>1, <3>1 DEF Framed, NoStart
    <3>3. (i = n2 <=> i = n) /\ G[i] = F[i]  BY <1>1, <1>4, <1>5 DEF Outs
    <3>4. QED  BY <2>1, <2>2, <3>1, <3>2, <3>3
  <2>4. ASSUME NEW i, i = sent + 1
        PROVE  \E e : /\ Framed(e)' /\ (plain' => NoStart(e)')
                      /\ IF i = n2 THEN Hurt(G[i], e, i)' ELSE Sound(G[i], e, i)'
    <3>1. PICK e : e = Encode(body)  OBVIOUS
    <3>2. Framed(e) /\ (Plain(body) <=> NoStart(e))  BY <3>1, EncodeIs
    <3>3. Framed(e)' /\ (plain' => NoStart(e)')  BY <1>1, <3>2 DEF Framed, NoStart
    <3>4. IF i = n2 THEN Hurt(x, e, i) ELSE Sound(x, e, i)
      <4>1. n \notin {sent + 1}  BY <1>1 DEF Outs
      <4>2. CASE noise' = noise
        <5>1. n2 = n /\ Sound(x, Encode(body), sent + 1)  BY <4>2
        <5>2. i # n2 /\ Sound(x, e, i)  BY <2>4, <3>1, <4>1, <5>1
        <5>3. QED  BY <5>2
      <4>3. CASE noise' # noise
        BY <2>4, <3>1, <4>3
      <4>4. QED  BY <4>2, <4>3
    <3>5. G[i] = x  BY <1>4, <2>4
    <3>6. QED  BY <2>1, <2>2, <3>3, <3>4, <3>5
  <2>5. sent' \in Nat /\ \A i \in 1 .. sent' : i \in 1 .. sent \/ i = sent + 1  BY <1>1
  <2>6. QED  BY <2>3, <2>4, <2>5 DEF Frames
<1>7. Outs(m, n2)' /\ (None => None')
  <2>1. None => None'  BY DEF None
  <2>2. CASE noise' = noise
    <3>1. n2 = n  BY <2>2
    <3>2. noise # 0 => n \in 1 .. sent'  BY <1>1 DEF Outs
    <3>3. QED  BY <1>1, <2>1, <2>2, <3>1, <3>2 DEF Outs
  <2>3. CASE noise' # noise
    <3>1. noise' = 1 /\ n2 = sent + 1 /\ n2 \in 1 .. sent'  BY <1>1, <2>3
    <3>2. out \in Seq(Nat) /\ DOMAIN out = 1 .. m - 1 /\ \A i \in DOMAIN out : out[i] = i
      BY <1>5, <2>3 DEF TypeInv
    <3>3. \A i \in 1 .. m - 1 : \E j \in DOMAIN out : out[j] = i  BY <3>2
    <3>4. \A i \in DOMAIN out : out[i] # 0  BY <3>2
    <3>5. QED  BY <2>1, <3>1, <3>3, <3>4 DEF Outs
  <2>4. QED  BY <2>2, <2>3
<1>8. m <= sent => m <= sent' /\ G[m] = F[m]
  BY <1>1, <1>4
<1>9. CASE noise' = noise
  <2>1. n2 = n  BY <1>9
  <2>2. Sync(F, m, c, n) => Sync(G, m, c, n2)'
    BY <1>7, <1>8, <2>1 DEF Sync, Marked
  <2>3. Shifted(F, m, c, n) => Shifted(G, m, c, n2)'
    <3>1. SUFFICES ASSUME Shifted(F, m, c, n) PROVE Shifted(G, m, c, n2)'
      OBVIOUS
    <3>2. PICK e : Framed(e) /\ Slipped(F[m], e, m)  BY <3>1 DEF Shifted
    <3>3. Framed(e)' /\ Slipped(G[m], e, m)'
      <4>1. G[m] = F[m]  BY <1>8, <3>1 DEF Shifted
      <4>2. QED  BY <3>2, <4>1 DEF Framed, Slipped
    <3>4. QED  BY <1>7, <1>8, <1>9, <2>1, <3>1, <3>3 DEF Shifted
  <2>4. Lag(F, m, c, n) => Lag(G, m, c, n2)'
    BY <1>8, <1>9, <2>1 DEF Lag, Quiet
  <2>5. State(Q, G, m, c, n2)'
    BY <1>1, <1>3, <1>6, <1>7, <2>2, <2>3, <2>4 DEF State
  <2>6. QED  BY <2>5
<1>10. CASE noise' # noise
  <2>1. noise = 0 /\ None
    <3>1. out \in Seq(Nat) /\ \A i \in DOMAIN out : out[i] = i  BY <1>5, <1>10 DEF TypeInv
    <3>2. \A i \in DOMAIN out : out[i] # 0  BY <3>1
    <3>3. QED  BY <1>10, <3>2 DEF None
  <2>2. Sync(F, m, c, n)  BY <1>1, <2>1 DEF Shifted, Lag
  <2>3. Sync(G, m, c, n2)'
    BY <1>7, <1>8, <2>1, <2>2 DEF Sync, Marked
  <2>4. State(Q, G, m, c, n2)'
    BY <1>3, <1>6, <1>7, <2>3 DEF State
  <2>5. QED  BY <2>4
<1>11. QED  BY <1>9, <1>10

LEMMA SendStep ==
  ASSUME TypeInv, NEW P, NEW F, NEW m, NEW c, NEW n, State(P, F, m, c, n),
         NEW body \in Bodies, Send(body)
  PROVE  \E P2, F2, m2, c2, n2 : State(P2, F2, m2, c2, n2)'
<1>1. PICK x : x = Tagged(Encode(body), sent + 1)
  OBVIOUS
<1>2. PICK i : i = sent + 1 /\ i \in Nat
  BY DEF TypeInv
<1>3. Framed(Encode(body))  BY EncodeIs
<1>4. PICK e : e = Encode(body)  OBVIOUS
<1>5. Sound(x, e, i)  BY <1>1, <1>2, <1>3, <1>4 DEF Sound
<1>6. x \in Seq(Cell) /\ Len(x) = Len(e) /\ Len(e) \in Nat /\ Len(e) >= 5
  BY ONLY <1>2, <1>5, SoundIs
<1>7. Len(x) >= 4  BY <1>6
<1>8. Put(body, x) /\ UNCHANGED << port, at, out >> /\ noise' = noise  BY <1>1 DEF Send
<1>9. Sound(x, Encode(body), sent + 1)  BY <1>2, <1>4, <1>5
<1>10. PICK n2 : n2 = n  OBVIOUS
<1>11. noise' = noise /\ n2 = n /\ Sound(x, Encode(body), sent + 1)  BY <1>8, <1>9, <1>10
<1>12. QED  BY <1>6, <1>7, <1>8, <1>11, PutStep

LEMMA SendNoisyStep ==
  ASSUME TypeInv, Tame', NEW P, NEW F, NEW m, NEW c, NEW n, State(P, F, m, c, n),
         NEW body \in Bodies, SendNoisy(body)
  PROVE  \E P2, F2, m2, c2, n2 : State(P2, F2, m2, c2, n2)'
<1>1. PICK k \in 1 .. Len(body) + 5, b \in Byte, kind \in {"drop", "alter", "add"} :
        /\ kind = "alter" => b # Tagged(Encode(body), sent + 1)[k].b
        /\ Put(body, CASE kind = "drop"  -> Dropped(Tagged(Encode(body), sent + 1), k)
                       [] kind = "alter" -> Altered(Tagged(Encode(body), sent + 1), k, b)
                       [] kind = "add"   -> Added(Tagged(Encode(body), sent + 1), k, b))
        /\ lengthOk' = (lengthOk /\ ~ TouchesLength(kind, k, b))
  BY DEF SendNoisy
<1>2. noise' = noise + 1 /\ UNCHANGED << port, at, out >>  BY DEF SendNoisy
<1>3. noise = 0 /\ noise' = 1 /\ plain' /\ lengthOk'
  BY <1>2 DEF Tame, TypeInv
<1>4. ~ TouchesLength(kind, k, b) /\ Plain(body) /\ port \in {"serial", "usb"}
  BY <1>1, <1>3 DEF Put, TypeInv
<1>5. PICK e : e = Encode(body)  OBVIOUS
<1>6. PICK i : i = sent + 1 /\ i \in Nat
  BY DEF TypeInv
<1>7. Framed(e) /\ NoStart(e) /\ Len(e) = Size(body)  BY <1>4, <1>5, EncodeIs
<1>8. k \in 1 .. Len(e)  BY <1>7 DEF Size
<1>9. PICK t : t = Tagged(e, i)  OBVIOUS
<1>10. PICK x : x = CASE kind = "drop"  -> Dropped(t, k)
                      [] kind = "alter" -> Altered(t, k, b)
                      [] kind = "add"   -> Added(t, k, b)
  OBVIOUS
<1>11. Put(body, x) /\ (kind = "alter" => b # t[k].b)
  BY <1>1, <1>5, <1>6, <1>9, <1>10
<1>12. t[k].b = e[k]
  <2>1. Sound(t, e, i)  BY <1>7, <1>9 DEF Sound
  <2>2. \A j \in 1 .. Len(e) : t[j].b = e[j]  BY <1>6, <2>1, SoundIs
  <2>3. QED  BY <1>8, <2>2
<1>13. Hurt(x, e, i)
  <2>1. CASE kind = "drop"
    <3>1. x = Dropped(Tagged(e, i), k)  BY <1>9, <1>10, <2>1
    <3>2. ~ TouchesLength("drop", k, b)  BY <1>4, <2>1
    <3>3. QED  BY <1>4, <1>6, <1>7, <1>8, <3>1, <3>2, DropHurts
  <2>2. CASE kind = "alter"
    <3>1. x = Altered(Tagged(e, i), k, b)  BY <1>9, <1>10, <2>2
    <3>2. ~ TouchesLength("alter", k, b) /\ b # e[k]  BY <1>4, <1>11, <1>12, <2>2
    <3>3. QED  BY <1>4, <1>6, <1>7, <1>8, <3>1, <3>2, AlterHurts
  <2>3. CASE kind = "add"
    <3>1. x = Added(Tagged(e, i), k, b)  BY <1>9, <1>10, <2>3
    <3>2. ~ TouchesLength("add", k, b)  BY <1>4, <2>3
    <3>3. QED  BY <1>4, <1>6, <1>7, <1>8, <3>1, <3>2, AddHurts
  <2>4. QED  BY <2>1, <2>2, <2>3
<1>14. x \in Seq(Cell) /\ Len(x) >= 4  BY <1>13 DEF Hurt
<1>15. PICK n2 : n2 = sent + 1  OBVIOUS
<1>16. noise = 0 /\ noise' = 1 /\ n2 = sent + 1 /\ Hurt(x, Encode(body), sent + 1)
  BY <1>3, <1>5, <1>6, <1>13, <1>15
<1>17. QED  BY <1>2, <1>11, <1>14, <1>16, PutStep

-----------------------------------------------------------------------------
(* The invariant holds.                                                    *)

LEMMA ReadIs ==
  ASSUME TypeInv, NEW r \in Nat, Read(r)
  PROVE  line' \in Seq(Cell)
BY DEF TypeInv, Read

LEMMA SendTypes ==
  ASSUME TypeInv, NEW body \in Bodies, Send(body) \/ SendNoisy(body)
  PROVE  TypeInv'
<1>1. PICK i : i = sent + 1 /\ i \in Nat
  BY DEF TypeInv
<1>2. PICK e : e = Encode(body)  OBVIOUS
<1>3. PICK t : t = Tagged(e, i)  OBVIOUS
<1>4. e \in Seq(Nat) /\ Len(e) = Len(body) + 5  BY <1>2, EncodeIs DEF Framed, Size
<1>5. t \in Seq(Cell) /\ Len(t) = Len(e)  BY <1>1, <1>3, <1>4, TaggedIs
<1>6. ASSUME NEW x \in Seq(Cell), Put(body, x)
      PROVE  line' \in Seq(Cell) /\ sent' \in Nat /\ plain' \in BOOLEAN
  <2>1. line' = line \o x /\ line \in Seq(Cell)  BY <1>6 DEF Put, TypeInv
  <2>2. line \o x \in Seq(Cell)  BY ONLY <1>6, <2>1, Joined
  <2>3. QED  BY <1>6, <2>1, <2>2 DEF Put, Plain, TypeInv
<1>7. CASE Send(body)
  <2>1. Put(body, t)  BY <1>1, <1>2, <1>3, <1>7 DEF Send
  <2>2. QED  BY <1>5, <1>6, <1>7, <2>1 DEF Send, TypeInv
<1>8. CASE SendNoisy(body)
  <2>1. PICK k \in 1 .. Len(body) + 5, b \in Byte, kind \in {"drop", "alter", "add"} :
          /\ Put(body, CASE kind = "drop"  -> Dropped(Tagged(Encode(body), sent + 1), k)
                         [] kind = "alter" -> Altered(Tagged(Encode(body), sent + 1), k, b)
                         [] kind = "add"   -> Added(Tagged(Encode(body), sent + 1), k, b))
          /\ lengthOk' = (lengthOk /\ ~ TouchesLength(kind, k, b))
    BY <1>8 DEF SendNoisy
  <2>2. PICK x : x = CASE kind = "drop"  -> Dropped(t, k)
                       [] kind = "alter" -> Altered(t, k, b)
                       [] kind = "add"   -> Added(t, k, b)
    OBVIOUS
  <2>3. k \in 1 .. Len(t)  BY <1>4, <1>5
  <2>4. x \in Seq(Cell)  BY <1>5, <2>2, <2>3, DroppedIs, AlteredIs, AddedIs
  <2>5. Put(body, x)  BY <1>1, <1>2, <1>3, <2>1, <2>2
  <2>6. lengthOk' \in BOOLEAN  BY <2>1 DEF TouchesLength, TypeInv
  <2>7. QED  BY <1>6, <1>8, <2>4, <2>5, <2>6 DEF SendNoisy, TypeInv
<1>9. QED  BY <1>7, <1>8

LEMMA FrameTypes ==
  ASSUME TypeInv, Frame
  PROVE  TypeInv'
<1>1. at \in {"locked", "step"} /\ Len(line) >= HeadSize  BY DEF Frame
<1>2. HeadSize \in {2, 4} /\ LengthOf(Header) \in Nat  BY <1>1, HeaderIs
<1>3. PICK rest : rest = LengthOf(Header) - 4 + HeadSize  OBVIOUS
<1>4. Read(rest) /\ ~ (LengthOf(Header) < 4)  BY <1>3 DEF Frame, NoSlice
<1>5. rest \in Nat /\ rest >= 1  BY <1>2, <1>3, <1>4
<1>6. line' \in Seq(Cell)  BY <1>4, <1>5, ReadIs
<1>7. Which(SubSeq(line, 1, rest)) \in Nat
  <2>1. Len(line) >= rest  BY <1>4 DEF Read
  <2>2. QED  BY <1>5, <2>1, WhichIs
<1>8. out' = out \/ out' = Append(out, Which(SubSeq(line, 1, rest)))
  BY <1>3 DEF Frame
<1>9. at' \in {"dead", "step", "seek"} /\ UNCHANGED << port, sent, noise, plain, lengthOk >>
  BY DEF Frame
<1>10. out' \in Seq(Nat)
  <2>1. PICK w : w = Which(SubSeq(line, 1, rest))  OBVIOUS
  <2>2. w \in Nat /\ (out' = out \/ out' = Append(out, w)) /\ out \in Seq(Nat)
    BY <1>7, <1>8, <2>1 DEF TypeInv
  <2>3. QED  BY <2>2
<1>11. QED  BY <1>6, <1>9, <1>10 DEF TypeInv

LEMMA NextTypes ==
  ASSUME TypeInv, [Next]_vars
  PROVE  TypeInv'
<1>1. CASE \E body \in Bodies : Send(body) \/ SendNoisy(body)
  BY <1>1, SendTypes
<1>2. CASE Seek
  <2>1. line' \in Seq(Cell)  BY <1>2, ReadIs DEF Seek
  <2>2. QED  BY <1>2, <2>1 DEF Seek, TypeInv
<1>3. CASE Second
  <2>1. line' \in Seq(Cell)  BY <1>3, ReadIs DEF Second
  <2>2. QED  BY <1>3, <2>1 DEF Second, TypeInv
<1>4. CASE FalseStart
  <2>1. HeadSize \in Nat  BY DEF HeadSize
  <2>2. line' \in Seq(Cell)  BY <1>4, <2>1, ReadIs DEF FalseStart
  <2>3. QED  BY <1>4, <2>2 DEF FalseStart, TypeInv
<1>5. CASE Broken
  <2>1. HeadSize \in Nat  BY DEF HeadSize
  <2>2. line' \in Seq(Cell)  BY <1>5, <2>1, ReadIs DEF Broken
  <2>3. QED  BY <1>5, <2>2 DEF Broken, TypeInv
<1>6. CASE Frame
  BY <1>6, FrameTypes
<1>7. CASE UNCHANGED vars
  BY <1>7 DEF vars, TypeInv
<1>8. QED  BY <1>1, <1>2, <1>3, <1>4, <1>5, <1>6, <1>7 DEF Next

\* What noise has done, and what was passed on, stays.
LEMMA WasTame ==
  ASSUME TypeInv, TypeInv', [Next]_vars, Tame'
  PROVE  Tame
<1>1. port' = port /\ noise' >= noise /\ (plain' => plain) /\ (lengthOk' => lengthOk)
  <2>1. ASSUME NEW body \in Bodies, Send(body) \/ SendNoisy(body)
        PROVE  port' = port /\ noise' >= noise /\ (plain' => plain) /\ (lengthOk' => lengthOk)
    BY <2>1 DEF Send, SendNoisy, Put, TypeInv
  <2>2. CASE Seek \/ Second \/ FalseStart \/ Broken \/ Frame \/ UNCHANGED vars
    BY <2>2 DEF Seek, Second, FalseStart, Broken, Frame, vars, TypeInv
  <2>3. QED  BY <2>1, <2>2 DEF Next
<1>2. None' => None
  <2>1. out' = out \/ \E v : out' = Append(out, v)
    <3>1. ASSUME NEW body \in Bodies, Send(body) \/ SendNoisy(body) PROVE out' = out
      BY <3>1 DEF Send, SendNoisy
    <3>2. CASE Frame
      BY <3>2 DEF Frame
    <3>3. CASE Seek \/ Second \/ FalseStart \/ Broken \/ UNCHANGED vars
      BY <3>3 DEF Seek, Second, FalseStart, Broken, vars
    <3>4. QED  BY <3>1, <3>2, <3>3 DEF Next
  <2>2. CASE out' = out  BY <2>2 DEF None
  <2>3. ASSUME NEW v, out' = Append(out, v), None' PROVE None
    <3>1. \A j \in DOMAIN out : j \in DOMAIN out' /\ out'[j] = out[j]
      BY <2>3 DEF TypeInv
    <3>2. QED  BY <2>3, <3>1 DEF None
  <2>4. QED  BY <2>1, <2>2, <2>3
<1>3. noise' = 0 \/ noise' = 1  BY DEF Tame, TypeInv
<1>4. noise \in Nat  BY DEF TypeInv
<1>5. CASE noise = 0
  BY <1>5 DEF Tame
<1>6. CASE noise # 0
  <2>1. noise = 1 /\ noise' = 1  BY <1>1, <1>3, <1>4, <1>6
  <2>2. QED  BY <1>1, <1>2, <2>1 DEF Tame
<1>7. QED  BY <1>5, <1>6

LEMMA StateStays ==
  ASSUME UNCHANGED vars, NEW P, NEW F, NEW m, NEW c, NEW n, State(P, F, m, c, n)
  PROVE  State(P, F, m, c, n)'
<1>1. Layout(P, F)' /\ Here(P, F, m, c)'  BY DEF vars, State, Layout, Here
<1>2. Frames(F, n)'
  BY DEF vars, State, Frames, Framed, NoStart, Hurt, Sound, Slipped, Quiet, Marked
<1>3. Outs(m, n)'  BY DEF vars, State, Outs
<1>4. (Sync(F, m, c, n) => Sync(F, m, c, n)') /\ (Shifted(F, m, c, n) => Shifted(F, m, c, n)')
      /\ (Lag(F, m, c, n) => Lag(F, m, c, n)')
  BY DEF vars, Sync, Shifted, Lag, None, Marked, Framed, Slipped, Quiet
<1>5. QED  BY <1>1, <1>2, <1>3, <1>4 DEF State

LEMMA InitInv == Init => IInv
<1>1. SUFFICES ASSUME Init PROVE IInv
  OBVIOUS
<1>2. TypeInv  BY <1>1 DEF Init, TypeInv
<1>3. PICK P : P = [i \in 1 .. 1 |-> 0]  OBVIOUS
<1>4. PICK F : F = [i \in 1 .. 0 |-> << >>]  OBVIOUS
<1>5. PICK m : m = 1  OBVIOUS
<1>6. PICK c : c = 0  OBVIOUS
<1>7. PICK n : n = -1  OBVIOUS
<1>8. sent = 0 /\ line = << >> /\ out = << >> /\ noise = 0 /\ at = "seek"  BY <1>1 DEF Init
<1>9. Layout(P, F) /\ Here(P, F, m, c)
  <2>1. 1 .. 0 = {} /\ 1 .. 1 = {1} /\ Len(line) = 0  BY <1>8
  <2>2. P \in [1 .. 1 -> Int] /\ P[1] = 0  BY <1>3
  <2>3. F \in [1 .. 0 -> Seq(Cell)]  BY <1>4, <2>1
  <2>4. sent + 1 = 1 /\ 1 .. sent = {} /\ 1 .. sent + 1 = {1}  BY <1>8
  <2>5. Layout(P, F)
    <3>1. sent + 1 = 1  BY <1>8
    <3>2. P \in [1 .. sent + 1 -> Int] /\ F \in [1 .. sent -> Seq(Cell)]  BY <1>8, <2>2, <2>3
    <3>3. P[sent + 1] = Len(line)  BY <1>8, <2>1, <2>2
    <3>4. \A i \in 1 .. sent : FALSE  BY <2>4
    <3>5. \A i, j \in 1 .. sent + 1 : P[i] <= P[j]  BY <2>2, <2>4
    <3>6. QED  BY <3>2, <3>3, <3>4, <3>5 DEF Layout
  <2>6. Here(P, F, m, c)
    <3>1. m \in 1 .. sent + 1 /\ ~ (m <= sent)  BY <1>5, <1>8
    <3>2. c \in Nat /\ c <= 0  BY <1>6
    <3>5. -c = 0
      <4>1. -c \in Int /\ -c >= 0 /\ -c <= 0  BY ONLY <3>2
      <4>2. QED  BY ONLY <4>1
    <3>3. P[m] = 0  BY <1>5, <2>2
    <3>4. QED  BY <3>1, <3>2, <3>3, <3>5 DEF Here
  <2>7. QED  BY <2>5, <2>6
<1>10. Frames(F, n)
  <2>1. 1 .. sent = {}  BY <1>8
  <2>2. QED  BY <2>1 DEF Frames
<1>11. Outs(m, n)  BY <1>5, <1>7, <1>8 DEF Outs
<1>12. Sync(F, m, c, n)  BY <1>5, <1>6, <1>7, <1>8 DEF Sync
<1>13. State(P, F, m, c, n)  BY <1>9, <1>10, <1>11, <1>12 DEF State
<1>14. QED  BY <1>2, <1>13 DEF IInv

LEMMA NextInv == IInv /\ [Next]_vars => IInv'
<1>1. SUFFICES ASSUME IInv, [Next]_vars PROVE IInv'
  OBVIOUS
<1>2. TypeInv /\ TypeInv'  BY <1>1, NextTypes DEF IInv
<1>3. SUFFICES ASSUME Tame' PROVE \E P, F, m, c, n : State(P, F, m, c, n)'
  BY <1>2 DEF IInv
<1>4. Tame  BY <1>1, <1>2, <1>3, WasTame
<1>5. PICK P, F, m, c, n : State(P, F, m, c, n)  BY <1>1, <1>4 DEF IInv
<1>6. ASSUME NEW body \in Bodies, Send(body) PROVE \E P2, F2, m2, c2, n2 : State(P2, F2, m2, c2, n2)'
  BY <1>2, <1>5, <1>6, SendStep
<1>7. ASSUME NEW body \in Bodies, SendNoisy(body) PROVE \E P2, F2, m2, c2, n2 : State(P2, F2, m2, c2, n2)'
  BY <1>2, <1>3, <1>5, <1>7, SendNoisyStep
<1>8. CASE Seek
  BY <1>2, <1>4, <1>5, <1>8, SeekStep
<1>9. CASE Second
  BY <1>2, <1>4, <1>5, <1>9, SecondStep
<1>10. CASE FalseStart
  BY <1>2, <1>4, <1>5, <1>10, FalseStep
<1>11. CASE Broken
  BY <1>2, <1>4, <1>5, <1>11, NeverBroken
<1>12. CASE Frame
  BY <1>2, <1>3, <1>4, <1>5, <1>12, FrameStep
<1>13. CASE UNCHANGED vars
  BY <1>5, <1>13, StateStays
<1>14. QED  BY <1>1, <1>6, <1>7, <1>8, <1>9, <1>10, <1>11, <1>12, <1>13 DEF Next

\* Every variable keeps its type; what is passed on is the number of a frame, or False.
THEOREM FramingTypeCorrect == Spec => []TypeInv
<1>1. Init => TypeInv
  BY DEF Init, TypeInv
<1>2. TypeInv /\ [Next]_vars => TypeInv'
  BY NextTypes
<1>3. QED  BY <1>1, <1>2, PTL DEF Spec

\* Where the thread is in what the line holds, as long as noise has touched one frame at
\* most, that frame's length was not touched, and no body or sum has start bytes.
THEOREM FramingInvariance == Spec => []IInv
BY InitInv, NextInv, PTL DEF Spec

-----------------------------------------------------------------------------
(* What the invariant says of the properties.                              *)

\* A frame that has not been read to its end is on the line.
LEMMA OnLine ==
  ASSUME TypeInv, NEW P, NEW F, Layout(P, F), NEW m, NEW c, Here(P, F, m, c),
         NEW i \in 1 .. sent, m <= i, NEW e, Sound(F[i], e, i)
  PROVE  \E k \in DOMAIN line : line[k].of = i
<1> DEFINE x == F[i]
           l == Len(x)
           p == P[i]
<1>1. sent \in Nat /\ i \in Nat /\ m \in 1 .. sent /\ m \in Nat /\ c \in Nat /\ P[m] = -c
      /\ c < Len(F[m]) /\ line \in Seq(Cell) /\ Len(line) \in Nat
  BY DEF TypeInv, Here
<1>2. l \in Nat /\ l >= 5 /\ x[l].of = i
  <2>1. Sound(x, e, i)  OBVIOUS
  <2> HIDE DEF x
  <2>2. Len(x) = Len(e) /\ Len(e) \in Nat /\ Len(e) >= 5 /\ \A j \in 1 .. Len(e) : x[j].of = i
    BY ONLY <1>1, <2>1, SoundIs
  <2>3. Len(e) \in 1 .. Len(e)  BY <2>2
  <2>4. QED  BY <2>2, <2>3
<1>3. p \in Int /\ p + l >= 1
  <2>1. P \in [1 .. sent + 1 -> Int] /\ i \in 1 .. sent + 1  BY <1>1 DEF Layout
  <2>2. CASE i = m
    BY <1>1, <1>2, <2>2
  <2>3. CASE i # m
    <3>1. P[m + 1] = P[m] + Len(F[m])  BY <1>1 DEF Layout
    <3>2. m + 1 \in 1 .. sent + 1 /\ m + 1 <= i  BY <1>1, <2>3
    <3>3. P[m + 1] <= P[i]  BY <2>1, <3>2 DEF Layout
    <3>4. Len(F[m]) \in Nat
      <4>1. F[m] \in Seq(Cell)  BY <1>1 DEF Layout
      <4>2. QED  BY <4>1
    <3> DEFINE lm == Len(F[m])
               pm == P[m + 1]
    <3>5. lm \in Nat /\ pm = -c + lm /\ c < lm /\ pm <= p /\ p \in Int
      BY <1>1, <2>1, <3>1, <3>3, <3>4
    <3> HIDE DEF lm, pm, p, l
    <3>6. QED  BY <1>1, <1>2, <3>5
  <2>4. QED  BY <2>2, <2>3
<1>4. p + l <= Len(line)
  <2>1. P[i + 1] = p + l  BY DEF Layout
  <2>2. i + 1 \in 1 .. sent + 1 /\ sent + 1 \in 1 .. sent + 1 /\ i + 1 <= sent + 1  BY <1>1
  <2>3. P[i + 1] <= P[sent + 1] /\ P[sent + 1] = Len(line)  BY <2>2 DEF Layout
  <2>4. QED  BY <2>1, <2>3
<1>5. line[p + l] = x[l]
  <2>1. l \in 1 .. l  BY <1>2
  <2>2. QED  BY <1>3, <2>1 DEF Layout
<1>6. p + l \in 1 .. Len(line)
  <2> HIDE DEF p, l
  <2>1. QED  BY <1>1, <1>2, <1>3, <1>4
<1>7. p + l \in DOMAIN line  BY <1>1, <1>6
<1>8. QED  BY <1>2, <1>5, <1>7

\* Frames that are lost, if noise has touched none but n.
LEMMA LostIs ==
  ASSUME TypeInv, Tame, NEW P, NEW F, NEW m, NEW c, NEW n, State(P, F, m, c, n)
  PROVE  /\ at # "dead" /\ Lost \subseteq {n, n + 1}
         /\ noise = 0 => Lost = {} /\ \A i \in DOMAIN out : out[i] = i
<1>1. Layout(P, F) /\ Here(P, F, m, c) /\ Frames(F, n) /\ Outs(m, n) /\ m \in Nat /\ sent \in Nat
  BY DEF State, Here, TypeInv
<1>2. at # "dead"  BY DEF State, Sync, Shifted, Lag
<1>3. ASSUME NEW i \in Lost PROVE i \in {n, n + 1} /\ noise # 0
  <2>1. i \in 1 .. sent /\ (\A k \in DOMAIN line : line[k].of # i) /\ ~ \E j \in DOMAIN out : out[j] = i
    BY DEF Lost, ToSet
  <2>2. CASE i \in 1 .. m - 1
    <3>1. i \in {n, n + 1}  BY <1>1, <2>1, <2>2 DEF Outs
    <3>2. noise = 0 => i \in DOMAIN out /\ out[i] = i  BY <1>1, <2>2 DEF Outs, TypeInv
    <3>3. QED  BY <2>1, <3>1, <3>2
  <2>3. CASE i \notin 1 .. m - 1
    <3>1. m <= i  BY <1>1, <2>1, <2>3
    <3>2. ~ \E e : Sound(F[i], e, i)  BY <1>1, <2>1, <3>1, OnLine
    <3>3. i = n  BY <1>1, <2>1, <3>2 DEF Frames
    <3>4. noise # 0
      <4>1. i # -1  BY <2>1
      <4>2. QED  BY <1>1, <3>3, <4>1 DEF Outs
    <3>5. QED  BY <3>3, <3>4
  <2>4. QED  BY <2>2, <2>3
<1>4. noise = 0 => \A i \in DOMAIN out : out[i] = i  BY <1>1 DEF Outs
<1>5. QED  BY <1>2, <1>3, <1>4

LEMMA FalsesAre ==
  ASSUME TypeInv, \A i, j \in DOMAIN out : out[i] = 0 /\ out[j] = 0 => i = j
  PROVE  Falses \in Nat /\ Falses <= 1
<1> DEFINE T == {i \in DOMAIN out : out[i] = 0}
<1>1. Falses = Cardinality(T)  BY DEF Falses, False
<1>2. CASE T = {}
  BY <1>1, <1>2, FS_EmptySet
<1>3. CASE T # {}
  <2>1. PICK x : x \in T  BY <1>3
  <2>2. T = {x}  BY <2>1
  <2>3. Cardinality({x}) = 1  BY FS_Singleton
  <2>4. QED  BY <1>1, <2>2, <2>3
<1>4. QED  BY <1>2, <1>3

LEMMA NoFalses ==
  ASSUME TypeInv
  PROVE  (Falses = 0) <=> None
<1> DEFINE T == {i \in DOMAIN out : out[i] = 0}
<1>1. Falses = Cardinality(T)  BY DEF Falses, False
<1>2. IsFiniteSet(T)
  <2>1. DOMAIN out = 1 .. Len(out) /\ Len(out) \in Nat  BY DEF TypeInv
  <2>2. IsFiniteSet(1 .. Len(out))  BY <2>1, FS_Interval
  <2>3. T \subseteq 1 .. Len(out)  BY <2>1
  <2>4. QED  BY <2>2, <2>3, FS_Subset
<1>3. Cardinality(T) = 0 <=> T = {}  BY <1>2, FS_EmptySet
<1>4. T = {} <=> None  BY DEF None
<1>5. QED  BY <1>1, <1>3, <1>4

\* While the line is undisturbed, all frames are passed on once, in order, and nothing else.
THEOREM InStepAlways == Spec => []InStep
<1>1. IInv => InStep
  <2>1. SUFFICES ASSUME IInv, noise = 0
                 PROVE  at # "dead" /\ Lost = {} /\ \A i \in DOMAIN out : out[i] = i
    BY DEF InStep
  <2>2. TypeInv /\ Tame  BY <2>1 DEF IInv, Tame
  <2>3. PICK P, F, m, c, n : State(P, F, m, c, n)  BY <2>1, <2>2 DEF IInv
  <2>4. QED  BY <2>1, <2>2, <2>3, LostIs
<1>2. QED  BY <1>1, FramingInvariance, PTL

\* One disturbance costs two frames and one false packet at most, and stops no thread.
THEOREM RecoversAlways == Spec => []Recovers
<1>1. IInv => Recovers
  <2>1. SUFFICES ASSUME IInv, noise <= 1, plain, lengthOk, port = "usb" => Falses = 0
                 PROVE  at # "dead" /\ Cardinality(Lost) <= 2 * noise /\ Falses <= noise
    BY DEF Recovers
  <2>2. TypeInv  BY <2>1 DEF IInv
  <2>3. Tame  BY <2>1, <2>2, NoFalses DEF Tame
  <2>4. PICK P, F, m, c, n : State(P, F, m, c, n)  BY <2>1, <2>3 DEF IInv
  <2>5. /\ at # "dead" /\ Lost \subseteq {n, n + 1}
        /\ noise = 0 => Lost = {} /\ \A i \in DOMAIN out : out[i] = i
    BY <2>2, <2>3, <2>4, LostIs
  <2>6. CASE noise = 0
    <3>1. Cardinality(Lost) = 0  BY <2>5, <2>6, FS_EmptySet
    <3>2. None
      <4>1. DOMAIN out = 1 .. Len(out) /\ Len(out) \in Nat  BY <2>2 DEF TypeInv
      <4>2. \A i \in DOMAIN out : i # 0  BY <4>1
      <4>3. QED  BY <2>5, <2>6, <4>2 DEF None
    <3>3. Falses = 0  BY <2>2, <3>2, NoFalses
    <3>4. QED  BY <2>5, <2>6, <3>1, <3>3
  <2>7. CASE noise # 0
    <3>1. noise = 1  BY <2>1, <2>2, <2>7 DEF TypeInv
    <3>2. Cardinality(Lost) <= 2
      <4>1. IsFiniteSet({n, n + 1}) /\ Cardinality({n, n + 1}) <= 2
        <5>1. n \in Nat  BY <2>2, <2>4, <2>7 DEF State, Outs, TypeInv
        <5>2. IsFiniteSet({n}) /\ Cardinality({n}) = 1  BY FS_Singleton
        <5>3. IsFiniteSet({n} \cup {n + 1}) /\ Cardinality({n} \cup {n + 1}) <= 2
          BY <5>2, FS_AddElement
        <5>4. {n, n + 1} = {n} \cup {n + 1}  OBVIOUS
        <5>5. QED  BY <5>3, <5>4
      <4>2. IsFiniteSet(Lost) /\ Cardinality(Lost) <= Cardinality({n, n + 1})
        BY <2>5, <4>1, FS_Subset
      <4>3. Cardinality(Lost) \in Nat /\ Cardinality({n, n + 1}) \in Nat
        BY <4>1, <4>2, FS_CardinalityType
      <4>4. QED  BY <4>1, <4>2, <4>3
    <3>3. Falses \in Nat /\ Falses <= 1
      <4>1. \A i, j \in DOMAIN out : out[i] = 0 /\ out[j] = 0 => i = j
        BY <2>4 DEF State, Outs
      <4>2. QED  BY <2>2, <4>1, FalsesAre
    <3>4. QED  BY <2>5, <3>1, <3>2, <3>3
  <2>8. QED  BY <2>6, <2>7
<1>2. QED  BY <1>1, FramingInvariance, PTL

=============================================================================
