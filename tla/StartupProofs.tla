---------------------------- MODULE StartupProofs ----------------------------
(***************************************************************************)
(* What the codec does for every byte, packet and range of commands: a     *)
(* payload comes out as it went in, field by field, a packet is recognised *)
(* as its hub's, and with a new number it has the checksum that goes with  *)
(* it.  And, however Java calls and the lines answer, HUB_0 is set before  *)
(* HUB_1, and each packet is what was meant, wherever it is: by an         *)
(* invariant that says what may be in each place, given the exchange open  *)
(* with its number.                                                        *)
(***************************************************************************)
EXTENDS Startup, SequenceTheorems, FiniteSetTheorems, WellFoundedInduction, TLAPS

-----------------------------------------------------------------------------
(* Fields.                                                                 *)

Fixed == {"u8", "bool", "adcChannel", "adcMode", "runMode", "zeroPower", "speed", "u16", "i16",
          "i32", "coef"}

LEMMA Widths ==
  /\ Width["u8"] = 1 /\ Width["bool"] = 1 /\ Width["adcChannel"] = 1 /\ Width["adcMode"] = 1
  /\ Width["runMode"] = 1 /\ Width["zeroPower"] = 1 /\ Width["speed"] = 1
  /\ Width["u16"] = 2 /\ Width["i16"] = 2 /\ Width["i32"] = 4 /\ Width["coef"] = 4
BY DEF Width

(* Little-endian numbers.                                                  *)

LEMMA Interval == ASSUME NEW n \in Nat PROVE \A w : w \in 0 .. n <=> w \in Int /\ 0 <= w /\ w <= n
OBVIOUS

LEMMA WordRange == \A w : w \in Word <=> w \in Int /\ 0 <= w /\ w < 65536
<1> DEFINE n == 65535
<1>1. n \in Nat /\ Word = 0 .. n
  BY DEF Word
<1>2. \A w \in Int : w <= n <=> w < 65536
  OBVIOUS
<1> HIDE DEF n
<1>3. \A w : w \in 0 .. n <=> w \in Int /\ 0 <= w /\ w <= n
  BY <1>1, Interval
<1>4. QED  BY <1>1, <1>2, <1>3

LEMMA Division ==
  ASSUME NEW m \in Nat \ {0}, NEW x \in Int, NEW r \in Int, 0 <= r, r < m
  PROVE  (r + m * x) % m = r /\ (r + m * x) \div m = x
OBVIOUS

LEMMA Signed ==
  ASSUME NEW d \in Byte
  PROVE  Signed8(d) \in Int /\ Signed8(d) % 256 = d
BY DEF Byte, Signed8

LEMMA Digits2 ==
  ASSUME NEW a \in Int, 0 <= a, a < 256, NEW e \in Int
  PROVE  ToLe(2, a + 256 * e) = << a, e % 256 >>
<1> DEFINE v == a + 256 * e
<1>1. v % 256 = a /\ v \div 256 = e
  BY Division
<1>2. v \in Int /\ v \div 1 = v
  OBVIOUS
<1> HIDE DEF v
<1>3. ToLe(2, v) = << v % 256, (v \div 256) % 256 >>
  BY <1>2 DEF ToLe, Place
<1>4. QED  BY <1>1, <1>3 DEF v

LEMMA Bytes1 == ASSUME NEW a \in Byte PROVE ToLe(1, a) = << a >>
BY DEF ToLe, Place, Byte

LEMMA Bytes2 ==
  ASSUME NEW a \in Byte, NEW b \in Byte
  PROVE  /\ ToLe(2, a + 256 * b) = << a, b >>
         /\ ToLe(2, a + 256 * Signed8(b)) = << a, b >>
<1>1. /\ a \in Int /\ 0 <= a /\ a < 256 /\ b \in Int /\ b % 256 = b
      /\ Signed8(b) \in Int /\ Signed8(b) % 256 = b
  BY Signed DEF Byte
<1>2. QED  BY <1>1, Digits2

LEMMA Bytes4 ==
  ASSUME NEW a \in Byte, NEW b \in Byte, NEW c \in Byte, NEW d \in Byte
  PROVE  ToLe(4, FromLeI32(<< a, b, c, d >>)) = << a, b, c, d >>
<1> DEFINE e == Signed8(d)
           v == a + 256 * b + 65536 * c + 16777216 * e
           x == b + 256 * c + 65536 * e
           y == c + 256 * e
           ab == a + 256 * b
           abc == a + 256 * b + 65536 * c
<1>1. /\ a \in Int /\ 0 <= a /\ a < 256 /\ b \in Int /\ 0 <= b /\ b < 256
      /\ c \in Int /\ 0 <= c /\ c < 256
  BY DEF Byte
<1>2. e \in Int /\ e % 256 = d
  BY Signed
<1>3. FromLeI32(<< a, b, c, d >>) = v
  BY DEF FromLeI32
<1> HIDE DEF e
<1>4. /\ v \in Int /\ v \div 1 = v /\ x \in Int /\ y \in Int
      /\ ab \in Int /\ 0 <= ab /\ ab < 65536
      /\ abc \in Int /\ 0 <= abc /\ abc < 16777216
  BY <1>1, <1>2
<1>5. v = a + 256 * x /\ x = b + 256 * y /\ v = ab + 65536 * y /\ v = abc + 16777216 * e
  BY <1>1, <1>2
<1>6. y = c + 256 * e
  OBVIOUS
<1> HIDE DEF v, x, y, ab, abc
<1>7. v % 256 = a /\ v \div 256 = x  BY <1>1, <1>4, <1>5, Division
<1>8. x % 256 = b                     BY <1>1, <1>4, <1>5, Division
<1>9. v \div 65536 = y                BY <1>4, <1>5, Division, SMTT(30)
<1>10. y % 256 = c                    BY <1>1, <1>2, <1>6, Division
<1>11. v \div 16777216 = e            BY ONLY <1>2, <1>4, <1>5
<1>12. ToLe(4, v) = << v % 256, (v \div 256) % 256, (v \div 65536) % 256,
                       (v \div 16777216) % 256 >>
  BY <1>4 DEF ToLe, Place
<1>13. QED  BY <1>2, <1>3, <1>7, <1>8, <1>9, <1>10, <1>11, <1>12

(* Slices of a payload.                                                    *)

LEMMA Slice ==
  ASSUME NEW data \in Seq(Byte), NEW start \in Nat \ {0}, NEW w \in Nat,
         start + w - 1 <= Len(data)
  PROVE  /\ SubSeq(data, start, start + w - 1) \in Seq(Byte)
         /\ Len(SubSeq(data, start, start + w - 1)) = w
         /\ \A i \in 1 .. w : SubSeq(data, start, start + w - 1)[i] = data[start + i - 1]
<1> DEFINE n == start + w - 1
<1>1. n \in Int /\ start \in Int /\ n - start + 1 = w /\ (start <= n <=> w # 0)
  OBVIOUS
<1>2. \A i \in start .. n : data[i] \in Byte
  OBVIOUS
<1> HIDE DEF n
<1>3. /\ SubSeq(data, start, n) \in Seq(Byte)
      /\ Len(SubSeq(data, start, n)) = IF start <= n THEN n - start + 1 ELSE 0
      /\ \A i \in 1 .. n - start + 1 : SubSeq(data, start, n)[i] = data[start + i - 1]
  BY <1>1, <1>2, SubSeqProperties
<1>4. /\ Len(SubSeq(data, start, n)) = w
      /\ \A i \in 1 .. w : SubSeq(data, start, n)[i] = data[start + i - 1]
  BY <1>1, <1>3
<1>5. QED  BY <1>3, <1>4 DEF n

LEMMA Slice1 ==
  ASSUME NEW data \in Seq(Byte), NEW start \in Nat \ {0}, start <= Len(data)
  PROVE  SubSeq(data, start, start)
           = << data[start] >>
<1> DEFINE s == SubSeq(data, start, start)
           t == << data[start] >>
<1>1. s \in Seq(Byte) /\ Len(s) = 1 /\ \A i \in 1 .. 1 : s[i] = data[start + i - 1]
  <2>1. start + 1 - 1 = start  OBVIOUS
  <2>2. QED  BY <2>1, Slice, 1 \in Nat, start + 1 - 1 <= Len(data)
<1>2. t \in Seq(Byte) /\ Len(t) = 1
  OBVIOUS
<1>3. s[1] = t[1]
  BY <1>1
<1> HIDE DEF s, t
<1>4. \A i \in 1 .. 1 : s[i] = t[i]
  BY <1>3
<1>5. s = t  BY <1>1, <1>2, <1>4, SeqEqual, Zenon
<1>6. QED  BY <1>5 DEF s, t

LEMMA Slice2 ==
  ASSUME NEW data \in Seq(Byte), NEW start \in Nat \ {0}, start + 1 <= Len(data)
  PROVE  SubSeq(data, start, start + 1)
           = << data[start], data[start + 1] >>
<1> DEFINE s == SubSeq(data, start, start + 1)
           t == << data[start], data[start + 1] >>
<1>1. s \in Seq(Byte) /\ Len(s) = 2 /\ \A i \in 1 .. 2 : s[i] = data[start + i - 1]
  <2>1. start + 2 - 1 = start + 1  OBVIOUS
  <2>2. QED  BY <2>1, Slice, 2 \in Nat, start + 2 - 1 <= Len(data)
<1>2. t \in Seq(Byte) /\ Len(t) = 2
  OBVIOUS
<1>3. s[1] = t[1] /\ s[2] = t[2]
  BY <1>1
<1> HIDE DEF s, t
<1>4. \A i \in 1 .. 2 : s[i] = t[i]
  BY <1>3
<1>5. s = t  BY <1>1, <1>2, <1>4, SeqEqual, Zenon
<1>6. QED  BY <1>5 DEF s, t

LEMMA Slice4 ==
  ASSUME NEW data \in Seq(Byte), NEW start \in Nat \ {0}, start + 3 <= Len(data)
  PROVE  SubSeq(data, start, start + 3)
           = << data[start], data[start + 1], data[start + 2], data[start + 3] >>
<1> DEFINE s == SubSeq(data, start, start + 3)
           t == << data[start], data[start + 1], data[start + 2], data[start + 3] >>
<1>1. s \in Seq(Byte) /\ Len(s) = 4 /\ \A i \in 1 .. 4 : s[i] = data[start + i - 1]
  <2>1. start + 4 - 1 = start + 3  OBVIOUS
  <2>2. QED  BY <2>1, Slice, 4 \in Nat, start + 4 - 1 <= Len(data)
<1>2. t \in Seq(Byte) /\ Len(t) = 4
  OBVIOUS
<1>3. s[1] = t[1] /\ s[2] = t[2] /\ s[3] = t[3] /\ s[4] = t[4]
  BY <1>1
<1> HIDE DEF s, t
<1>4. \A i \in 1 .. 4 : s[i] = t[i]
  BY <1>3
<1>5. s = t  BY <1>1, <1>2, <1>4, SeqEqual, Zenon
<1>6. QED  BY <1>5 DEF s, t

LEMMA KeptWord ==
  ASSUME NEW a \in Byte, NEW b \in Byte
  PROVE  /\ ToLe(2, FromLeU16(<< a, b >>)) = << a, b >>
         /\ ToLe(2, FromLeI16(<< a, b >>)) = << a, b >>
<1>1. FromLeU16(<< a, b >>) = a + 256 * b  BY DEF FromLeU16
<1>2. FromLeI16(<< a, b >>) = a + 256 * Signed8(b)  BY DEF FromLeI16
<1>3. QED  BY <1>1, <1>2, Bytes2, ZenonT(40)

LEMMA ValueOfWord ==
  ASSUME NEW data, NEW start
  PROVE  /\ FieldValue("u16", data, start) = FromLeU16(SubSeq(data, start, start + 1))
         /\ FieldValue("i16", data, start) = FromLeI16(SubSeq(data, start, start + 1))
BY DEF FieldValue

LEMMA ValueOfLong ==
  ASSUME NEW data, NEW start
  PROVE  /\ FieldValue("i32", data, start) = FromLeI32(SubSeq(data, start, start + 3))
         /\ FieldValue("coef", data, start) = FromLeI32(SubSeq(data, start, start + 3))
BY DEF FieldValue

\* Each field of fixed width is written back as the bytes it was read from: what Blaze
\* decodes and encodes again is what the SDK sent (into and from_bytes of each command in
\* lynx_commands.rs and commands.rs).
THEOREM FieldKept ==
  ASSUME NEW k \in Fixed, NEW data \in Seq(Byte), NEW start \in Nat \ {0},
         FieldFits(k, data, start), Canonical(k, data[start])
  PROVE  FieldBytes(k, FieldValue(k, data, start)) = SubSeq(data, start, start + Width[k] - 1)
<1>1. /\ k # "all" /\ k # "counted" /\ k \in DOMAIN Width /\ Width[k] \in {1, 2, 4}
  BY Widths DEF Fixed, Width
<1>2. start + Width[k] - 1 <= Len(data)
  BY <1>1 DEF FieldFits
<1>3. \A i \in start .. start + Width[k] - 1 : i \in 1 .. Len(data) /\ data[i] \in Byte
  BY <1>1, <1>2
<1>4. FieldBytes(k, FieldValue(k, data, start)) = ToLe(Width[k], FieldValue(k, data, start))
  BY <1>1 DEF FieldBytes
<1>5. CASE k = "u16" \/ k = "i16"
  <2> DEFINE a == data[start]
             b == data[start + 1]
             s == SubSeq(data, start, start + 1)
  <2>1. Width[k] = 2 /\ start + Width[k] - 1 = start + 1  BY <1>5, Widths
  <2>2. a \in Byte /\ b \in Byte  BY <1>3, <2>1
  <2>3. s = << a, b >>  BY <1>2, <2>1, Slice2
  <2>4. FieldValue(k, data, start) \in {FromLeU16(s), FromLeI16(s)}
    BY <1>5, ValueOfWord
  <2> HIDE DEF a, b, s
  <2>5. ToLe(2, FromLeU16(s)) = s /\ ToLe(2, FromLeI16(s)) = s
    BY <2>2, <2>3, KeptWord
  <2>6. QED  BY <1>4, <2>1, <2>4, <2>5 DEF s
<1>6. CASE k = "i32" \/ k = "coef"
  <2> DEFINE a == data[start]
             b == data[start + 1]
             c == data[start + 2]
             d == data[start + 3]
             s == SubSeq(data, start, start + 3)
  <2>1. Width[k] = 4 /\ start + Width[k] - 1 = start + 3  BY <1>6, Widths
  <2>2. a \in Byte /\ b \in Byte /\ c \in Byte /\ d \in Byte  BY <1>3, <2>1
  <2>3. s = << a, b, c, d >>  BY <1>2, <2>1, Slice4
  <2>4. FieldValue(k, data, start) = FromLeI32(s)
    BY <1>6, ValueOfLong
  <2> HIDE DEF a, b, c, d, s
  <2>5. ToLe(4, FromLeI32(s)) = s
    BY <2>2, <2>3, Bytes4
  <2>6. QED  BY <1>4, <2>1, <2>4, <2>5 DEF s
<1>7. CASE k \notin {"u16", "i16", "i32", "coef"}
  <2>1. Width[k] = 1  BY <1>7, Widths DEF Fixed
  <2>2. data[start] \in Byte  BY <1>3, <2>1
  <2>3. FieldValue(k, data, start) = data[start]
    <3>1. CASE k = "bool"
      BY <3>1, <1>1, <2>2 DEF FieldValue, Canonical, Byte
    <3>2. CASE k = "speed"
      BY <3>2, <1>1, <2>2 DEF FieldValue, Canonical, Byte
    <3>3. CASE k \notin {"bool", "speed"}
      BY <3>3, <1>1, <1>7 DEF FieldValue
    <3>4. QED  BY <3>1, <3>2, <3>3
  <2>4. SubSeq(data, start, start) = << data[start] >>
    BY <1>2, <2>1, Slice1
  <2>5. QED  BY <1>4, <2>1, <2>2, <2>3, <2>4, Bytes1
<1>8. QED  BY <1>5, <1>6, <1>7

-----------------------------------------------------------------------------
(* Sums: what FoldLeft computes when it adds.                              *)

LEMMA LeastOf ==
  ASSUME NEW T, T \subseteq Nat, T # {}
  PROVE  \E x \in T : \A y \in T : x <= y
<1> DEFINE R == OpToRel(<, Nat)
<1>1. IsWellFoundedOn(R, Nat)
  BY NatLessThanWellFounded
<1>2. \A x, y \in Nat : << y, x >> \in R <=> y < x
  BY DEF OpToRel
<1> HIDE DEF R
<1>3. \E x \in T : \A y \in T : ~ (<< y, x >> \in R)
  BY <1>1, WFMin
<1>4. PICK x \in T : \A y \in T : ~ (<< y, x >> \in R)
  BY <1>3
<1>5. ASSUME NEW y \in T PROVE x <= y
  <2>1. x \in Nat /\ y \in Nat
    OBVIOUS
  <2>2. ~ (y < x)
    BY <1>2, <1>4, <2>1
  <2>3. QED  BY <2>1, <2>2
<1>6. QED  BY <1>5

\* A set of numbers that is not empty has a greatest one, if it is bounded.
LEMMA GreatestIs ==
  ASSUME NEW n \in Nat, NEW u \in SUBSET (1 .. n), u # {}
  PROVE  Max(u) \in u /\ \A y \in u : y <= Max(u)
<1> DEFINE T == {n - x : x \in u}
<1>1. T \subseteq Nat /\ T # {}  OBVIOUS
<1>2. PICK t \in T : \A y \in T : t <= y
  <2> HIDE DEF T
  <2>1. QED  BY ONLY <1>1, LeastOf
<1>3. PICK x \in u : t = n - x  BY <1>2
<1>4. ASSUME NEW y \in u PROVE y <= x
  <2>1. n - y \in T /\ x \in Int /\ y \in Int  OBVIOUS
  <2>2. n - x <= n - y  BY <1>2, <1>3, <2>1
  <2>3. QED  BY <2>1, <2>2
<1>5. \E z \in u : \A y \in u : z >= y  BY <1>4
<1>6. QED  BY <1>5 DEF Max

\* What is added up, modulo m unless that is 0, for each set of places, from the last of them.
Wrap(m, x) == IF m = 0 THEN x ELSE x % m

Adds(w, n, m, g) ==
  g = [u \in SUBSET (1 .. n) |-> IF u = {} THEN 0 ELSE Wrap(m, g[u \ {Max(u)}] + w[Max(u)])]

LEMMA AddsExist ==
  ASSUME NEW w, NEW n \in Nat, NEW m
  PROVE  \E g : Adds(w, n, m, g)
<1> DEFINE T == {k \in Nat : ~ \E g : Adds(w, k, m, g)}
<1>1. SUFFICES ASSUME n \in T PROVE FALSE
  OBVIOUS
<1>2. PICK k \in T : \A y \in T : k <= y
  BY <1>1, LeastOf
<1>3. CASE k = 0
  <2> DEFINE g == [u \in SUBSET (1 .. 0) |-> 0]
  <2>1. \A u \in SUBSET (1 .. 0) : u = {}  OBVIOUS
  <2>2. Adds(w, 0, m, g)  BY <2>1 DEF Adds
  <2>3. QED  BY <1>2, <1>3, <2>2
<1>4. CASE k # 0
  <2>1. k \in Nat /\ k - 1 \in Nat /\ k - 1 \notin T  BY <1>2, <1>4
  <2>2. PICK h : Adds(w, k - 1, m, h)  BY <2>1
  <2> DEFINE g == [u \in SUBSET (1 .. k) |-> IF k \in u THEN Wrap(m, h[u \ {k}] + w[k]) ELSE h[u]]
  <2>3. ASSUME NEW u \in SUBSET (1 .. k)
        PROVE  g[u] = IF u = {} THEN 0 ELSE Wrap(m, g[u \ {Max(u)}] + w[Max(u)])
    <3>1. CASE k \in u
      <4>1. Max(u) \in u /\ (\A y \in u : y <= Max(u))  BY <2>1, <3>1, GreatestIs
      <4>2. Max(u) = k
        <5>1. Max(u) \in 1 .. k /\ k <= Max(u)  BY <3>1, <4>1
        <5>2. QED  BY <2>1, <5>1
      <4>3. u \ {k} \in SUBSET (1 .. k) /\ k \notin u \ {k}  OBVIOUS
      <4>4. g[u \ {k}] = h[u \ {k}]  BY <4>3
      <4>5. QED  BY <3>1, <4>2, <4>4
    <3>2. CASE k \notin u
      <4>1. u \in SUBSET (1 .. k - 1)
        BY <2>1, <3>2
      <4>2. h[u] = IF u = {} THEN 0 ELSE Wrap(m, h[u \ {Max(u)}] + w[Max(u)])
        BY <2>2, <4>1 DEF Adds
      <4>3. u \ {Max(u)} \in SUBSET (1 .. k) /\ k \notin u \ {Max(u)}  BY <3>2
      <4>4. g[u \ {Max(u)}] = h[u \ {Max(u)}]  BY <4>3
      <4>5. QED  BY <3>2, <4>2, <4>4
    <3>3. QED  BY <3>1, <3>2
  <2>4. g = [u \in SUBSET (1 .. k) |->
               IF u = {} THEN 0 ELSE Wrap(m, g[u \ {Max(u)}] + w[Max(u)])]
    <3>1. g = [u \in SUBSET (1 .. k) |-> g[u]]  OBVIOUS
    <3> HIDE DEF g
    <3>2. QED  BY <2>3, <3>1
  <2>5. Adds(w, k, m, g)
    BY ONLY <2>4 DEF Adds
  <2>6. QED  BY <1>2, <2>5
<1>5. QED  BY <1>3, <1>4

\* One place after the other.
LEMMA AddsStep ==
  ASSUME NEW w, NEW n \in Nat, NEW m, NEW g, Adds(w, n, m, g)
  PROVE  /\ g[1 .. 0] = 0
         /\ \A k \in 1 .. n : g[1 .. k] = Wrap(m, g[1 .. k - 1] + w[k])
<1>1. ASSUME NEW u \in SUBSET (1 .. n)
      PROVE  g[u] = IF u = {} THEN 0 ELSE Wrap(m, g[u \ {Max(u)}] + w[Max(u)])
  <2> DEFINE e(v) == IF v = {} THEN 0 ELSE Wrap(m, g[v \ {Max(v)}] + w[Max(v)])
  <2>1. g = [v \in SUBSET (1 .. n) |-> e(v)]  BY DEF Adds
  <2> HIDE DEF e
  <2>2. g[u] = e(u)  BY <2>1
  <2>3. QED  BY <2>2 DEF e
<1>2. g[1 .. 0] = 0
  <2>1. 1 .. 0 = {}  OBVIOUS
  <2>2. QED  BY <1>1, <2>1
<1>3. ASSUME NEW k \in 1 .. n PROVE g[1 .. k] = Wrap(m, g[1 .. k - 1] + w[k])
  <2>1. 1 .. k \in SUBSET (1 .. n) /\ k \in 1 .. k /\ k \in Nat  OBVIOUS
  <2>2. Max(1 .. k) = k
    <3>1. 1 .. k \in SUBSET (1 .. k) /\ 1 .. k # {}  BY <2>1
    <3>2. Max(1 .. k) \in 1 .. k /\ \A y \in 1 .. k : y <= Max(1 .. k)
      BY ONLY <2>1, <3>1, GreatestIs
    <3>3. QED  BY <2>1, <3>2
  <2>3. (1 .. k) \ {k} = 1 .. k - 1  BY <2>1
  <2>4. 1 .. k # {}  BY <2>1
  <2>5. QED  BY <1>1, <2>1, <2>2, <2>3, <2>4
<1>4. QED  BY <1>2, <1>3

\* The sum of the first n.
Total(w, n) == (CHOOSE g : Adds(w, n, 0, g))[1 .. n]

LEMMA TotalIs ==
  ASSUME NEW w, NEW n \in Nat
  PROVE  \E g : Adds(w, n, 0, g) /\ Total(w, n) = g[1 .. n]
BY AddsExist DEF Total

Agree(w, v, k) == \A j \in 1 .. k : w[j] = v[j]

LEMMA SameAdds ==
  ASSUME NEW w, NEW v, NEW n \in Nat, NEW l \in Nat, NEW g, NEW h,
         Adds(w, n, 0, g), Adds(v, l, 0, h),
         NEW k \in Nat, k <= n, k <= l, Agree(w, v, k)
  PROVE  g[1 .. k] = h[1 .. k]
<1> DEFINE T == {i \in 0 .. k : g[1 .. i] # h[1 .. i]}
<1>1. SUFFICES ASSUME T # {} PROVE FALSE
  <2>1. k \in 0 .. k  OBVIOUS
  <2>2. QED  BY <1>1, <2>1
<1>2. T \subseteq Nat  OBVIOUS
<1>3. PICK i \in T : \A j \in T : i <= j
  <2> HIDE DEF T
  <2>1. QED  BY <1>1, <1>2, LeastOf
<1>4. i \in 0 .. k /\ g[1 .. i] # h[1 .. i]  OBVIOUS
<1>5. i # 0  BY <1>4, AddsStep
<1>6. i \in 1 .. n /\ i \in 1 .. l /\ i \in 1 .. k /\ i - 1 \in 0 .. k /\ i \in Nat  BY <1>4, <1>5
<1>7. i - 1 \notin T  BY <1>3, <1>6
<1>8. g[1 .. i - 1] = h[1 .. i - 1]  BY <1>6, <1>7
<1>9. g[1 .. i] = Wrap(0, g[1 .. i - 1] + w[i]) /\ h[1 .. i] = Wrap(0, h[1 .. i - 1] + v[i])
  BY <1>6, AddsStep
<1>10. QED  BY <1>4, <1>6, <1>8, <1>9 DEF Agree

LEMMA OneTotal ==
  ASSUME NEW w, NEW n \in Nat, NEW g, Adds(w, n, 0, g)
  PROVE  g[1 .. n] = Total(w, n)
<1>1. PICK h : Adds(w, n, 0, h) /\ Total(w, n) = h[1 .. n]  BY TotalIs
<1>2. n <= n /\ Agree(w, w, n)  BY DEF Agree
<1>3. g[1 .. n] = h[1 .. n]  BY <1>1, <1>2, SameAdds
<1>4. QED  BY <1>1, <1>3

LEMMA TotalStep ==
  ASSUME NEW w
  PROVE  /\ Total(w, 0) = 0
         /\ \A n \in Nat \ {0} : Total(w, n) = Total(w, n - 1) + w[n]
<1>1. Total(w, 0) = 0  BY TotalIs, AddsStep
<1>2. ASSUME NEW n \in Nat \ {0} PROVE Total(w, n) = Total(w, n - 1) + w[n]
  <2>1. n \in Nat /\ n - 1 \in Nat /\ n \in 1 .. n /\ n - 1 <= n  OBVIOUS
  <2>2. PICK l \in Nat : l = n - 1  BY <2>1
  <2>3. PICK g : Adds(w, n, 0, g) /\ Total(w, n) = g[1 .. n]  BY <2>1, TotalIs
  <2>4. PICK h : Adds(w, l, 0, h) /\ Total(w, l) = h[1 .. l]  BY <2>1, <2>2, TotalIs
  <2>5. g[1 .. l] = h[1 .. l]
    <3>1. l <= n /\ l <= l /\ Agree(w, w, l)  BY <2>2 DEF Agree
    <3>2. QED  BY <2>1, <2>3, <2>4, <3>1, SameAdds
  <2>6. g[1 .. n] = Wrap(0, g[1 .. n - 1] + w[n])  BY <2>1, <2>3, AddsStep
  <2>7. QED  BY <2>2, <2>3, <2>4, <2>5, <2>6 DEF Wrap
<1>3. QED  BY <1>1, <1>2

\* A checksum is a byte.
LEMMA ChecksumIsByte ==
  ASSUME NEW s \in Seq(Byte)
  PROVE  Checksum(s) \in Byte
<1> DEFINE n == Len(s)
           iter == CHOOSE g : g = [u \in SUBSET (DOMAIN s) |->
                                     IF u = {} THEN 0 ELSE (g[u \ {Max(u)}] + s[Max(u)]) % 256]
<1>1. Checksum(s) = iter[DOMAIN s]
  BY DEF Checksum, FoldLeft, MapThenFoldSet
<1>2. DOMAIN s = 1 .. n /\ n \in Nat
  OBVIOUS
<1>3. iter = CHOOSE g : Adds(s, n, 256, g)
  BY <1>2 DEF Adds, Wrap
<1> HIDE DEF iter
<1>4. Adds(s, n, 256, iter)
  BY <1>2, <1>3, AddsExist
<1> DEFINE T == {k \in 0 .. n : iter[1 .. k] \notin Byte}
<1>5. SUFFICES ASSUME T # {} PROVE FALSE
  <2>1. n \in 0 .. n  BY <1>2
  <2>2. QED  BY <1>1, <1>2, <1>5, <2>1
<1>6. T \subseteq Nat  OBVIOUS
<1>7. PICK k \in T : \A j \in T : k <= j
  <2> HIDE DEF T
  <2>1. QED  BY <1>5, <1>6, LeastOf
<1>8. k \in 0 .. n /\ iter[1 .. k] \notin Byte  OBVIOUS
<1>9. k # 0
  <2>1. 0 \in Byte  BY DEF Byte
  <2>2. QED  BY <1>2, <1>4, <1>8, <2>1, AddsStep
<1>10. k \in 1 .. n /\ k - 1 \in 0 .. n /\ k \in Nat /\ k - 1 \notin T  BY <1>2, <1>7, <1>8, <1>9
<1>11. iter[1 .. k - 1] \in Byte /\ s[k] \in Byte  BY <1>2, <1>10
<1>12. iter[1 .. k] = (iter[1 .. k - 1] + s[k]) % 256
  <2>1. iter[1 .. k] = Wrap(256, iter[1 .. k - 1] + s[k])  BY <1>2, <1>4, <1>10, AddsStep
  <2>2. QED  BY <2>1 DEF Wrap
<1>13. \A a, b \in Byte : (a + b) % 256 \in Byte  BY DEF Byte
<1>14. QED  BY <1>8, <1>11, <1>12, <1>13, Zenon

LEMMA TotalOfNats ==
  ASSUME NEW w, NEW n \in Nat, \A j \in 1 .. n : w[j] \in Nat
  PROVE  Total(w, n) \in Nat
<1> DEFINE T == {k \in 0 .. n : Total(w, k) \notin Nat}
<1>1. SUFFICES ASSUME T # {} PROVE FALSE
  <2>1. n \in 0 .. n  OBVIOUS
  <2>2. QED  BY <1>1, <2>1
<1>2. T \subseteq Nat  OBVIOUS
<1>3. PICK k \in T : \A j \in T : k <= j
  <2> HIDE DEF T
  <2>1. QED  BY <1>1, <1>2, LeastOf
<1>4. k \in 0 .. n /\ Total(w, k) \notin Nat  OBVIOUS
<1>5. k # 0  BY <1>4, TotalStep
<1>6. k \in 1 .. n /\ k - 1 \in 0 .. n /\ k \in Nat \ {0} /\ k - 1 \notin T  BY <1>3, <1>4, <1>5
<1>7. Total(w, k - 1) \in Nat /\ w[k] \in Nat  BY <1>6
<1>8. QED  BY <1>4, <1>6, <1>7, TotalStep

LEMMA TotalOfZeros ==
  ASSUME NEW w, NEW n \in Nat, \A j \in 1 .. n : w[j] = 0
  PROVE  Total(w, n) = 0
<1> DEFINE T == {k \in 0 .. n : Total(w, k) # 0}
<1>1. SUFFICES ASSUME T # {} PROVE FALSE
  <2>1. n \in 0 .. n  OBVIOUS
  <2>2. QED  BY <1>1, <2>1
<1>2. T \subseteq Nat  OBVIOUS
<1>3. PICK k \in T : \A j \in T : k <= j
  <2> HIDE DEF T
  <2>1. QED  BY <1>1, <1>2, LeastOf
<1>4. k \in 0 .. n /\ Total(w, k) # 0  OBVIOUS
<1>5. k # 0  BY <1>4, TotalStep
<1>6. k \in 1 .. n /\ k - 1 \in 0 .. n /\ k \in Nat \ {0} /\ k - 1 \notin T  BY <1>3, <1>4, <1>5
<1>7. Total(w, k - 1) = 0 /\ w[k] = 0  BY <1>6
<1>8. QED  BY <1>4, <1>6, <1>7, TotalStep

-----------------------------------------------------------------------------
(* Where fields start.                                                     *)

Kind == Fixed \cup {"counted", "all"}

\* All fields but the last are of fixed width.
Shaped(fields) ==
  fields \in Seq(Kind) /\ \A i \in 1 .. Len(fields) - 1 : fields[i] \in Fixed

WidthAt(fields) == [i \in DOMAIN fields |-> Width[fields[i]]]

LEMMA StartIsTotal ==
  ASSUME NEW fields \in Seq(Kind), NEW i \in 1 .. Len(fields)
  PROVE  Start(fields, i) = 1 + Total(WidthAt(fields), i - 1)
<1> DEFINE w == WidthAt(fields)
<1>1. i \in Nat /\ i - 1 \in Nat /\ i - 1 <= Len(fields) /\ DOMAIN fields = 1 .. Len(fields)
  OBVIOUS
<1>2. PICK n \in Nat : n = i - 1  BY <1>1
<1>3. PICK s : s = SubSeq(fields, 1, n)  OBVIOUS
<1>4. DOMAIN s = 1 .. n /\ \A j \in 1 .. n : s[j] = fields[j]
  BY <1>1, <1>2, <1>3
<1>5. \A j \in 1 .. n : w[j] = Width[s[j]]
  BY <1>1, <1>2, <1>4 DEF WidthAt
<1> DEFINE Of(g) == [u \in SUBSET (DOMAIN s) |->
                       IF u = {} THEN 0 ELSE g[u \ {Max(u)}] + Width[s[Max(u)]]]
           iter == CHOOSE g : g = Of(g)
<1>6. Start(fields, i) = 1 + iter[DOMAIN s]
  BY <1>2, <1>3 DEF Start, FoldLeft, MapThenFoldSet
<1> HIDE DEF w
<1>7. ASSUME NEW g PROVE g = Of(g) <=> Adds(w, n, 0, g)
  <2>1. ASSUME NEW u \in SUBSET (1 .. n), u # {} PROVE Width[s[Max(u)]] = w[Max(u)]
    BY <1>5, <2>1, GreatestIs
  <2>2. Of(g) = [u \in SUBSET (1 .. n) |-> IF u = {} THEN 0 ELSE g[u \ {Max(u)}] + w[Max(u)]]
    BY <1>4, <2>1
  <2>3. QED  BY <2>2 DEF Adds, Wrap
<1>8. \E g : g = Of(g)  BY <1>7, AddsExist
<1> HIDE DEF Of
<1>9. iter = Of(iter)  BY <1>8
<1> HIDE DEF iter
<1>10. Adds(w, n, 0, iter)  BY <1>7, <1>9
<1>11. iter[1 .. n] = Total(w, n)  BY <1>10, OneTotal
<1>12. QED  BY <1>2, <1>4, <1>6, <1>11 DEF w

\* Each field starts where the last one ends.
LEMMA Starts ==
  ASSUME NEW fields, Shaped(fields)
  PROVE  /\ fields # << >> => Start(fields, 1) = 1
         /\ \A i \in 1 .. Len(fields) : Start(fields, i) \in Nat \ {0}
         /\ \A i \in 1 .. Len(fields) - 1 :
              Start(fields, i + 1) = Start(fields, i) + Width[fields[i]]
<1> DEFINE w == WidthAt(fields)
<1>1. fields \in Seq(Kind) /\ Len(fields) \in Nat /\ DOMAIN fields = 1 .. Len(fields)
  BY DEF Shaped
<1>2. ASSUME NEW i \in 1 .. Len(fields) - 1 PROVE w[i] = Width[fields[i]] /\ w[i] \in Nat
  BY <1>1, Widths DEF Shaped, WidthAt, Fixed
<1>3. \A i \in 1 .. Len(fields) : Start(fields, i) = 1 + Total(w, i - 1)
  BY <1>1, StartIsTotal
<1> HIDE DEF w
<1>4. ASSUME NEW i \in 1 .. Len(fields) PROVE Total(w, i - 1) \in Nat
  <2>1. PICK n \in Nat : n = i - 1  BY <1>1
  <2>2. \A j \in 1 .. n : w[j] \in Nat  BY <1>1, <1>2, <2>1
  <2>3. QED  BY <2>1, <2>2, TotalOfNats
<1>5. fields # << >> => Start(fields, 1) = 1
  <2>1. fields # << >> => 1 \in 1 .. Len(fields)  BY <1>1
  <2>2. 1 - 1 = 0 /\ Total(w, 0) = 0  BY TotalStep
  <2>3. QED  BY <1>3, <2>1, <2>2
<1>6. ASSUME NEW i \in 1 .. Len(fields) - 1
      PROVE  Start(fields, i + 1) = Start(fields, i) + Width[fields[i]]
  <2>1. i \in 1 .. Len(fields) /\ i + 1 \in 1 .. Len(fields) /\ i \in Nat \ {0} /\ i + 1 - 1 = i
    BY <1>1
  <2>2. Start(fields, i) = 1 + Total(w, i - 1) /\ Start(fields, i + 1) = 1 + Total(w, i)
    BY <1>3, <2>1
  <2>3. Total(w, i) = Total(w, i - 1) + w[i]  BY <2>1, TotalStep
  <2>4. PICK a \in Nat : a = Total(w, i - 1)  BY <1>4, <2>1
  <2>5. w[i] = Width[fields[i]] /\ w[i] \in Nat  BY <1>2
  <2>6. QED  BY <2>2, <2>3, <2>4, <2>5
<1>7. \A i \in 1 .. Len(fields) : Start(fields, i) \in Nat \ {0}  BY <1>3, <1>4
<1>8. QED  BY <1>5, <1>6, <1>7

-----------------------------------------------------------------------------
(* Payloads.                                                               *)

LEMMA SlicesJoin ==
  ASSUME NEW data \in Seq(Byte), NEW a \in Nat, NEW b \in Nat, NEW c \in Nat,
         1 <= a, a <= b, b <= c, c <= Len(data) + 1
  PROVE  SubSeq(data, a, b - 1) \o SubSeq(data, b, c - 1) = SubSeq(data, a, c - 1)
<1> DEFINE s == SubSeq(data, a, b - 1)
           t == SubSeq(data, b, c - 1)
           r == SubSeq(data, a, c - 1)
<1>1. /\ s \in Seq(Byte) /\ Len(s) = b - a
      /\ \A i \in 1 .. b - a : s[i] = data[a + i - 1]
  OBVIOUS
<1>2. /\ t \in Seq(Byte) /\ Len(t) = c - b
      /\ \A i \in 1 .. c - b : t[i] = data[b + i - 1]
  OBVIOUS
<1>3. /\ r \in Seq(Byte) /\ Len(r) = c - a
      /\ \A i \in 1 .. c - a : r[i] = data[a + i - 1]
  OBVIOUS
<1> HIDE DEF s, t, r
<1>4. s \o t \in Seq(Byte) /\ Len(s \o t) = c - a  BY <1>1, <1>2
<1>5. ASSUME NEW i \in 1 .. c - a PROVE (s \o t)[i] = r[i]
  <2>1. CASE i <= b - a
    <3>1. i \in 1 .. b - a /\ i \in 1 .. Len(s)  BY <1>1, <2>1
    <3>2. (s \o t)[i] = s[i]  BY <1>1, <1>2, <3>1
    <3>3. QED  BY <1>1, <1>3, <3>1, <3>2
  <2>2. CASE i > b - a
    <3>1. i - (b - a) \in 1 .. c - b /\ b + (i - (b - a)) - 1 = a + i - 1  BY <2>2
    <3>2. (s \o t)[i] = t[i - (b - a)]  BY <1>1, <1>2, <2>2
    <3>3. QED  BY <1>2, <1>3, <3>1, <3>2
  <2>3. i \in Int /\ b - a \in Int  OBVIOUS
  <2>4. i <= b - a \/ i > b - a  BY <2>3
  <2>5. QED  BY <2>1, <2>2, <2>4
<1>6. s \o t = r
  <2>1. Len(s \o t) = Len(r) /\ \A i \in 1 .. Len(s \o t) : (s \o t)[i] = r[i]
    BY <1>3, <1>4, <1>5
  <2>2. QED  BY ONLY <1>3, <1>4, <2>1, SeqEqual
<1>7. QED  BY <1>6 DEF s, t, r

\* parts are the slices of data that end before the next one starts.
Cuts(data, parts, n, a) ==
  /\ a \in [1 .. n + 1 -> Nat] /\ a[1] = 1
  /\ \A k \in 1 .. n : /\ a[k] <= a[k + 1] /\ a[k + 1] <= Len(data) + 1
                       /\ parts[k] = SubSeq(data, a[k], a[k + 1] - 1)

LEMMA Flattened ==
  ASSUME NEW data \in Seq(Byte), NEW n \in Nat \ {0}, NEW parts, Len(parts) = n,
         NEW a, Cuts(data, parts, n, a)
  PROVE  FlattenSeq(parts) = SubSeq(data, 1, a[n + 1] - 1)
<1> DEFINE Of(f) == [i \in 1 .. n |-> IF i = 1 THEN parts[i] ELSE f[i - 1] \o parts[i]]
           flat == CHOOSE f : f = Of(f)
           Cut(k) == SubSeq(data, 1, a[k + 1] - 1)
           full == [k \in 1 .. n |-> Cut(k)]
<1>1. FlattenSeq(parts) = flat[n]
  BY DEF FlattenSeq
<1>2. ASSUME NEW k \in 1 .. n PROVE k = 1 => parts[k] = Cut(k)
  BY DEF Cuts
<1>3. ASSUME NEW k \in 1 .. n, k # 1 PROVE k - 1 \in 1 .. n /\ Cut(k - 1) \o parts[k] = Cut(k)
  <2>1. k - 1 \in 1 .. n /\ k - 1 + 1 = k /\ k \in 1 .. n + 1 /\ k + 1 \in 1 .. n + 1  BY <1>3
  <2>2. PICK b \in Nat, c \in Nat : b = a[k] /\ c = a[k + 1]  BY <2>1 DEF Cuts
  <2>3. b <= c /\ c <= Len(data) + 1 /\ parts[k] = SubSeq(data, b, c - 1)
    BY <2>2 DEF Cuts
  <2>4. 1 <= b
    <3> DEFINE T == {j \in 1 .. k : a[j] < 1}
    <3>1. SUFFICES ASSUME T # {} PROVE FALSE
      <4>1. k \in 1 .. k  OBVIOUS
      <4>2. QED  BY <2>2, <3>1, <4>1
    <3>2. T \subseteq Nat  OBVIOUS
    <3>3. PICK j \in T : \A l \in T : j <= l
      <4> HIDE DEF T
      <4>1. QED  BY <3>1, <3>2, LeastOf
    <3>4. j \in 1 .. k /\ a[j] < 1  OBVIOUS
    <3>5. j # 1  BY <3>4 DEF Cuts
    <3>6. j - 1 \in 1 .. k /\ j - 1 \in 1 .. n /\ j - 1 + 1 = j /\ j - 1 \notin T
      BY <3>3, <3>4, <3>5
    <3>7. a[j - 1] >= 1 /\ a[j - 1] <= a[j] /\ a[j - 1] \in Nat /\ a[j] \in Nat
      <4>1. a[j - 1] \in Nat /\ a[j] \in Nat  BY <3>4, <3>6 DEF Cuts
      <4>2. a[j - 1] <= a[j]  BY <3>6 DEF Cuts
      <4>3. ~ (a[j - 1] < 1)  BY <3>6
      <4>4. QED  BY <4>1, <4>2, <4>3
    <3>8. QED  BY <3>4, <3>7
  <2>5. SubSeq(data, 1, b - 1) \o SubSeq(data, b, c - 1) = SubSeq(data, 1, c - 1)
    BY <2>3, <2>4, SlicesJoin, 1 \in Nat, 1 <= 1
  <2>6. QED  BY <2>1, <2>2, <2>3, <2>5
<1> HIDE DEF Cut
<1>4. full = Of(full)
  <2>1. ASSUME NEW k \in 1 .. n
        PROVE  Cut(k) = IF k = 1 THEN parts[k] ELSE full[k - 1] \o parts[k]
    <3>1. CASE k = 1  BY <1>2, <3>1
    <3>2. CASE k # 1
      <4>1. k - 1 \in 1 .. n /\ Cut(k - 1) \o parts[k] = Cut(k)  BY <1>3, <3>2
      <4>2. full[k - 1] = Cut(k - 1)  BY <4>1
      <4>3. QED  BY <3>2, <4>1, <4>2
    <3>3. QED  BY <3>1, <3>2
  <2>2. QED  BY <2>1
<1>5. flat = Of(flat)
  <2> HIDE DEF Of, full
  <2>1. QED  BY <1>4
<1> HIDE DEF flat, full
<1> DEFINE T == {k \in 1 .. n : flat[k] # Cut(k)}
<1>6. SUFFICES ASSUME T # {} PROVE FALSE
  <2>1. n \in 1 .. n  OBVIOUS
  <2>2. flat[n] = Cut(n)  BY <1>6, <2>1
  <2>3. QED  BY <1>1, <2>2 DEF Cut
<1>7. T \subseteq Nat  OBVIOUS
<1>8. PICK k \in T : \A j \in T : k <= j
  <2> HIDE DEF T
  <2>1. QED  BY <1>6, <1>7, LeastOf
<1>9. k \in 1 .. n /\ flat[k] # Cut(k)  OBVIOUS
<1>10. flat[k] = IF k = 1 THEN parts[k] ELSE flat[k - 1] \o parts[k]  BY <1>5, <1>9
<1>11. CASE k = 1  BY <1>2, <1>9, <1>10, <1>11
<1>12. CASE k # 1
  <2>1. k - 1 \in 1 .. n /\ Cut(k - 1) \o parts[k] = Cut(k)  BY <1>3, <1>9, <1>12
  <2>2. k - 1 \notin T  BY <1>8, <1>9, <2>1
  <2>3. flat[k - 1] = Cut(k - 1)  BY <2>1, <2>2
  <2>4. QED  BY <1>9, <1>10, <1>12, <2>1, <2>3
<1>13. QED  BY <1>11, <1>12

-----------------------------------------------------------------------------
(* Lengths.                                                                *)

Open == {"all", "counted"}

Extra(layout, values, i) == IF layout.fields[i] \in Open THEN Len(values[i]) ELSE 0
Extras(layout, values) == [i \in DOMAIN layout.fields |-> Extra(layout, values, i)]

LEMMA BytesLenIsTotal ==
  ASSUME NEW layout, layout.fields \in Seq(Kind), NEW values
  PROVE  BytesLen(layout, values) = layout.len + Total(Extras(layout, values), Len(layout.fields))
<1> DEFINE w == Extras(layout, values)
           n == Len(layout.fields)
           s == [i \in DOMAIN layout.fields |-> i]
<1>1. n \in Nat /\ DOMAIN layout.fields = 1 .. n
  OBVIOUS
<1>2. DOMAIN s = 1 .. n /\ \A j \in 1 .. n : s[j] = j
  BY <1>1
<1>3. \A j \in 1 .. n : w[j] = Extra(layout, values, s[j])
  BY <1>1, <1>2 DEF Extras
<1> DEFINE Of(g) == [u \in SUBSET (DOMAIN s) |->
                       IF u = {} THEN 0 ELSE g[u \ {Max(u)}] + Extra(layout, values, s[Max(u)])]
           iter == CHOOSE g : g = Of(g)
<1>4. BytesLen(layout, values) = layout.len + iter[DOMAIN s]
  BY DEF BytesLen, FoldLeft, MapThenFoldSet, Extra, Open
<1> HIDE DEF w, s, n
<1>5. ASSUME NEW g PROVE g = Of(g) <=> Adds(w, n, 0, g)
  <2>1. ASSUME NEW u \in SUBSET (1 .. n), u # {} PROVE Extra(layout, values, s[Max(u)]) = w[Max(u)]
    BY <1>1, <1>3, <2>1, GreatestIs
  <2>2. Of(g) = [u \in SUBSET (1 .. n) |-> IF u = {} THEN 0 ELSE g[u \ {Max(u)}] + w[Max(u)]]
    BY <1>2, <2>1
  <2>3. QED  BY <2>2 DEF Adds, Wrap
<1>6. \E g : g = Of(g)  BY <1>1, <1>5, AddsExist
<1> HIDE DEF Of
<1>7. iter = Of(iter)  BY <1>6
<1> HIDE DEF iter
<1>8. Adds(w, n, 0, iter)  BY <1>5, <1>7
<1>9. iter[1 .. n] = Total(w, n)  BY <1>1, <1>8, OneTotal
<1>10. QED  BY <1>2, <1>4, <1>9 DEF w, n

LEMMA BytesLenIs ==
  ASSUME NEW layout, Shaped(layout.fields), layout.fields # << >>, NEW values,
         Extra(layout, values, Len(layout.fields)) \in Nat
  PROVE  BytesLen(layout, values) = layout.len + Extra(layout, values, Len(layout.fields))
<1> DEFINE w == Extras(layout, values)
<1>1. layout.fields \in Seq(Kind)
  BY DEF Shaped
<1>2. PICK n : n = Len(layout.fields)  OBVIOUS
<1>3. n \in Nat \ {0} /\ n - 1 \in Nat /\ DOMAIN layout.fields = 1 .. n
  BY <1>1, <1>2
<1>4. ASSUME NEW j \in 1 .. n - 1 PROVE w[j] = 0
  <2>1. j \in 1 .. n /\ layout.fields[j] \in Fixed
    BY <1>2, <1>3 DEF Shaped
  <2>2. layout.fields[j] \notin Open
    BY <2>1 DEF Fixed, Open
  <2>3. QED  BY <1>3, <2>1, <2>2 DEF Extras, Extra
<1>5. w[n] = Extra(layout, values, n)
  BY <1>3 DEF Extras
<1> HIDE DEF w
<1>6. PICK l \in Nat : l = n - 1  BY <1>3
<1>7. Total(w, l) = 0
  BY <1>4, <1>6, TotalOfZeros
<1>8. Total(w, n) = Total(w, n - 1) + w[n]
  BY <1>3, TotalStep
<1>9. Total(w, n) = Extra(layout, values, n)
  BY <1>2, <1>5, <1>6, <1>7, <1>8
<1>10. QED  BY <1>1, <1>2, <1>9, BytesLenIsTotal DEF w

\* The values are encoded as data, and it is as long as get_bytes_len says.
Encodes(layout, values, data) ==
  /\ Payload([layout |-> layout, values |-> values]) = data
  /\ BytesLen(layout, values) = Len(data)
Keeps(layout, data) == Encodes(layout, Parse(layout.fields, data), data)

\* The fewest bytes a field can take.
Least(k) ==
  CASE k = "all" -> 0 [] k = "counted" -> 1 [] OTHER -> Width[k]

\* The length that get_bytes_len gives is that of the fields less what is counted.
Proper(layout) ==
  LET n == Len(layout.fields)
  IN /\ Shaped(layout.fields)
     /\ layout.len = IF n = 0 THEN 0
                     ELSE Start(layout.fields, n) - 1 + Least(layout.fields[n])

-----------------------------------------------------------------------------
(* A payload is kept.                                                      *)

LEMMA Kinds ==
  ASSUME NEW k \in Kind
  PROVE  \/ k = "all" \/ k = "counted"
         \/ k \in Fixed /\ k # "all" /\ k # "counted" /\ k \notin Open /\ Width[k] \in Nat \ {0}
BY Widths DEF Kind, Fixed, Open

LEMMA FixedFits ==
  ASSUME NEW k \in Fixed, NEW data, NEW start
  PROVE  /\ FieldFits(k, data, start) = (start + Width[k] - 1 <= Len(data))
         /\ EndOf(k, data, start) = start + Width[k] - 1
BY DEF Fixed, FieldFits, EndOf

\* The last field takes the bytes from where it starts to the end, and get_bytes_len counts
\* those that are not in the length of the layout.
LEMMA LastKept ==
  ASSUME NEW k \in Kind, NEW data \in Seq(Byte), NEW start \in Nat \ {0}, start <= Len(data) + 1,
         FieldFits(k, data, start), Canonical(k, data[start]), EndOf(k, data, start) = Len(data)
  PROVE  /\ FieldBytes(k, FieldValue(k, data, start)) = SubSeq(data, start, Len(data))
         /\ k = "all" => Len(FieldValue(k, data, start)) = Len(data) - start + 1
         /\ k = "counted" => Len(FieldValue(k, data, start)) = Len(data) - start
<1>1. CASE k \in Fixed
  <2>1. start + Width[k] - 1 = Len(data)
    BY <1>1, FixedFits
  <2>2. k # "all" /\ k # "counted"
    BY <1>1 DEF Fixed
  <2>3. QED  BY <1>1, <2>1, <2>2, FieldKept
<1>2. CASE k = "all"
  <2>1. FieldValue(k, data, start) = SubSeq(data, start, Len(data))
    BY <1>2 DEF FieldValue
  <2>2. FieldBytes(k, FieldValue(k, data, start)) = FieldValue(k, data, start)
    BY <1>2 DEF FieldBytes
  <2>3. Len(SubSeq(data, start, Len(data))) = Len(data) - start + 1
    OBVIOUS
  <2>4. QED  BY <1>2, <2>1, <2>2, <2>3
<1>3. CASE k = "counted"
  <2> DEFINE b == data[start]
             v == SubSeq(data, start + 1, Len(data))
  <2>1. start <= Len(data) /\ start + b = Len(data)
    BY <1>3 DEF FieldFits, EndOf
  <2>2. b \in Byte
    BY <2>1
  <2>3. FieldValue(k, data, start) = v
    BY <1>3, <2>1 DEF FieldValue
  <2>4. Len(v) = Len(data) - start /\ Len(v) = b /\ Len(v) % 256 = b
    <3>1. Len(v) = Len(data) - start
      BY <2>1
    <3> HIDE DEF v, b
    <3>2. b \in Int /\ Len(data) \in Int /\ b % 256 = b
      BY <2>2 DEF Byte
    <3>3. QED  BY <2>1, <3>1, <3>2
  <2>5. FieldBytes(k, v) = << b >> \o v
    BY <1>3, <2>4 DEF FieldBytes
  <2>6. SubSeq(data, start, start) = << b >>
    BY <2>1, Slice1
  <2>7. SubSeq(data, start, start) \o v = SubSeq(data, start, Len(data))
    <3>1. PICK c \in Nat, d \in Nat : c = start + 1 /\ d = Len(data) + 1
      OBVIOUS
    <3>2. 1 <= start /\ start <= c /\ c <= d /\ d <= Len(data) + 1
      BY <2>1, <3>1
    <3>3. SubSeq(data, start, c - 1) \o SubSeq(data, c, d - 1) = SubSeq(data, start, d - 1)
      BY ONLY data \in Seq(Byte), start \in Nat, <3>1, <3>2, SlicesJoin
    <3>4. c - 1 = start /\ d - 1 = Len(data)
      BY <3>1
    <3>5. QED  BY <3>1, <3>3, <3>4
  <2>8. QED  BY <1>3, <2>3, <2>4, <2>5, <2>6, <2>7
<1>4. QED  BY <1>1, <1>2, <1>3 DEF Kind

LEMMA FieldsFit ==
  ASSUME NEW fields, Shaped(fields), NEW data \in Seq(Byte), Parses(fields, data)
  PROVE  /\ \A i \in 1 .. Len(fields) : FieldFits(fields[i], data, Start(fields, i))
         /\ \A i \in 1 .. Len(fields) : Start(fields, i) <= Len(data) + 1
<1>1. fields \in Seq(Kind) /\ Len(fields) \in Nat /\ DOMAIN fields = 1 .. Len(fields)
  BY DEF Shaped
<1>2. ASSUME NEW i \in 1 .. Len(fields) PROVE FieldFits(fields[i], data, Start(fields, i))
  BY <1>1 DEF Parses
<1>3. ASSUME NEW i \in 1 .. Len(fields) PROVE Start(fields, i) <= Len(data) + 1
  <2>1. CASE i = 1
    <3>1. fields # << >>  BY <1>1
    <3>2. Start(fields, i) = 1  BY <2>1, <3>1, Starts
    <3>3. QED  BY <3>2
  <2>2. CASE i # 1
    <3>1. PICK j \in 1 .. Len(fields) - 1 : i = j + 1
      <4>1. i - 1 \in 1 .. Len(fields) - 1 /\ i = (i - 1) + 1  BY <1>1, <2>2
      <4>2. QED  BY <4>1
    <3>2. j \in 1 .. Len(fields) /\ fields[j] \in Fixed  BY <1>1, <3>1 DEF Shaped
    <3>3. Start(fields, i) = Start(fields, j) + Width[fields[j]]  BY <3>1, Starts
    <3>4. Start(fields, j) + Width[fields[j]] - 1 <= Len(data)  BY <1>2, <3>2, FixedFits
    <3>5. Start(fields, j) \in Nat /\ Width[fields[j]] \in Nat
      BY <3>2, Starts, Widths DEF Fixed
    <3>6. QED  BY <3>3, <3>4, <3>5
  <2>3. QED  BY <2>1, <2>2
<1>4. QED  BY <1>2, <1>3

LEMMA FieldsKept ==
  ASSUME NEW fields, Shaped(fields), fields # << >>, NEW data \in Seq(Byte),
         Parses(fields, data), Plain(fields, data)
  PROVE  Unparse(fields, Parse(fields, data)) = data
<1> DEFINE start(i) == Start(fields, i)
           field(i) == FieldBytes(fields[i], FieldValue(fields[i], data, start(i)))
           parts == [i \in DOMAIN fields |-> field(i)]
<1>1. PICK n : n = Len(fields)  OBVIOUS
<1>2. /\ n \in Nat \ {0} /\ fields \in Seq(Kind) /\ DOMAIN fields = 1 .. n
      /\ n \in 1 .. n /\ Last(fields) = fields[n]
  BY <1>1 DEF Shaped, Last
<1> DEFINE a == [i \in 1 .. n + 1 |-> IF i = n + 1 THEN Len(data) + 1 ELSE start(i)]
<1>3. Unparse(fields, Parse(fields, data)) = FlattenSeq(parts)
  <2>1. \A i \in DOMAIN fields : Parse(fields, data)[i] = FieldValue(fields[i], data, start(i))
    BY DEF Parse
  <2>2. [i \in DOMAIN fields |-> FieldBytes(fields[i], Parse(fields, data)[i])] = parts
    BY <2>1
  <2>3. QED  BY <2>2 DEF Unparse
<1>4. ASSUME NEW i \in 1 .. n
      PROVE  /\ start(i) \in Nat \ {0} /\ start(i) <= Len(data) + 1
             /\ FieldFits(fields[i], data, start(i)) /\ Canonical(fields[i], data[start(i)])
             /\ parts[i] = field(i) /\ fields[i] \in Kind
  BY <1>1, <1>2, Starts, FieldsFit DEF Plain
<1>5. EndOf(fields[n], data, start(n)) = Len(data)
  BY <1>1, <1>2 DEF Plain
<1>6. start(1) = 1
  BY Starts
<1>7. ASSUME NEW i \in 1 .. n - 1
      PROVE  /\ start(i + 1) = start(i) + Width[fields[i]] /\ fields[i] \in Fixed
             /\ Width[fields[i]] \in Nat
  <2>1. fields[i] \in Fixed  BY <1>1, <1>2 DEF Shaped
  <2>2. start(i + 1) = start(i) + Width[fields[i]]  BY <1>1, <1>2, Starts
  <2>3. Width[fields[i]] \in Nat
    <3>1. PICK k : k = fields[i]  OBVIOUS
    <3>2. k \in Fixed => Width[k] \in Nat  BY Widths DEF Fixed
    <3>3. QED  BY <2>1, <3>1, <3>2
  <2>4. QED  BY <2>1, <2>2, <2>3
<1> HIDE DEF start
<1>8. a[1] = 1 /\ a[n + 1] = Len(data) + 1 /\ \A i \in 1 .. n : a[i] = start(i)
  BY <1>2, <1>6
<1>9. a \in [1 .. n + 1 -> Nat]
  <2>1. \A i \in 1 .. n + 1 : i # n + 1 => i \in 1 .. n  BY <1>2
  <2>2. Len(data) + 1 \in Nat  OBVIOUS
  <2>3. QED  BY <1>4, <2>1, <2>2
<1> HIDE DEF a, parts
<1>10. ASSUME NEW i \in 1 .. n
       PROVE  /\ a[i] <= a[i + 1] /\ a[i + 1] <= Len(data) + 1
              /\ parts[i] = SubSeq(data, a[i], a[i + 1] - 1)
  <2>1. CASE i = n
    <3>1. a[i] = start(n) /\ a[i + 1] = Len(data) + 1 /\ Len(data) + 1 - 1 = Len(data)
      BY <1>8, <2>1
    <3>2. field(n) = SubSeq(data, start(n), Len(data))
      BY <1>2, <1>4, <1>5, LastKept
    <3>3. start(n) \in Nat /\ start(n) <= Len(data) + 1 /\ parts[n] = field(n)
      BY <1>2, <1>4
    <3> HIDE DEF field
    <3>4. a[i + 1] - 1 = Len(data)  BY <3>1
    <3>5. parts[i] = SubSeq(data, a[i], a[i + 1] - 1)
      BY <2>1, <3>1, <3>2, <3>3, <3>4
    <3>6. QED  BY <3>1, <3>3, <3>5
  <2>2. CASE i # n
    <3>1. i \in 1 .. n - 1 /\ i + 1 \in 1 .. n  BY <1>2, <2>2
    <3>2. /\ a[i] = start(i) /\ a[i + 1] = start(i + 1)
          /\ start(i + 1) = start(i) + Width[fields[i]]
      BY <1>7, <1>8, <3>1
    <3>3. start(i) + Width[fields[i]] - 1 <= Len(data)
      BY <1>4, <1>7, <3>1, FixedFits
    <3>4. field(i) = SubSeq(data, start(i), start(i) + Width[fields[i]] - 1)
      BY <1>4, <1>7, <3>1, FieldKept
    <3>5. QED  BY <1>4, <1>7, <3>1, <3>2, <3>3, <3>4
  <2>3. QED  BY <2>1, <2>2
<1>11. Cuts(data, parts, n, a)
  BY <1>8, <1>9, <1>10 DEF Cuts
<1>12. Len(parts) = n
  <2>1. DOMAIN parts = 1 .. n  BY <1>2 DEF parts
  <2>2. QED  BY <1>2, <2>1
<1>13. FlattenSeq(parts) = SubSeq(data, 1, a[n + 1] - 1)
  BY <1>2, <1>11, <1>12, Flattened
<1>14. SubSeq(data, 1, a[n + 1] - 1) = data
  <2>1. a[n + 1] - 1 = Len(data)  BY <1>8
  <2>2. SubSeq(data, 1, Len(data)) = data  OBVIOUS
  <2>3. QED  BY <2>1, <2>2
<1>15. QED  BY <1>3, <1>13, <1>14

LEMMA LengthKept ==
  ASSUME NEW layout, Proper(layout), layout.fields # << >>, NEW data \in Seq(Byte),
         Parses(layout.fields, data), Plain(layout.fields, data)
  PROVE  BytesLen(layout, Parse(layout.fields, data)) = Len(data)
<1> DEFINE fields == layout.fields
           values == Parse(fields, data)
<1>1. PICK n : n = Len(fields)  OBVIOUS
<1>2. Shaped(fields) /\ fields # << >>
  BY DEF Proper
<1>3. /\ n \in Nat \ {0} /\ fields \in Seq(Kind) /\ DOMAIN fields = 1 .. n
      /\ n \in 1 .. n /\ Last(fields) = fields[n]
  BY <1>1, <1>2 DEF Shaped, Last
<1>4. PICK k \in Kind : k = fields[n]
  BY <1>3
<1>5. PICK start : start = Start(fields, n)  OBVIOUS
<1>6. /\ start \in Nat \ {0} /\ start <= Len(data) + 1 /\ FieldFits(k, data, start)
      /\ Canonical(k, data[start]) /\ EndOf(k, data, start) = Len(data)
  BY <1>1, <1>2, <1>3, <1>4, <1>5, Starts, FieldsFit DEF Plain
<1>7. layout.len = start - 1 + CASE k = "all"     -> 0
                                 [] k = "counted" -> 1
                                 [] OTHER         -> Width[k]
  BY <1>1, <1>3, <1>4, <1>5 DEF Proper, Least
<1>8. values[n] = FieldValue(k, data, start)
  BY <1>3, <1>4, <1>5 DEF Parse
<1>9. /\ k = "all" => Len(values[n]) = Len(data) - start + 1
      /\ k = "counted" => Len(values[n]) = Len(data) - start
  BY <1>6, <1>8, LastKept
<1>10. Extra(layout, values, n) = IF k \in Open THEN Len(values[n]) ELSE 0
  BY <1>4 DEF Extra
<1> HIDE DEF values
<1>11. /\ Extra(layout, values, n) \in Nat
       /\ layout.len + Extra(layout, values, n) = Len(data)
  <2>1. CASE k = "all"
    BY <1>6, <1>7, <1>9, <1>10, <2>1 DEF Open
  <2>2. CASE k = "counted"
    <3>1. start <= Len(data)
      BY <1>6, <2>2 DEF FieldFits
    <3>2. QED  BY <1>6, <1>7, <1>9, <1>10, <2>2, <3>1 DEF Open
  <2>3. CASE k \in Fixed
    <3>1. k # "all" /\ k # "counted" /\ k \notin Open /\ Width[k] \in Nat
      BY <2>3, Kinds DEF Fixed
    <3>2. start + Width[k] - 1 = Len(data)
      BY <1>6, <2>3, FixedFits
    <3>3. layout.len = start - 1 + Width[k] /\ Extra(layout, values, n) = 0
      BY <1>7, <1>10, <3>1
    <3>4. QED  BY <1>6, <3>1, <3>2, <3>3
  <2>4. QED  BY <2>1, <2>2, <2>3 DEF Kind
<1>12. BytesLen(layout, values) = layout.len + Extra(layout, values, n)
  BY <1>1, <1>2, <1>11, BytesLenIs
<1>13. QED  BY <1>11, <1>12 DEF values

\* What a command is decoded from is what it is encoded to, and as long as get_bytes_len says
\* (Command::from_bytes, into and get_bytes_len), if it is of a proper layout and no byte of
\* the payload is looked past.
THEOREM PayloadKept ==
  ASSUME NEW layout, Proper(layout), NEW data \in Seq(Byte),
         Parses(layout.fields, data), Plain(layout.fields, data)
  PROVE  Keeps(layout, data)
<1> DEFINE values == Parse(layout.fields, data)
<1>1. CASE layout.fields = << >>
  <2>1. data = << >>  BY <1>1 DEF Plain
  <2>2. layout.len = 0 /\ layout.fields \in Seq(Kind)  BY <1>1 DEF Proper, Shaped
  <2>3. BytesLen(layout, values) = 0
    <3>1. BytesLen(layout, values) = layout.len + Total(Extras(layout, values), Len(layout.fields))
      BY <2>2, BytesLenIsTotal
    <3>2. Total(Extras(layout, values), 0) = 0  BY TotalStep
    <3>3. QED  BY <1>1, <2>2, <3>1, <3>2
  <2>4. Payload([layout |-> layout, values |-> values]) = << >>
    BY <2>3 DEF Payload
  <2>5. QED  BY <2>1, <2>3, <2>4 DEF Keeps, Encodes
<1>2. CASE layout.fields # << >>
  <2>1. BytesLen(layout, values) = Len(data)
    BY <1>2, LengthKept
  <2>2. Unparse(layout.fields, values) = data
    BY <1>2, FieldsKept DEF Proper
  <2>3. Len(data) = 0 => data = << >>
    OBVIOUS
  <2> HIDE DEF values
  <2>4. Payload([layout |-> layout, values |-> values]) = data
    BY <2>1, <2>2, <2>3 DEF Payload
  <2>5. QED  BY <2>1, <2>4 DEF Keeps, Encodes, values
<1>3. QED  BY <1>1, <1>2

-----------------------------------------------------------------------------
(* The layouts are proper.                                                 *)

LEMMA LeastOfFixed == ASSUME NEW k \in Fixed PROVE Least(k) = Width[k] /\ k \in Kind
BY DEF Fixed, Kind, Least

LEMMA NoFields == Proper(Layout(<< >>, 0))
BY DEF Proper, Layout, Shaped, Kind

\* Where each field starts, by the one before.
LEMMA EachStart ==
  ASSUME NEW f, Shaped(f), f # << >>
  PROVE  /\ Start(f, 1) = 1
         /\ \A i, j \in 1 .. Len(f) : j = i + 1 => Start(f, j) = Start(f, i) + Width[f[i]]
<1>1. Len(f) \in Nat  BY DEF Shaped
<1>2. ASSUME NEW i \in 1 .. Len(f), NEW j \in 1 .. Len(f), j = i + 1
      PROVE  Start(f, j) = Start(f, i) + Width[f[i]]
  <2>1. i \in 1 .. Len(f) - 1  BY <1>1, <1>2
  <2>2. QED  BY <1>2, <2>1, Starts
<1>3. QED  BY <1>2, Starts

LEMMA OneField ==
  ASSUME NEW k \in Kind
  PROVE  Proper(Layout(<< k >>, Least(k)))
<1> DEFINE f == << k >>
<1>1. f \in Seq(Kind) /\ Len(f) = 1 /\ f[1] = k /\ f # << >>  OBVIOUS
<1> HIDE DEF f
<1>2. Shaped(f)  BY <1>1 DEF Shaped
<1>3. Start(f, 1) = 1  BY <1>1, <1>2, Starts
<1>4. 1 - 1 + Least(k) = Least(k)
  BY Widths DEF Kind, Fixed, Least
<1>5. QED  BY <1>1, <1>2, <1>3, <1>4 DEF Proper, Layout, f

LEMMA TwoFields ==
  ASSUME NEW j \in Fixed, NEW k \in Kind
  PROVE  Proper(Layout(<< j, k >>, Width[j] + Least(k)))
<1> DEFINE f == << j, k >>
<1>1. f \in Seq(Kind) /\ Len(f) = 2 /\ f[1] = j /\ f[2] = k /\ f # << >>  BY DEF Kind
<1> HIDE DEF f
<1>2. Shaped(f)  BY <1>1 DEF Shaped
<1>3. /\ Start(f, 1) = 1
      /\ \A m, n \in 1 .. 2 : n = m + 1 => Start(f, n) = Start(f, m) + Width[f[m]]
  BY <1>1, <1>2, EachStart
<1>4. Start(f, 2) = 1 + Width[j]  BY <1>1, <1>3
<1>5. Width[j] \in Int /\ Least(k) \in Int
  <2>1. j \in Fixed => Width[j] \in Int  BY Widths DEF Fixed
  <2>2. k \in Kind => Least(k) \in Int  BY Widths DEF Kind, Fixed, Least
  <2>3. QED  BY <2>1, <2>2
<1>6. Start(f, 2) - 1 + Least(k) = Width[j] + Least(k)
  BY <1>4, <1>5
<1>7. QED  BY <1>1, <1>2, <1>6 DEF Proper, Layout, f

LEMMA ThreeFields ==
  ASSUME NEW h \in Fixed, NEW j \in Fixed, NEW k \in Kind
  PROVE  Proper(Layout(<< h, j, k >>, Width[h] + Width[j] + Least(k)))
<1> DEFINE f == << h, j, k >>
<1>1. f \in Seq(Kind) /\ Len(f) = 3 /\ f[1] = h /\ f[2] = j /\ f[3] = k /\ f # << >>
  BY DEF Kind
<1> HIDE DEF f
<1>2. Shaped(f)  BY <1>1 DEF Shaped
<1>3. /\ Start(f, 1) = 1
      /\ \A m, n \in 1 .. 3 : n = m + 1 => Start(f, n) = Start(f, m) + Width[f[m]]
  BY <1>1, <1>2, EachStart
<1>4. Width[h] \in Int /\ Width[j] \in Int /\ Least(k) \in Int
  <2>1. \A i : i \in Fixed => Width[i] \in Int  BY Widths DEF Fixed
  <2>2. k \in Kind => Least(k) \in Int  BY Widths DEF Kind, Fixed, Least
  <2>3. QED  BY <2>1, <2>2
<1>5. Start(f, 2) = 1 + Width[h]  BY <1>1, <1>3
<1>6. Start(f, 3) = 1 + Width[h] + Width[j]  BY <1>1, <1>3, <1>5
<1>7. Start(f, 3) - 1 + Least(k) = Width[h] + Width[j] + Least(k)  BY <1>4, <1>6
<1>8. QED  BY <1>1, <1>2, <1>7 DEF Proper, Layout, f

LEMMA FourBytes == Proper(Layout(<< "u8", "u8", "u8", "u8" >>, 4))
<1> DEFINE f == << "u8", "u8", "u8", "u8" >>
<1>1. /\ f \in Seq({"u8"}) /\ Len(f) = 4 /\ f # << >>
      /\ f[1] = "u8" /\ f[2] = "u8" /\ f[3] = "u8" /\ f[4] = "u8"
  OBVIOUS
<1> HIDE DEF f
<1>2. Shaped(f)
  <2>1. {"u8"} \subseteq Fixed /\ Fixed \subseteq Kind  BY DEF Fixed, Kind
  <2>2. QED  BY <1>1, <2>1 DEF Shaped
<1>3. /\ Start(f, 1) = 1
      /\ \A i, j \in 1 .. 4 : j = i + 1 => Start(f, j) = Start(f, i) + Width[f[i]]
  BY <1>1, <1>2, EachStart
<1>4. Width["u8"] = 1  BY Widths
<1>5. Start(f, 2) = 2 /\ Start(f, 3) = 3 /\ Start(f, 4) = 4
  BY <1>1, <1>3, <1>4
<1>6. Least("u8") = 1  BY <1>4 DEF Least
<1>7. QED  BY <1>1, <1>2, <1>5, <1>6 DEF Proper, Layout, f

LEMMA BulkProper ==
  Proper(Layout(<< "u8", "i32", "i32", "i32", "i32", "u8", "i16", "i16", "i16", "i16",
                   "i16", "i16", "i16", "i16" >>, 34))
<1> DEFINE f == << "u8", "i32", "i32", "i32", "i32", "u8", "i16", "i16", "i16", "i16",
                   "i16", "i16", "i16", "i16" >>
<1>1. /\ Len(f) = 14 /\ f # << >> /\ f \in Seq({"u8", "i16", "i32"})
      /\ f[1] = "u8" /\ f[2] = "i32" /\ f[3] = "i32" /\ f[4] = "i32" /\ f[5] = "i32"
      /\ f[6] = "u8" /\ f[7] = "i16" /\ f[8] = "i16" /\ f[9] = "i16" /\ f[10] = "i16"
      /\ f[11] = "i16" /\ f[12] = "i16" /\ f[13] = "i16" /\ f[14] = "i16"
  OBVIOUS
<1> HIDE DEF f
<1>2. Shaped(f)
  <2>1. {"u8", "i16", "i32"} \subseteq Fixed /\ Fixed \subseteq Kind  BY DEF Fixed, Kind
  <2>2. QED  BY <1>1, <2>1 DEF Shaped
<1>3. /\ Start(f, 1) = 1
      /\ \A i, j \in 1 .. 14 : j = i + 1 => Start(f, j) = Start(f, i) + Width[f[i]]
  BY <1>1, <1>2, EachStart
<1>4. Width["u8"] = 1 /\ Width["i16"] = 2 /\ Width["i32"] = 4  BY Widths
<1>5. Start(f, 2) = 2 /\ Start(f, 3) = 6 /\ Start(f, 4) = 10 /\ Start(f, 5) = 14
  BY <1>1, <1>3, <1>4
<1>6. Start(f, 6) = 18 /\ Start(f, 7) = 19 /\ Start(f, 8) = 21 /\ Start(f, 9) = 23
  BY <1>1, <1>3, <1>4, <1>5
<1>7. Start(f, 10) = 25 /\ Start(f, 11) = 27 /\ Start(f, 12) = 29 /\ Start(f, 13) = 31
  BY <1>1, <1>3, <1>4, <1>6
<1>8. Start(f, 14) = 33
  BY <1>1, <1>3, <1>4, <1>7
<1>9. Least("i16") = 2  BY <1>4 DEF Least
<1>10. QED  BY <1>1, <1>2, <1>8, <1>9 DEF Proper, Layout, f

LEMMA PidfProper ==
  Proper(Layout(<< "u8", "runMode", "coef", "coef", "coef", "coef", "u8" >>, 19))
<1> DEFINE f == << "u8", "runMode", "coef", "coef", "coef", "coef", "u8" >>
<1>1. /\ Len(f) = 7 /\ f # << >> /\ f \in Seq({"u8", "runMode", "coef"})
      /\ f[1] = "u8" /\ f[2] = "runMode" /\ f[3] = "coef" /\ f[4] = "coef"
      /\ f[5] = "coef" /\ f[6] = "coef" /\ f[7] = "u8"
  OBVIOUS
<1> HIDE DEF f
<1>2. Shaped(f)
  <2>1. {"u8", "runMode", "coef"} \subseteq Fixed /\ Fixed \subseteq Kind  BY DEF Fixed, Kind
  <2>2. QED  BY <1>1, <2>1 DEF Shaped
<1>3. /\ Start(f, 1) = 1
      /\ \A i, j \in 1 .. 7 : j = i + 1 => Start(f, j) = Start(f, i) + Width[f[i]]
  BY <1>1, <1>2, EachStart
<1>4. Width["u8"] = 1 /\ Width["runMode"] = 1 /\ Width["coef"] = 4  BY Widths
<1>5. Start(f, 2) = 2 /\ Start(f, 3) = 3 /\ Start(f, 4) = 7 /\ Start(f, 5) = 11
  BY <1>1, <1>3, <1>4
<1>6. Start(f, 6) = 15 /\ Start(f, 7) = 19
  BY <1>1, <1>3, <1>4, <1>5
<1>7. Least("u8") = 1  BY <1>4 DEF Least
<1>8. QED  BY <1>1, <1>2, <1>6, <1>7 DEF Proper, Layout, f

LEMMA StandardProper == \A row \in StandardLayouts : Proper(row.layout)
<1>1. /\ "bool" \in Fixed /\ "u8" \in Fixed /\ "u16" \in Fixed
      /\ "all" \in Kind /\ Least("all") = 0
  BY DEF Fixed, Kind, Least
<1>2. /\ Least("bool") = 1 /\ Least("u8") = 1 /\ Least("u16") = 2 /\ Width["u16"] = 2
      /\ "bool" \in Kind /\ "u8" \in Kind /\ "u16" \in Kind
  BY <1>1, Widths, LeastOfFixed
<1>3. /\ Proper(Layout(<< "bool" >>, 1)) /\ Proper(Layout(<< "u8" >>, 1))
      /\ Proper(Layout(<< "all" >>, 0))
  BY <1>1, <1>2, OneField
<1>4. Proper(Layout(<< "u16", "u16" >>, 4))
  <2>1. Proper(Layout(<< "u16", "u16" >>, 2 + 2))  BY <1>1, <1>2, TwoFields
  <2>2. QED  BY <2>1
<1>5. QED
  BY <1>3, <1>4, NoFields DEF StandardLayouts, AckLayouts, NackLayouts, QueryLayouts, Row

LEMMA LynxProper == \A row \in LynxLayouts : Proper(row.layout)
<1>1. /\ "u8" \in Fixed /\ "i16" \in Fixed /\ "u16" \in Fixed /\ "bool" \in Fixed /\ "i32" \in Fixed
      /\ "adcChannel" \in Fixed /\ "adcMode" \in Fixed /\ "runMode" \in Fixed
      /\ "zeroPower" \in Fixed /\ "speed" \in Fixed
      /\ "counted" \in Kind /\ Least("counted") = 1
  BY DEF Fixed, Kind, Least
<1>2. /\ Least("u8") = 1 /\ Least("i16") = 2 /\ Least("u16") = 2 /\ Least("bool") = 1
      /\ Least("adcMode") = 1 /\ Least("zeroPower") = 1 /\ Least("speed") = 1
      /\ "u8" \in Kind /\ "i16" \in Kind /\ "u16" \in Kind /\ "bool" \in Kind
      /\ "adcMode" \in Kind /\ "zeroPower" \in Kind /\ "speed" \in Kind
      /\ Width["u8"] = 1 /\ Width["i32"] = 4 /\ Width["adcChannel"] = 1 /\ Width["runMode"] = 1
  BY <1>1, Widths, LeastOfFixed
<1>3. Proper(Layout(<< "u8" >>, 1)) /\ Proper(Layout(<< "i16" >>, 2))
  BY <1>2, OneField
<1>4. /\ Proper(Layout(<< "adcChannel", "adcMode" >>, 1 + 1))
      /\ Proper(Layout(<< "u8", "i16" >>, 1 + 2)) /\ Proper(Layout(<< "u8", "u16" >>, 1 + 2))
      /\ Proper(Layout(<< "u8", "bool" >>, 1 + 1))
      /\ Proper(Layout(<< "runMode", "zeroPower" >>, 1 + 1))
      /\ Proper(Layout(<< "u8", "counted" >>, 1 + 1)) /\ Proper(Layout(<< "u8", "u8" >>, 1 + 1))
      /\ Proper(Layout(<< "u8", "speed" >>, 1 + 1))
  BY <1>1, <1>2, TwoFields
<1>5. /\ Proper(Layout(<< "u8", "runMode", "zeroPower" >>, 1 + 1 + 1))
      /\ Proper(Layout(<< "u8", "u8", "counted" >>, 1 + 1 + 1))
      /\ Proper(Layout(<< "u8", "u8", "u8" >>, 1 + 1 + 1))
      /\ Proper(Layout(<< "u8", "i32", "u16" >>, 1 + 4 + 2))
  BY <1>1, <1>2, ThreeFields
<1>6. 1 + 1 = 2 /\ 1 + 2 = 3 /\ 1 + 1 + 1 = 3 /\ 1 + 4 + 2 = 7
  OBVIOUS
<1>7. \A row \in AdcLayouts \cup BulkLayouts \cup DriveLayouts : Proper(row.layout)
  BY <1>3, <1>4, <1>6, NoFields, BulkProper DEF AdcLayouts, BulkLayouts, DriveLayouts, Row
<1>8. \A row \in ChannelModeLayouts \cup I2cWriteLayouts \cup I2cReadLayouts : Proper(row.layout)
  BY <1>3, <1>4, <1>5, <1>6, FourBytes DEF ChannelModeLayouts, I2cWriteLayouts, I2cReadLayouts, Row
<1>9. \A row \in PidfLayouts \cup TargetLayouts \cup I2cStatusLayouts : Proper(row.layout)
  BY <1>3, <1>4, <1>5, <1>6, PidfProper DEF PidfLayouts, TargetLayouts, I2cStatusLayouts, Row
<1>10. QED  BY <1>7, <1>8, <1>9 DEF LynxLayouts

\* Every layout that a packet may be decoded by is proper: the length that get_bytes_len
\* gives is that of what into writes (commands.rs, lynx_commands.rs).
THEOREM LayoutsProper ==
  /\ \A key : IsStandard(key) => Proper(StandardLayout(key))
  /\ \A key : Proper(LynxLayout(key))
  /\ Proper(UnknownLayout)
<1>1. ASSUME NEW table, \A row \in table : Proper(row.layout), NEW key \in Keys(table)
      PROVE  Proper(LayoutIn(table, key))
  <2>1. \E row \in table : row.key = key  BY DEF Keys
  <2>2. QED  BY <1>1, <2>1 DEF LayoutIn
<1>2. Proper(UnknownLayout)
  <2>1. "all" \in Kind /\ Least("all") = 0  BY DEF Kind, Least
  <2>2. QED  BY <2>1, OneField DEF UnknownLayout
<1>3. ASSUME NEW key, IsStandard(key) PROVE Proper(StandardLayout(key))
  BY <1>1, <1>3, StandardProper DEF IsStandard, StandardLayout
<1>4. ASSUME NEW key PROVE Proper(LynxLayout(key))
  BY <1>1, <1>2, LynxProper DEF LynxLayout
<1>5. QED  BY <1>2, <1>3, <1>4

-----------------------------------------------------------------------------
(* Whose a packet is.                                                      *)

Module == [addr : Nat \ {0}, first : Nat, count : Nat]

LEMMA ResponseNumber ==
  ASSUME NEW f \in Nat, NEW c \in Nat, f + c < 32768, NEW k \in Nat, k <= c
  PROVE  /\ (f + c) % 65536 = f + c
         /\ ((f + k) + 32768) % 32768 = f + k
<1>1. (f + c + 65536 * 0) % 65536 = f + c  BY Division
<1>2. (f + k + 32768 * 1) % 32768 = f + k  BY Division
<1>3. QED  BY <1>1, <1>2

\* A command to a hub, and the answer that a hub sends to the host, whose address is 0, are
\* found to be that hub's, by its own first number, whatever else is known
\* (LynxCommandData::from_bytes with is_module_command and is_module_response).
THEOREM OwnerFound ==
  ASSUME NEW known \in Seq(Module), NEW i \in DOMAIN known,
         \A j \in DOMAIN known : known[j].addr = known[i].addr => j = i,
         known[i].first + known[i].count < ResponseBit,
         NEW key \in 0 .. known[i].count, NEW p,
         \/ p.dest = known[i].addr /\ p.id = known[i].first + key
         \/ p.dest = 0 /\ p.src = known[i].addr /\ p.id = known[i].first + key + ResponseBit
  PROVE  Owner(known, p) = known[i].first
<1>1. /\ DOMAIN known \subseteq Nat
      /\ \A j \in DOMAIN known : known[j].addr \in Nat \ {0}
      /\ known[i].first \in Nat /\ known[i].count \in Nat
  <2>1. DOMAIN known = 1 .. Len(known) /\ \A j \in DOMAIN known : known[j] \in Module
    OBVIOUS
  <2>2. \A m \in Module : m.addr \in Nat \ {0} /\ m.first \in Nat /\ m.count \in Nat
    BY DEF Module
  <2>3. QED  BY <2>1, <2>2
<1>2. Known(known, known[i].addr) = {i}
  BY DEF Known
<1>3. ModuleAt(known, known[i].addr) = known[i]
  BY <1>1, <1>2 DEF ModuleAt
<1>4. CASE p.dest = known[i].addr /\ p.id = known[i].first + key
  <2>1. IsModuleCommand(known[i], p.id)
    BY <1>1, <1>4 DEF IsModuleCommand, ResponseBit
  <2>2. Known(known, p.dest) # {} /\ IsModuleCommand(ModuleAt(known, p.dest), p.id)
    BY <1>2, <1>3, <1>4, <2>1
  <2>3. QED  BY <1>3, <1>4, <2>2 DEF Owner
<1>5. CASE p.dest = 0 /\ p.src = known[i].addr /\ p.id = known[i].first + key + ResponseBit
  <2>1. Known(known, p.dest) = {}
    BY <1>1, <1>5 DEF Known
  <2>2. IsModuleResponse(known[i], p.id)
    <3> DEFINE f == known[i].first
               c == known[i].count
    <3>1. /\ f \in Nat /\ c \in Nat /\ f + c < 32768 /\ key \in Nat /\ key <= c
          /\ p.id = (f + key) + 32768
      BY <1>1, <1>5 DEF ResponseBit
    <3> HIDE DEF f, c
    <3>2. (f + c) % 65536 = f + c /\ ((f + key) + 32768) % 32768 = f + key
      BY ONLY <3>1, ResponseNumber
    <3>3. p.id \notin f .. (f + c) % 65536 /\ p.id % 32768 \in f .. (f + c) % 65536
      BY <3>1, <3>2
    <3>4. QED  BY <3>3 DEF IsModuleResponse, IsModuleCommand, CommandNumber, ResponseBit, f, c
  <2>3. Known(known, p.src) # {} /\ IsModuleResponse(ModuleAt(known, p.src), p.id)
    BY <1>2, <1>3, <1>5, <2>2
  <2>4. QED  BY <1>3, <1>5, <2>1, <2>3 DEF Owner
<1>6. QED  BY <1>4, <1>5

-----------------------------------------------------------------------------
(* Checksums.                                                              *)

Packet(Layouts, Values) ==
  [len : Word, dest : Byte, src : Byte, msg : Byte, ref : Byte, id : Word,
   layout : Layouts, values : Values, sum : Byte]

LEMMA LastAndFront ==
  ASSUME NEW S, NEW s \in Seq(S), NEW e, << e >> \in Seq(S)
  PROVE  Last(s \o << e >>) = e /\ Front(s \o << e >>) = s
<1> DEFINE t == s \o << e >>
<1>1. t \in Seq(S) /\ Len(t) = Len(s) + 1 /\ t[Len(s) + 1] = e
      /\ \A i \in 1 .. Len(s) : t[i] = s[i]
  OBVIOUS
<1>2. Last(t) = e
  BY <1>1 DEF Last
<1> HIDE DEF t
<1>3. /\ SubSeq(t, 1, Len(s)) \in Seq(S)
      /\ Len(SubSeq(t, 1, Len(s))) = Len(s)
      /\ \A i \in 1 .. Len(s) : SubSeq(t, 1, Len(s))[i] = s[i]
  BY <1>1, SubSeqProperties
<1>4. SubSeq(t, 1, Len(s)) = s
  BY <1>3, SeqEqual
<1>5. Front(t) = s
  BY <1>1, <1>4 DEF Front
<1>6. QED  BY <1>2, <1>5 DEF t

LEMMA WordIsBytes ==
  ASSUME NEW v \in Word
  PROVE  ToLe(2, v) \in Seq(Byte)
<1>1. v \in Int
  BY WordRange
<1>2. v \div 1 \in Int /\ v \div 256 \in Int
  BY <1>1
<1>3. (v \div 1) % 256 \in Byte /\ (v \div 256) % 256 \in Byte
  BY <1>2 DEF Byte
<1>4. ToLe(2, v) = << (v \div 1) % 256, (v \div 256) % 256 >>
  BY DEF ToLe, Place
<1>5. \A a, b \in Byte : << a, b >> \in Seq(Byte)
  OBVIOUS
<1>6. << (v \div 1) % 256, (v \div 256) % 256 >> \in Seq(Byte)
  BY <1>3, <1>5, Zenon
<1>7. QED  BY <1>4, <1>6, Zenon

LEMMA HeaderIsBytes ==
  ASSUME NEW p, p.len \in Word, p.dest \in Byte, p.src \in Byte, p.msg \in Byte, p.ref \in Byte,
         p.id \in Word
  PROVE  Header(p) \in Seq(Byte)
<1>1. ToLe(2, p.len) \in Seq(Byte) /\ ToLe(2, p.id) \in Seq(Byte)
  BY WordIsBytes
<1>2. << 68, 75 >> \in Seq(Byte) /\ << p.dest, p.src, p.msg, p.ref >> \in Seq(Byte)
  BY DEF Byte
<1>3. QED  BY <1>1, <1>2, ConcatProperties DEF Header

\* After the proxies have changed its numbers, a packet still has the checksum that the
\* next one to read it works out, be it by encode, which takes the checksum the packet
\* has (USB), or by into (send_proxy.rs:83, read_proxy.rs:85, packet.rs:150).
THEOREM RenumberValid ==
  ASSUME NEW Layouts, NEW Values, NEW p \in Packet(Layouts, Values), NEW n \in Byte,
         Payload(p) \in Seq(Byte)
  PROVE  Valid(Encode(Renumber(p, n))) /\ Encode(Renumber(p, n)) = IntoBytes(Renumber(p, n))
<1> DEFINE r == [p EXCEPT !.msg = n, !.ref = n]
           q == Renumber(p, n)
           body == Header(q) \o Payload(q)
           S == Byte \cup {q.sum}
<1>1. /\ q.sum = PacketChecksum(r)
      /\ q.layout = p.layout /\ q.values = p.values /\ r.layout = p.layout /\ r.values = p.values
      /\ q.len = r.len /\ q.dest = r.dest /\ q.src = r.src /\ q.msg = r.msg /\ q.ref = r.ref
      /\ q.id = r.id
      /\ q.len \in Word /\ q.dest \in Byte /\ q.src \in Byte /\ q.msg \in Byte /\ q.ref \in Byte
      /\ q.id \in Word
  BY DEF Packet, Renumber
<1> HIDE DEF r, q
<1>2. Payload(q) = Payload(p) /\ Payload(r) = Payload(p)
  BY <1>1 DEF Payload
<1>3. Header(q) = Header(r)
  BY <1>1 DEF Header
<1>4. q.sum = PacketChecksum(q)
  BY <1>1, <1>2, <1>3 DEF PacketChecksum
<1>5. body \in Seq(Byte)
  BY <1>1, <1>2, HeaderIsBytes, ConcatProperties
<1> HIDE DEF body
<1>6. body \in Seq(S) /\ << q.sum >> \in Seq(S)
  BY <1>5
<1>7. Encode(q) = body \o << q.sum >> /\ IntoBytes(q) = body \o << q.sum >>
  BY <1>4 DEF Encode, IntoBytes, body
<1>8. Last(body \o << q.sum >>) = q.sum /\ Front(body \o << q.sum >>) = body
  BY <1>6, LastAndFront
<1>9. Checksum(body) = q.sum
  BY <1>4 DEF PacketChecksum, body
<1>10. QED  BY <1>7, <1>8, <1>9 DEF Valid, q

-----------------------------------------------------------------------------
(* Hubs.                                                                   *)

\* HUB_0 is set, or initialize is about to set it, as soon as the threads run.
HubInv ==
  /\ running => hub0 # << >> \/ init = "ctrl"
  /\ init \in {"rs485", "usb"} => hub0 # << >>
  /\ hub1 # << >> => hub0 # << >>

LEMMA HubInvInit == Init => HubInv
BY DEF Init, HubInv

LEMMA HubInvStep == HubInv /\ [Next]_vars => HubInv'
<1> SUFFICES ASSUME HubInv, [Next]_vars PROVE HubInv'
  OBVIOUS
<1> USE DEF HubInv, java, setup, lines
<1>1. CASE InformOfModule  BY <1>1 DEF InformOfModule
<1>2. CASE InformOfServoHub  BY <1>2 DEF InformOfServoHub
<1>3. CASE InitializeMostHw  BY <1>3 DEF InitializeMostHw, Call, Query
<1>4. CASE InitializeUsbExhub
  BY <1>4 DEF InitializeUsbExhub, Call, Query
<1>5. CASE AlreadyInitialized  BY <1>5 DEF AlreadyInitialized
<1>6. CASE TryGetPacket
  <2>1. PICK p : (CtrlHubReady(p) \/ ExHubReady(p)) \/ UNCHANGED << init, tokens, down, hub0, hub1 >>
    BY <1>6 DEF TryGetPacket
  <2>2. UNCHANGED running  BY <1>6 DEF TryGetPacket
  <2>3. CASE CtrlHubReady(p)
    BY <2>2, <2>3 DEF CtrlHubReady, NewHub, Query
  <2>4. CASE ExHubReady(p)
    BY <2>2, <2>4 DEF ExHubReady, NewHub
  <2>5. QED  BY <2>1, <2>2, <2>3, <2>4
<1>7. ASSUME NEW e \in SdkExchanges, SdkWrite(e) PROVE HubInv'
  BY <1>7 DEF SdkWrite
<1>8. ASSUME NEW h \in ToSet(hubs), NEW e \in BlazeExchanges, BlazeSend(h, e) PROVE HubInv'
  BY <1>8 DEF BlazeSend
<1>9. ASSUME NEW c \in Hubs, SdkRead(c) PROVE HubInv'
  BY <1>9 DEF SdkRead
<1>10. ASSUME NEW l \in Line, SdkDone(l) \/ BlazeRead(l) \/ HubAnswer(l) \/ ReadThread(l)
       PROVE  HubInv'
  <2>1. CASE BlazeRead(l)  BY <2>1 DEF BlazeRead
  <2>2. CASE HubAnswer(l)  BY <2>2 DEF HubAnswer
  <2>3. CASE ReadThread(l)
    BY <2>3 DEF ReadThread
  <2>4. CASE SdkDone(l)  BY <2>4 DEF SdkDone
  <2>5. QED  BY <1>10, <2>1, <2>2, <2>3, <2>4
<1>11. ASSUME NEW l \in Line, NEW w \in {"sdk", "blaze"}, LoseAnswer(l, w) PROVE HubInv'
  BY <1>11 DEF LoseAnswer
<1>12. CASE UNCHANGED vars  BY <1>12 DEF vars
<1>13. QED
  BY <1>1, <1>2, <1>3, <1>4, <1>5, <1>6, <1>7, <1>8, <1>9, <1>10, <1>11, <1>12 DEF Next, Java

\* HUB_1 is never set without HUB_0, which every thread that decodes takes for granted and
\* panics otherwise (base_lynx_command.rs:115, hardware.rs:330); not even if the first call
\* of initialize fails and there is a hub on USB to set up in the second.
THEOREM HubZeroFirst == Spec => [](hub1 # << >> => hub0 # << >>)
<1>1. HubInv => (hub1 # << >> => hub0 # << >>)
  BY DEF HubInv
<1>2. QED  BY HubInvInit, HubInvStep, <1>1, PTL DEF Spec

-----------------------------------------------------------------------------
(* Frames.                                                                 *)

Bytes == Seq(Byte)

LEMMA WordKept ==
  ASSUME NEW v \in Word
  PROVE  /\ Len(ToLe(2, v)) = 2
         /\ FromLeU16(ToLe(2, v)) = v
<1>1. v \in Int /\ 0 <= v /\ v < 65536
  BY WordRange
<1>2. v \div 1 = v /\ (v \div 256) % 256 = v \div 256 /\ v = (v % 256) + 256 * (v \div 256)
  BY <1>1
<1>3. ToLe(2, v) = << (v \div 1) % 256, (v \div 256) % 256 >>
  BY DEF ToLe, Place
<1>4. QED  BY <1>2, <1>3 DEF FromLeU16

LEMMA Joined ==
  ASSUME NEW S, NEW s \in Seq(S), NEW t \in Seq(S)
  PROVE  /\ s \o t \in Seq(S) /\ Len(s \o t) = Len(s) + Len(t)
         /\ \A i \in 1 .. Len(s) : (s \o t)[i] = s[i]
         /\ \A i \in 1 .. Len(t) : (s \o t)[Len(s) + i] = t[i]
OBVIOUS

\* Five sequences one after the other.
Consecutive(s, a, b, c, d, e) ==
  /\ Len(s) = Len(a) + Len(b) + Len(c) + Len(d) + Len(e)
  /\ \A i \in 1 .. Len(b) : s[Len(a) + i] = b[i]
  /\ \A i \in 1 .. Len(c) : s[Len(a) + Len(b) + i] = c[i]
  /\ \A i \in 1 .. Len(d) : s[Len(a) + Len(b) + Len(c) + i] = d[i]
  /\ \A i \in 1 .. Len(e) : s[Len(a) + Len(b) + Len(c) + Len(d) + i] = e[i]

LEMMA Parts ==
  ASSUME NEW S, NEW a \in Seq(S), NEW b \in Seq(S), NEW c \in Seq(S), NEW d \in Seq(S),
         NEW e \in Seq(S)
  PROVE  /\ a \o b \o c \o d \o e \in Seq(S)
         /\ Consecutive(a \o b \o c \o d \o e, a, b, c, d, e)
<1> DEFINE ab == a \o b
           abc == ab \o c
           abcd == abc \o d
           body == abcd \o e
<1> DEFINE Join(u, s, t) ==
             /\ Len(u) = Len(s) + Len(t)
             /\ \A i \in 1 .. Len(s) : u[i] = s[i]
             /\ \A i \in 1 .. Len(t) : u[Len(s) + i] = t[i]
<1>1. ab \in Seq(S) /\ abc \in Seq(S) /\ abcd \in Seq(S) /\ body \in Seq(S)
  BY ConcatProperties
<1>2. Join(ab, a, b)  BY Joined
<1> HIDE DEF ab
<1>3. Join(abc, ab, c)  BY ONLY Joined, <1>1, c \in Seq(S)
<1> HIDE DEF abc
<1>4. Join(abcd, abc, d)  BY ONLY Joined, <1>1, d \in Seq(S)
<1> HIDE DEF abcd
<1>5. Join(body, abcd, e)  BY ONLY Joined, <1>1, e \in Seq(S)
<1> HIDE DEF body
<1>6. /\ Len(a) \in Nat /\ Len(b) \in Nat /\ Len(c) \in Nat /\ Len(d) \in Nat
      /\ Len(e) \in Nat
  OBVIOUS
<1>7. ASSUME NEW i \in 1 .. Len(b) PROVE body[Len(a) + i] = b[i]
  <2>1. Len(a) + i \in 1 .. Len(ab) /\ Len(a) + i \in 1 .. Len(abc) /\ Len(a) + i \in 1 .. Len(abcd)
    BY <1>2, <1>3, <1>4, <1>6
  <2>2. QED  BY <2>1, <1>2, <1>3, <1>4, <1>5
<1>8. ASSUME NEW i \in 1 .. Len(c) PROVE body[Len(a) + Len(b) + i] = c[i]
  <2>1. Len(ab) + i \in 1 .. Len(abc) /\ Len(ab) + i \in 1 .. Len(abcd)
    BY <1>2, <1>3, <1>4, <1>6
  <2>2. body[Len(ab) + i] = c[i]  BY <2>1, <1>3, <1>4, <1>5
  <2>3. QED  BY <2>2, <1>2
<1>9. ASSUME NEW i \in 1 .. Len(d) PROVE body[Len(a) + Len(b) + Len(c) + i] = d[i]
  <2>1. Len(abc) + i \in 1 .. Len(abcd)
    BY <1>2, <1>3, <1>4, <1>6
  <2>2. body[Len(abc) + i] = d[i]  BY <2>1, <1>4, <1>5
  <2>3. QED  BY <2>2, <1>2, <1>3
<1>10. /\ Len(body) = Len(a) + Len(b) + Len(c) + Len(d) + Len(e)
       /\ \A i \in 1 .. Len(e) : body[Len(a) + Len(b) + Len(c) + Len(d) + i] = e[i]
  BY <1>2, <1>3, <1>4, <1>5, <1>6
<1>11. QED
  BY <1>1, <1>7, <1>8, <1>9, <1>10 DEF Consecutive, body, abcd, abc, ab

\* A frame as decoding finds it: where its fields are, its payload, and its checksum right.
LEMMA FrameParts ==
  ASSUME NEW dest \in Byte, NEW src \in Byte, NEW msg \in Byte, NEW ref \in Byte,
         NEW id \in Word, NEW data, Fits(data)
  PROVE  LET f == Frame(dest, src, msg, ref, id, data)
         IN /\ f \in Bytes /\ Len(f) = Overhead + Len(data)
            /\ f[5] = dest /\ f[6] = src /\ f[7] = msg /\ f[8] = ref
            /\ FromLeU16(SubSeq(f, 3, 4)) = Overhead + Len(data)
            /\ Head10(f) = [dest |-> dest, src |-> src, id |-> id]
            /\ PayloadOf(f) = data
            /\ Valid(f)
<1> DEFINE b == ToLe(2, Overhead + Len(data))
           d == ToLe(2, id)
           a == << 68, 75 >>
           c == << dest, src, msg, ref >>
           body == a \o b \o c \o d \o data
           f == Append(body, Checksum(body))
           n == Len(data)
<1>1. data \in Seq(Byte) /\ n \in Nat /\ Overhead + n \in Word /\ Overhead = 11
  BY DEF Fits, Overhead
<1>2. b \in Seq(Byte) /\ d \in Seq(Byte) /\ Len(b) = 2 /\ Len(d) = 2
      /\ FromLeU16(b) = Overhead + n /\ FromLeU16(d) = id
  BY <1>1, WordIsBytes, WordKept
<1>3. /\ a \in Seq(Byte) /\ Len(a) = 2 /\ c \in Seq(Byte) /\ Len(c) = 4
      /\ c[1] = dest /\ c[2] = src /\ c[3] = msg /\ c[4] = ref
  BY DEF Byte
<1> HIDE DEF a, b, c, d
<1>4. /\ body \in Seq(Byte) /\ Len(body) = 10 + n
      /\ \A i \in 1 .. 2 : body[2 + i] = b[i] /\ body[8 + i] = d[i]
      /\ \A i \in 1 .. 4 : body[4 + i] = c[i]
      /\ \A i \in 1 .. n : body[10 + i] = data[i]
  <2>1. body \in Seq(Byte) /\ Consecutive(body, a, b, c, d, data)
    <3>1. /\ a \in Seq(Byte) /\ b \in Seq(Byte) /\ c \in Seq(Byte) /\ d \in Seq(Byte)
          /\ data \in Seq(Byte)
      BY <1>1, <1>2, <1>3
    <3>2. QED  BY <3>1, Parts
  <2> HIDE DEF body
  <2>2. QED  BY <2>1, <1>1, <1>2, <1>3 DEF Consecutive
<1> HIDE DEF body, n
<1>5. body \in Seq(Byte) /\ Checksum(body) \in Byte /\ << Checksum(body) >> \in Seq(Byte)
  BY <1>4, ChecksumIsByte
<1>6. /\ f \in Seq(Byte) /\ Len(f) = 11 + n /\ f[Len(f)] = Checksum(body)
      /\ \A i \in 1 .. 10 + n : f[i] = body[i]
  BY <1>1, <1>4, <1>5, AppendProperties
<1>7. f = body \o << Checksum(body) >>
  BY <1>5, AppendIsConcat
<1> HIDE DEF f
<1>8. Last(f) = Checksum(body) /\ Front(f) = body
  BY <1>5, <1>7, LastAndFront
<1>9. f[3] = b[1] /\ f[4] = b[2] /\ f[9] = d[1] /\ f[10] = d[2]
  BY <1>1, <1>4, <1>6
<1>10. f[5] = dest /\ f[6] = src /\ f[7] = msg /\ f[8] = ref
  BY <1>1, <1>3, <1>4, <1>6
<1>11. /\ SubSeq(f, 3, 4)[1] = f[3] /\ SubSeq(f, 3, 4)[2] = f[4]
       /\ SubSeq(f, 9, 10)[1] = f[9] /\ SubSeq(f, 9, 10)[2] = f[10]
  <2>1. (\A i \in 3 .. 4 : f[i] \in Byte) /\ (\A i \in 9 .. 10 : f[i] \in Byte)
    BY <1>1, <1>6
  <2>2. \A i \in 1 .. 4 - 3 + 1 : SubSeq(f, 3, 4)[i] = f[3 + i - 1]
    BY ONLY <2>1, SubSeqProperties, 3 \in Int, 4 \in Int
  <2>3. \A i \in 1 .. 10 - 9 + 1 : SubSeq(f, 9, 10)[i] = f[9 + i - 1]
    BY ONLY <2>1, SubSeqProperties, 9 \in Int, 10 \in Int
  <2>4. QED  BY <2>2, <2>3
<1>12. FromLeU16(SubSeq(f, 3, 4)) = FromLeU16(b) /\ FromLeU16(SubSeq(f, 9, 10)) = FromLeU16(d)
  BY <1>9, <1>11 DEF FromLeU16
<1>13. SubSeq(f, 11, Len(f) - 1) = data
  <2>1. \A i \in 11 .. Len(f) - 1 : f[i] = data[i - 10] /\ f[i] \in Byte
    <3> TAKE i \in 11 .. Len(f) - 1
    <3>1. i \in 1 .. 10 + n /\ i - 10 \in 1 .. n /\ 10 + (i - 10) = i
      BY <1>1, <1>6
    <3>2. f[i] = body[i] /\ body[i] = data[i - 10]
      BY <3>1, <1>4, <1>6
    <3>3. data[i - 10] \in Byte
      BY <3>1, <1>1 DEF n
    <3>4. QED  BY <3>2, <3>3
  <2>2. LET s == SubSeq(f, 11, Len(f) - 1)
        IN /\ s \in Seq(Byte)
           /\ Len(s) = IF 11 <= Len(f) - 1 THEN Len(f) - 1 - 11 + 1 ELSE 0
           /\ \A i \in 1 .. Len(f) - 1 - 11 + 1 : s[i] = f[11 + i - 1]
    BY <1>1, <1>6, <2>1, SubSeqProperties
  <2> DEFINE s == SubSeq(f, 11, Len(f) - 1)
  <2>3. s \in Seq(Byte) /\ Len(s) = n /\ \A i \in 1 .. n : s[i] = f[10 + i]
    BY <1>1, <1>6, <2>2
  <2> HIDE DEF s
  <2>4. \A i \in 1 .. n : s[i] = data[i]
    BY <2>1, <2>3, <1>1, <1>6
  <2>5. QED  BY <1>1, <2>3, <2>4, SeqEqual DEF s, n
<1>14. Frame(dest, src, msg, ref, id, data) = f
  BY DEF Frame, f, body, a, b, c, d
<1>15. QED
  BY <1>1, <1>2, <1>6, <1>8, <1>10, <1>12, <1>13, <1>14 DEF Bytes, Head10, PayloadOf, Valid, n

\* A packet with the payload of a frame is written as that frame, on either line.
LEMMA Written ==
  ASSUME NEW p, NEW data, Payload(p) = data, Fits(data), p.len = Overhead + Len(data),
         p.dest \in Byte, p.src \in Byte, p.msg \in Byte, p.ref \in Byte, p.id \in Word
  PROVE  /\ IntoBytes(p) = Frame(p.dest, p.src, p.msg, p.ref, p.id, data)
         /\ p.sum = PacketChecksum(p) => Encode(p) = IntoBytes(p)
<1> DEFINE body == Header(p) \o data
<1>1. Header(p) \in Seq(Byte)
  BY HeaderIsBytes DEF Fits
<1>2. body \in Seq(Byte)
  BY <1>1, ConcatProperties DEF Fits
<1>3. body \in Seq(Byte) /\ Checksum(body) \in Byte
  BY <1>2, ChecksumIsByte
<1>4. Append(body, Checksum(body)) = body \o << Checksum(body) >>
  BY <1>3, AppendIsConcat
<1>5. IntoBytes(p) = body \o << Checksum(body) >>
  BY DEF IntoBytes, PacketChecksum
<1>6. Frame(p.dest, p.src, p.msg, p.ref, p.id, data) = Append(body, Checksum(body))
  BY DEF Frame, Header
<1>7. p.sum = PacketChecksum(p) => Encode(p) = IntoBytes(p)
  BY DEF Encode, IntoBytes
<1>8. QED  BY <1>4, <1>5, <1>6, <1>7

\* What a frame is decoded as.
LEMMA Decoded ==
  ASSUME NEW dest \in Byte, NEW src \in Byte, NEW msg \in Byte, NEW ref \in Byte,
         NEW id \in Word, NEW data, Fits(data), NEW known
  PROVE  LET f   == Frame(dest, src, msg, ref, id, data)
             lay == LayoutOf(known, [dest |-> dest, src |-> src, id |-> id])
         IN /\ Decodes(known, f) = Parses(lay.fields, data)
            /\ FromData(known, f) =
                 [len |-> Overhead + Len(data), dest |-> dest, src |-> src, msg |-> msg,
                  ref |-> ref, id |-> id, layout |-> lay, values |-> Parse(lay.fields, data),
                  sum |-> Last(f)]
<1> DEFINE f == Frame(dest, src, msg, ref, id, data)
           head == [dest |-> dest, src |-> src, id |-> id]
<1>1. /\ FromLeU16(SubSeq(f, 3, 4)) = Overhead + Len(data) /\ Head10(f) = head
      /\ PayloadOf(f) = data /\ f[7] = msg /\ f[8] = ref
  BY FrameParts
<1> HIDE DEF f
<1>2. head.dest = dest /\ head.src = src /\ head.id = id
  OBVIOUS
<1> HIDE DEF head
<1>3. Decodes(known, f) = Parses(LayoutOf(known, head).fields, data)
  BY <1>1, Zenon DEF Decodes
<1>4. FromData(known, f) =
        [len |-> Overhead + Len(data), dest |-> dest, src |-> src, msg |-> msg,
         ref |-> ref, id |-> id, layout |-> LayoutOf(known, head),
         values |-> Parse(LayoutOf(known, head).fields, data), sum |-> Last(f)]
  BY <1>1, <1>2, Zenon DEF FromData
<1>5. QED  BY <1>3, <1>4 DEF f, head

LEMMA PayloadByCommand ==
  ASSUME NEW p, NEW q, p.layout = q.layout, p.values = q.values
  PROVE  Payload(p) = Payload(q)
BY DEF Payload

LEMMA Renumbered ==
  ASSUME NEW p, NEW data, Payload(p) = data, Fits(data), NEW n \in Byte,
         NEW dest \in Byte, NEW src \in Byte, NEW id \in Word, NEW lay, NEW values, NEW m, NEW r,
         NEW sum, NEW l,
         p = [len |-> Overhead + Len(data), dest |-> dest, src |-> src, msg |-> m, ref |-> r,
              id |-> id, layout |-> lay, values |-> values, sum |-> sum]
  PROVE  Wire(l, Renumber(p, n)) = Frame(dest, src, n, n, id, data)
<1> DEFINE q == [p EXCEPT !.msg = n, !.ref = n]
           s == Renumber(p, n)
           Record(mm, rr, ss) ==
             [len |-> Overhead + Len(data), dest |-> dest, src |-> src, msg |-> mm, ref |-> rr,
              id |-> id, layout |-> lay, values |-> values, sum |-> ss]
<1>1. q = Record(n, n, sum) /\ s = Record(n, n, PacketChecksum(q))
  <2>1. [p EXCEPT !.msg = n] = Record(n, r, sum)
    OBVIOUS
  <2>2. \A t : t = Record(n, r, sum) => [t EXCEPT !.ref = n] = Record(n, n, sum)
    OBVIOUS
  <2>3. q = Record(n, n, sum)
    BY <2>1, <2>2, Zenon
  <2>4. \A t, x : t = Record(n, n, sum) => [t EXCEPT !.sum = x] = Record(n, n, x)
    OBVIOUS
  <2>5. s = [q EXCEPT !.sum = PacketChecksum(q)]
    BY Zenon DEF Renumber
  <2> HIDE DEF q, s
  <2>6. QED  BY <2>3, <2>4, <2>5, Zenon
<1> HIDE DEF q, s
<1>2. /\ q.len = s.len /\ q.dest = s.dest /\ q.src = s.src /\ q.msg = s.msg /\ q.ref = s.ref
      /\ q.id = s.id /\ q.layout = s.layout /\ q.values = s.values
      /\ s.layout = p.layout /\ s.values = p.values /\ s.sum = PacketChecksum(q)
      /\ s.len = Overhead + Len(data) /\ s.dest = dest /\ s.src = src /\ s.msg = n /\ s.ref = n
      /\ s.id = id
  BY <1>1
<1>3. Payload(s) = data /\ Payload(q) = Payload(s)
  BY <1>2, PayloadByCommand
<1>4. Header(q) = Header(s)
  BY <1>2 DEF Header
<1>5. s.sum = PacketChecksum(s)
  BY <1>2, <1>3, <1>4 DEF PacketChecksum
<1>6. IntoBytes(s) = Frame(dest, src, n, n, id, data) /\ Encode(s) = IntoBytes(s)
  BY <1>2, <1>3, <1>5, Written
<1>7. QED  BY <1>6 DEF Wire, s

-----------------------------------------------------------------------------
(* What may be known of the hubs, and what packets are decoded as then.    *)

CtrlHub == [addr |-> Ctrl, first |-> Commanded[Ctrl].first, count |-> Commanded[Ctrl].count,
            line |-> "serial"]
ExHub(l) == [addr |-> Ex, first |-> Commanded[Ex].first, count |-> Commanded[Ex].count,
             line |-> l]
Stages == {<< >>, << CtrlHub >>} \cup {<< CtrlHub, ExHub(l) >> : l \in Line}

LEMMA Addresses ==
  /\ Ctrl \in Hubs /\ Ex \in Hubs /\ Ctrl # Ex
  /\ \A h \in Hubs : h \in Byte /\ h # 0 /\ h \notin DOMAIN Parent
  /\ \A a \in DOMAIN Parent : a \in Byte /\ a # 0 /\ Parent[a] \in Hubs
  /\ \A h \in Hubs : Commanded[h].first \in Word /\ Commanded[h].count \in Word
  /\ 0 \in Byte /\ SdkNum \in Byte /\ ProxyNum \in Byte /\ BlazeNum \in Byte
BY StartupAssumption DEF Hubs, Byte

LEMMA KnownAt ==
  ASSUME NEW known \in Stages, NEW a, Known(known, a) # {}
  PROVE  LET m == ModuleAt(known, a)
         IN /\ a \in Hubs /\ m.addr = a
            /\ m.first = Commanded[a].first /\ m.count = Commanded[a].count
            /\ \E i \in DOMAIN known : Known(known, a) = {i} /\ m = known[i]
<1>1. PICK i \in DOMAIN known : known[i].addr = a
  BY DEF Known
<1>2. /\ DOMAIN known \subseteq 1 .. 2
      /\ \A j, k \in DOMAIN known : known[j].addr = known[k].addr => j = k
      /\ \A j \in DOMAIN known : /\ known[j].addr \in Hubs
                                 /\ known[j].first = Commanded[known[j].addr].first
                                 /\ known[j].count = Commanded[known[j].addr].count
  <2>1. /\ CtrlHub.addr = Ctrl /\ CtrlHub.first = Commanded[Ctrl].first
        /\ CtrlHub.count = Commanded[Ctrl].count
        /\ \A l : /\ ExHub(l).addr = Ex /\ ExHub(l).first = Commanded[Ex].first
                 /\ ExHub(l).count = Commanded[Ex].count
    BY DEF CtrlHub, ExHub
  <2>2. CASE known = << >>  BY <2>2
  <2>3. CASE known = << CtrlHub >>  BY <2>1, <2>3, Addresses
  <2>4. CASE \E l \in Line : known = << CtrlHub, ExHub(l) >>
    BY <2>1, <2>4, Addresses
  <2>5. QED  BY <2>2, <2>3, <2>4 DEF Stages
<1>3. Known(known, a) = {i}
  BY <1>1, <1>2 DEF Known
<1>4. i <= i
  BY <1>2
<1>5. ModuleAt(known, a) = known[i]
  BY <1>3, <1>4 DEF ModuleAt
<1>6. QED  BY <1>1, <1>2, <1>3, <1>5

LEMMA NobodyAtZero ==
  ASSUME NEW known \in Stages
  PROVE  Known(known, 0) = {}
BY KnownAt, Addresses

\* The host has the address 0.
Between(packet, addr) ==
  \/ packet.dest = addr /\ packet.src = 0
  \/ packet.dest = 0 /\ packet.src = addr

LEMMA LayoutMayBe ==
  ASSUME NEW known \in Stages, NEW p, NEW a \in Hubs \cup DOMAIN Parent, Between(p, a)
  PROVE  LayoutOf(known, p) \in MayBe(p.id, a)
<1>1. CASE IsStandard(StandardKey(p.id))
  BY <1>1 DEF LayoutOf, MayBe
<1>2. CASE ~ IsStandard(StandardKey(p.id))
  <2>1. CASE Owner(known, p) = -1
    <3>1. LayoutOf(known, p) = UnknownLayout
      BY <1>2, <2>1 DEF LayoutOf
    <3>2. QED  BY <1>2, <3>1 DEF MayBe
  <2>2. CASE Owner(known, p) # -1
    <3>1. Known(known, a) # {} /\ Owner(known, p) = ModuleAt(known, a).first
      BY <2>2, NobodyAtZero DEF Owner, Between
    <3>2. a \in Hubs /\ Owner(known, p) = Commanded[a].first
      BY <3>1, KnownAt
    <3>3. LayoutOf(known, p) = LynxLayout(p.id - Commanded[a].first)
      BY <1>2, <2>2, <3>2 DEF LayoutOf
    <3>4. QED  BY <1>2, <3>2, <3>3 DEF MayBe
  <2>3. QED  BY <2>1, <2>2
<1>3. QED  BY <1>1, <1>2

\* A hub's answer is taken for the command it is as soon as the hub is known, whatever else is.
LEMMA AnswerRecognised ==
  ASSUME NEW known \in Stages, NEW a, Known(known, a) # {}, NEW id \in Word
  PROVE  LET p == [dest |-> 0, src |-> a, id |-> id]
         IN LayoutOf(known, p) =
            LayoutOf(<< [addr |-> a, first |-> Commanded[a].first, count |-> Commanded[a].count] >>, p)
<1> DEFINE p == [dest |-> 0, src |-> a, id |-> id]
           m == [addr |-> a, first |-> Commanded[a].first, count |-> Commanded[a].count]
           one == << m >>
<1>1. a \in Hubs /\ a # 0
  BY KnownAt, Addresses
<1>2. Known(one, a) = {1} /\ Known(one, 0) = {}
  BY <1>1 DEF Known
<1>3. ModuleAt(one, a) = m
  <2>1. 1 <= 1  OBVIOUS
  <2>2. QED  BY <1>2, <2>1 DEF ModuleAt
<1>4. IsModuleResponse(ModuleAt(known, a), id) = IsModuleResponse(m, id)
      /\ ModuleAt(known, a).first = m.first
  BY KnownAt DEF IsModuleResponse, IsModuleCommand
<1>5. Known(known, 0) = {}  BY NobodyAtZero
<1>6. p.dest = 0 /\ p.src = a /\ p.id = id  OBVIOUS
<1> HIDE DEF p, m, one
<1>7. Owner(known, p) = Owner(one, p)
  BY <1>2, <1>3, <1>4, <1>5, <1>6 DEF Owner
<1>8. QED  BY <1>7 DEF LayoutOf, p, m, one

-----------------------------------------------------------------------------
(* What is sent is kept.                                                   *)

LEMMA RowOf ==
  ASSUME NEW table, NEW row \in table, \A r \in table : r.key = row.key => r = row
  PROVE  row.key \in Keys(table) /\ LayoutIn(table, row.key) = row.layout
<1>1. (CHOOSE r \in table : r.key = row.key) = row
  OBVIOUS
<1>2. QED  BY <1>1 DEF Keys, LayoutIn

LEMMA QueryLayout ==
  /\ IsStandard(QueryInterface) /\ IsStandard(QueryInterfaceResponse)
  /\ StandardLayout(QueryInterface).fields = << "all" >>
  /\ StandardLayout(QueryInterfaceResponse).fields = << "u16", "u16" >>
<1> DEFINE q == Row(QueryInterface, << "all" >>, 0)
           r == Row(QueryInterfaceResponse, << "u16", "u16" >>, 4)
<1>1. ACK = 32513 /\ NACK = 32514 /\ KeepAlive = 32516 /\ QueryInterface = 32519
      /\ QueryInterfaceResponse = 65287
  BY DEF ACK, NACK, KeepAlive, QueryInterface, QueryInterfaceResponse, ResponseBit
<1>2. /\ q.key = QueryInterface /\ q.layout.fields = << "all" >>
      /\ r.key = QueryInterfaceResponse /\ r.layout.fields = << "u16", "u16" >>
  BY DEF Row, Layout
<1>3. q \in StandardLayouts /\ r \in StandardLayouts
  BY DEF StandardLayouts, QueryLayouts
<1>4. \A w \in StandardLayouts : w = q \/ w = r \/ w.key \in {ACK, NACK, KeepAlive}
  BY DEF StandardLayouts, AckLayouts, NackLayouts, QueryLayouts, Row
<1> HIDE DEF q, r
<1>5. \A w \in StandardLayouts : (w.key = q.key => w = q) /\ (w.key = r.key => w = r)
  BY <1>1, <1>2, <1>4
<1>6. q.key \in Keys(StandardLayouts) /\ LayoutIn(StandardLayouts, q.key) = q.layout
  BY <1>3, <1>5, RowOf
<1>7. r.key \in Keys(StandardLayouts) /\ LayoutIn(StandardLayouts, r.key) = r.layout
  BY <1>3, <1>5, RowOf
<1>8. QED  BY <1>2, <1>6, <1>7 DEF IsStandard, StandardLayout

LEMMA QueryKept == Encodes(StandardLayout(QueryInterface), << Deka >>, Deka)
<1> DEFINE fields == << "all" >>
           lay == StandardLayout(QueryInterface)
<1>1. Proper(lay) /\ lay.fields = fields
  BY QueryLayout, LayoutsProper
<1>2. Deka \in Seq(Byte) /\ SubSeq(Deka, 1, Len(Deka)) = Deka
  <2>1. Deka \in Seq(Byte)  BY DEF Deka, Byte
  <2>2. QED  BY <2>1
<1>3. fields \in Seq(Kind) /\ Len(fields) = 1 /\ DOMAIN fields = {1} /\ fields[1] = "all"
      /\ fields # << >> /\ Last(fields) = "all"
  BY DEF Kind, Last
<1>4. << Deka >> = [i \in {1} |-> Deka]  OBVIOUS
<1> HIDE DEF fields
<1>5. Start(fields, 1) = 1
  <2>1. Shaped(fields)  BY <1>3 DEF Shaped
  <2>2. QED  BY <1>3, <2>1, Starts
<1>6. Parses(fields, Deka)
  BY <1>3 DEF Parses, FieldFits, Enum
<1>7. Plain(fields, Deka)
  BY <1>3 DEF Plain, Canonical, EndOf
<1>8. Parse(fields, Deka) = << Deka >>
  <2>1. FieldValue("all", Deka, 1) = Deka
    BY <1>2 DEF FieldValue
  <2>2. \A i \in {1} : FieldValue(fields[i], Deka, Start(fields, i)) = Deka
    BY <1>3, <1>5, <2>1
  <2>3. QED  BY <1>3, <1>4, <2>2 DEF Parse
<1> HIDE DEF lay
<1>9. Keeps(lay, Deka)
  BY <1>1, <1>2, <1>6, <1>7, PayloadKept
<1>10. QED  BY <1>1, <1>8, <1>9 DEF Keeps, lay

LEMMA TwoBytes ==
  ASSUME NEW a \in Seq(Byte), Len(a) = 2
  PROVE  a = << a[1], a[2] >>
<1>1. PICK t : t = << a[1], a[2] >>  OBVIOUS
<1>2. t \in Seq(Byte) /\ Len(t) = 2 /\ t[1] = a[1] /\ t[2] = a[2]
  <2>1. a[1] \in Byte /\ a[2] \in Byte  OBVIOUS
  <2>2. QED  BY <1>1, <2>1
<1>3. Len(a) = Len(t) /\ \A i \in 1 .. Len(a) : a[i] = t[i]
  BY <1>2
<1>4. a = t
  BY ONLY a \in Seq(Byte), <1>2, <1>3, SeqEqual
<1>5. QED  BY <1>1, <1>4

LEMMA Halves ==
  ASSUME NEW a \in Seq(Byte), NEW b \in Seq(Byte), Len(a) = 2, Len(b) = 2, NEW s, s = a \o b
  PROVE  SubSeq(s, 1, 2) = a /\ SubSeq(s, 3, 4) = b
<1>1. /\ s \in Seq(Byte) /\ Len(s) = 4
      /\ s[1] = a[1] /\ s[2] = a[2] /\ s[3] = b[1] /\ s[4] = b[2]
  <2>1. /\ a \o b \in Seq(Byte) /\ Len(a \o b) = Len(a) + Len(b)
        /\ \A i \in 1 .. Len(a) : (a \o b)[i] = a[i]
        /\ \A i \in 1 .. Len(b) : (a \o b)[Len(a) + i] = b[i]
    BY ONLY a \in Seq(Byte), b \in Seq(Byte), Joined
  <2>2. /\ s \in Seq(Byte) /\ Len(s) = 4
        /\ \A i \in 1 .. 2 : s[i] = a[i]
        /\ \A i \in 1 .. 2 : s[2 + i] = b[i]
    BY <2>1
  <2>3. 1 \in 1 .. 2 /\ 2 \in 1 .. 2 /\ 2 + 1 = 3 /\ 2 + 2 = 4  OBVIOUS
  <2>4. s[3] = b[1] /\ s[4] = b[2]  BY <2>2, <2>3
  <2>5. QED  BY <2>2, <2>3, <2>4
<1>2. a = << a[1], a[2] >> /\ b = << b[1], b[2] >>
  BY TwoBytes
<1>3. SubSeq(s, 1, 2) = << s[1], s[2] >>
  <2>1. PICK n \in Nat \ {0} : n = 1  OBVIOUS
  <2>2. n + 1 <= Len(s) /\ n + 1 = 2  BY <1>1, <2>1
  <2>3. SubSeq(s, n, n + 1) = << s[n], s[n + 1] >>
    BY ONLY <1>1, n \in Nat \ {0}, <2>2, Slice2
  <2>4. QED  BY <2>1, <2>2, <2>3
<1>4. SubSeq(s, 3, 4) = << s[3], s[4] >>
  <2>1. PICK n \in Nat \ {0} : n = 3  OBVIOUS
  <2>2. n + 1 <= Len(s) /\ n + 1 = 4  BY <1>1, <2>1
  <2>3. SubSeq(s, n, n + 1) = << s[n], s[n + 1] >>
    BY ONLY <1>1, n \in Nat \ {0}, <2>2, Slice2
  <2>4. QED  BY <2>1, <2>2, <2>3
<1>5. QED  BY <1>1, <1>2, <1>3, <1>4

\* What generate_module makes of a hub's answer is the range the hub gave.
LEMMA RangeRead ==
  ASSUME NEW h \in Hubs
  PROVE  Parse(StandardLayout(QueryInterfaceResponse).fields, RangeOf(h))
           = << Commanded[h].first, Commanded[h].count >>
<1> DEFINE fields == << "u16", "u16" >>
           a == ToLe(2, Commanded[h].first)
           b == ToLe(2, Commanded[h].count)
<1>1. /\ a \in Seq(Byte) /\ b \in Seq(Byte) /\ Len(a) = 2 /\ Len(b) = 2
      /\ FromLeU16(a) = Commanded[h].first /\ FromLeU16(b) = Commanded[h].count
  BY Addresses, WordIsBytes, WordKept
<1>2. fields \in Seq(Kind) /\ Len(fields) = 2 /\ DOMAIN fields = {1, 2}
      /\ fields[1] = "u16" /\ fields[2] = "u16" /\ fields # << >> /\ Shaped(fields)
  BY DEF Kind, Fixed, Shaped
<1> HIDE DEF a, b, fields
<1>3. PICK s : s = a \o b  OBVIOUS
<1>4. Start(fields, 1) = 1 /\ Start(fields, 2) = 3
  <2>1. /\ Start(fields, 1) = 1
        /\ \A i, j \in 1 .. 2 : j = i + 1 => Start(fields, j) = Start(fields, i) + Width[fields[i]]
    BY <1>2, EachStart
  <2>2. QED  BY <1>2, <2>1, Widths
<1>5. SubSeq(s, 1, 2) = a /\ SubSeq(s, 3, 4) = b
  BY <1>1, <1>3, Halves
<1>6. FieldValue("u16", s, 1) = FromLeU16(a) /\ FieldValue("u16", s, 3) = FromLeU16(b)
  <2>1. /\ FieldValue("u16", s, 1) = FromLeU16(SubSeq(s, 1, 1 + 1))
        /\ FieldValue("u16", s, 3) = FromLeU16(SubSeq(s, 3, 3 + 1))
    BY ValueOfWord
  <2>2. 1 + 1 = 2 /\ 3 + 1 = 4  OBVIOUS
  <2>3. QED  BY <1>5, <2>1, <2>2
<1>7. Parse(fields, s) = << FromLeU16(a), FromLeU16(b) >>
  <2>1. Parse(fields, s) = [i \in {1, 2} |-> FieldValue("u16", s, IF i = 1 THEN 1 ELSE 3)]
    <3>1. \A i \in {1, 2} : FieldValue(fields[i], s, Start(fields, i))
                                = FieldValue("u16", s, IF i = 1 THEN 1 ELSE 3)
      BY <1>2, <1>4
    <3>2. QED  BY <1>2, <3>1 DEF Parse
  <2>2. << FromLeU16(a), FromLeU16(b) >>
          = [i \in {1, 2} |-> IF i = 1 THEN FromLeU16(a) ELSE FromLeU16(b)]
    OBVIOUS
  <2>3. QED  BY <1>6, <2>1, <2>2
<1>8. QED  BY <1>1, <1>3, <1>7, QueryLayout DEF RangeOf, fields, a, b

LEMMA MayBeProper ==
  ASSUME NEW id, NEW addr, NEW lay \in MayBe(id, addr)
  PROVE  Proper(lay)
BY LayoutsProper DEF MayBe

\* Every payload that is exchanged is encoded again as it was.
LEMMA ExchangesKept ==
  /\ \A e \in SdkExchanges :
       /\ \A lay \in MayBe(e.id, e.to) : Parses(lay.fields, e.req) => Keeps(lay, e.req)
       /\ \A lay \in MayBe(e.rid, e.to) : Parses(lay.fields, e.rsp) => Keeps(lay, e.rsp)
  /\ \A e \in BlazeExchanges : Keeps(LynxLayout(e.id - Commanded[e.to].first), e.req)
<1>1. \A e \in SdkExchanges \cup BlazeExchanges : e.req \in Seq(Byte) /\ e.rsp \in Seq(Byte)
  BY ExchangeAssumption DEF Fits
<1>2. ASSUME NEW e \in SdkExchanges, NEW lay \in MayBe(e.id, e.to), Parses(lay.fields, e.req)
      PROVE  Keeps(lay, e.req)
  <2>1. Proper(lay) /\ Plain(lay.fields, e.req) /\ e.req \in Seq(Byte)
    BY <1>1, <1>2, MayBeProper, PayloadAssumption
  <2>2. QED  BY <1>2, <2>1, PayloadKept
<1>3. ASSUME NEW e \in SdkExchanges, NEW lay \in MayBe(e.rid, e.to), Parses(lay.fields, e.rsp)
      PROVE  Keeps(lay, e.rsp)
  <2>1. Proper(lay) /\ Plain(lay.fields, e.rsp) /\ e.rsp \in Seq(Byte)
    BY <1>1, <1>3, MayBeProper, PayloadAssumption
  <2>2. QED  BY <1>3, <2>1, PayloadKept
<1>4. ASSUME NEW e \in BlazeExchanges PROVE Keeps(LynxLayout(e.id - Commanded[e.to].first), e.req)
  <2>1. PICK lay : lay = LynxLayout(e.id - Commanded[e.to].first)  OBVIOUS
  <2>2. Proper(lay) /\ e.req \in Seq(Byte) /\ Parses(lay.fields, e.req) /\ Plain(lay.fields, e.req)
    BY <1>1, <2>1, LayoutsProper, PayloadAssumption
  <2>3. QED  BY <2>1, <2>2, PayloadKept
<1>5. QED  BY <1>2, <1>3, <1>4

-----------------------------------------------------------------------------
(* What is read of it.                                                     *)

LEMMA QueryAnswerLayout ==
  ASSUME NEW known, NEW p, p.id = QueryInterfaceResponse
  PROVE  LayoutOf(known, p) = StandardLayout(QueryInterfaceResponse)
<1>1. QueryInterfaceResponse = 65287 /\ CommandNumber(QueryInterfaceResponse) = 32519
  BY DEF QueryInterfaceResponse, QueryInterface, ResponseBit, CommandNumber
<1>2. StandardKey(QueryInterfaceResponse) = QueryInterfaceResponse
  BY <1>1 DEF StandardKey, ACK, NACK, KeepAlive
<1>3. IsStandard(QueryInterfaceResponse)
  BY QueryLayout
<1>4. QED  BY <1>2, <1>3 DEF LayoutOf

\* What goes down a line: the SDK's requests, Blaze's and the interface query.
LEMMA RequestKept ==
  ASSUME NEW known \in Stages, NEW e \in SdkExchanges, NEW l,
         Decodes(known, Frame(e.to, 0, SdkNum, 0, e.id, e.req))
  PROVE  Wire(l, Renumber(FromData(known, Frame(e.to, 0, SdkNum, 0, e.id, e.req)), ProxyNum))
           = Frame(e.to, 0, ProxyNum, ProxyNum, e.id, e.req)
<1> DEFINE f == Frame(e.to, 0, SdkNum, 0, e.id, e.req)
           head == [dest |-> e.to, src |-> 0, id |-> e.id]
           lay == LayoutOf(known, head)
           p == FromData(known, f)
           values == Parse(lay.fields, e.req)
<1>1. /\ e.to \in Hubs \cup DOMAIN Parent /\ e.to \in Byte /\ e.id \in Word /\ Fits(e.req)
      /\ 0 \in Byte /\ SdkNum \in Byte /\ ProxyNum \in Byte
  BY ExchangeAssumption, Addresses
<1>2. /\ Decodes(known, f) = Parses(lay.fields, e.req)
      /\ p = [len |-> Overhead + Len(e.req), dest |-> e.to, src |-> 0, msg |-> SdkNum, ref |-> 0,
              id |-> e.id, layout |-> lay, values |-> values, sum |-> Last(f)]
  BY <1>1, Decoded
<1>3. lay \in MayBe(e.id, e.to)
  <2>1. head.dest = e.to /\ head.src = 0 /\ head.id = e.id
    OBVIOUS
  <2> HIDE DEF head, lay, p, f, values
  <2>2. Between(head, e.to)
    BY <2>1 DEF Between
  <2>3. LayoutOf(known, head) \in MayBe(head.id, e.to)
    BY <1>1, <2>2, LayoutMayBe
  <2>4. QED  BY <2>1, <2>3 DEF lay
<1>4. Payload([layout |-> lay, values |-> values]) = e.req
  BY <1>2, <1>3, ExchangesKept DEF Keeps, Encodes
<1> HIDE DEF f, lay, p, values
<1>5. Payload(p) = e.req
  BY <1>2, <1>4, PayloadByCommand
<1>6. Wire(l, Renumber(p, ProxyNum)) = Frame(e.to, 0, ProxyNum, ProxyNum, e.id, e.req)
  BY <1>1, <1>2, <1>5, Renumbered
<1>7. QED  BY <1>6 DEF p, f

LEMMA NewPacket ==
  ASSUME NEW lay, NEW id, NEW values, NEW dest
  PROVE  LET p == NewFull(lay, id, values, dest, 0, 0, 0)
             q == [len |-> Overhead + BytesLen(lay, values), dest |-> dest, src |-> 0,
                   msg |-> 0, ref |-> 0, id |-> id, layout |-> lay, values |-> values, sum |-> 0]
         IN p = [len |-> Overhead + BytesLen(lay, values), dest |-> dest, src |-> 0,
                 msg |-> 0, ref |-> 0, id |-> id, layout |-> lay, values |-> values,
                 sum |-> PacketChecksum(q)]
<1> DEFINE q == [len |-> Overhead + BytesLen(lay, values), dest |-> dest, src |-> 0,
                 msg |-> 0, ref |-> 0, id |-> id, layout |-> lay, values |-> values, sum |-> 0]
<1>1. \A x : [q EXCEPT !.sum = x] =
               [len |-> Overhead + BytesLen(lay, values), dest |-> dest, src |-> 0,
                msg |-> 0, ref |-> 0, id |-> id, layout |-> lay, values |-> values, sum |-> x]
  OBVIOUS
<1> DEFINE p == NewFull(lay, id, values, dest, 0, 0, 0)
<1>2. p = [q EXCEPT !.sum = PacketChecksum(q)]
  BY Zenon DEF NewFull
<1> HIDE DEF p
<1>3. p = [len |-> Overhead + BytesLen(lay, values), dest |-> dest, src |-> 0,
           msg |-> 0, ref |-> 0, id |-> id, layout |-> lay, values |-> values,
           sum |-> PacketChecksum(q)]
  BY <1>1, <1>2, Zenon
<1>4. QED  BY <1>3, Zenon DEF p

LEMMA CommandSent ==
  ASSUME NEW e \in BlazeExchanges, NEW l, NEW h, h.first = Commanded[e.to].first, h.addr = e.to
  PROVE  LET key == e.id - Commanded[e.to].first
             lay == LynxLayout(key)
         IN Wire(l, Renumber(NewFull(lay, h.first + key, Parse(lay.fields, e.req), h.addr, 0, 0, 0),
                             BlazeNum))
              = Frame(e.to, 0, BlazeNum, BlazeNum, e.id, e.req)
<1> DEFINE key == e.id - Commanded[e.to].first
           lay == LynxLayout(key)
           values == Parse(lay.fields, e.req)
           p == NewFull(lay, h.first + key, values, h.addr, 0, 0, 0)
<1>1. /\ e.to \in Hubs /\ e.to \in Byte /\ e.id \in Word /\ Fits(e.req)
      /\ 0 \in Byte /\ BlazeNum \in Byte /\ Commanded[e.to].first \in Word
  BY ExchangeAssumption, Addresses
<1>2. h.first + key = e.id
  <2>1. key = e.id - h.first
    BY Zenon
  <2>2. \A w \in Word : w \in Int
    BY WordRange
  <2>3. e.id \in Int /\ h.first \in Int
    BY <1>1, <2>2, Zenon
  <2>4. \A m, n \in Int : n + (m - n) = m
    OBVIOUS
  <2>5. QED  BY <2>1, <2>3, <2>4, Zenon
<1>3. Payload([layout |-> lay, values |-> values]) = e.req /\ BytesLen(lay, values) = Len(e.req)
  BY ExchangesKept DEF Keeps, Encodes
<1> HIDE DEF key, lay, values
<1> DEFINE q == [len |-> Overhead + BytesLen(lay, values), dest |-> h.addr, src |-> 0,
                 msg |-> 0, ref |-> 0, id |-> h.first + key, layout |-> lay, values |-> values,
                 sum |-> 0]
<1>4. p = [len |-> Overhead + BytesLen(lay, values), dest |-> h.addr, src |-> 0, msg |-> 0,
           ref |-> 0, id |-> h.first + key, layout |-> lay, values |-> values,
           sum |-> PacketChecksum(q)]
  BY NewPacket, Zenon
<1> HIDE DEF p, q
<1>5. PICK sum : p = [len |-> Overhead + Len(e.req), dest |-> e.to, src |-> 0, msg |-> 0, ref |-> 0,
                      id |-> e.id, layout |-> lay, values |-> values, sum |-> sum]
  BY <1>2, <1>3, <1>4
<1>6. Payload(p) = e.req
  BY <1>3, <1>5, PayloadByCommand
<1>7. Wire(l, Renumber(p, BlazeNum)) = Frame(e.to, 0, BlazeNum, BlazeNum, e.id, e.req)
  BY <1>1, <1>5, <1>6, Renumbered
<1>8. QED  BY <1>7 DEF p, values, lay, key

LEMMA QuerySent ==
  ASSUME NEW h \in Hubs, NEW l
  PROVE  Wire(l, NewFull(StandardLayout(QueryInterface), QueryInterface, << Deka >>, h, 0, 0, 0))
           = Frame(h, 0, 0, 0, QueryInterface, Deka)
<1> DEFINE lay == StandardLayout(QueryInterface)
           p == NewFull(lay, QueryInterface, << Deka >>, h, 0, 0, 0)
           q == [len |-> Overhead + BytesLen(lay, << Deka >>), dest |-> h, src |-> 0, msg |-> 0,
                 ref |-> 0, id |-> QueryInterface, layout |-> lay, values |-> << Deka >>, sum |-> 0]
<1>1. Payload([layout |-> lay, values |-> << Deka >>]) = Deka /\ BytesLen(lay, << Deka >>) = Len(Deka)
  BY QueryKept DEF Encodes
<1>2. Fits(Deka) /\ QueryInterface \in Word /\ h \in Byte /\ 0 \in Byte
  <2>1. Deka \in Seq(Byte) /\ Len(Deka) = 5
    BY DEF Deka, Byte
  <2>2. Fits(Deka)
    BY <2>1, WordRange DEF Fits, Overhead
  <2>3. QueryInterface \in Word
    BY WordRange DEF QueryInterface
  <2>4. QED  BY <2>2, <2>3, Addresses, Zenon
<1> HIDE DEF lay
<1>3. p = [len |-> Overhead + BytesLen(lay, << Deka >>), dest |-> h, src |-> 0, msg |-> 0, ref |-> 0,
           id |-> QueryInterface, layout |-> lay, values |-> << Deka >>, sum |-> PacketChecksum(q)]
  BY NewPacket, Zenon
<1> HIDE DEF p
<1>4. /\ p.len = Overhead + Len(Deka) /\ p.dest = h /\ p.src = 0 /\ p.msg = 0 /\ p.ref = 0
      /\ p.id = QueryInterface /\ p.layout = lay /\ p.values = << Deka >> /\ p.sum = PacketChecksum(q)
      /\ q.len = p.len /\ q.dest = p.dest /\ q.src = p.src /\ q.msg = p.msg /\ q.ref = p.ref
      /\ q.id = p.id /\ q.layout = p.layout /\ q.values = p.values
  BY <1>1, <1>3
<1> HIDE DEF q
<1>5. Payload(p) = Deka /\ Payload(q) = Payload(p)
  BY <1>1, <1>4, PayloadByCommand
<1>6. Header(q) = Header(p)
  BY <1>4 DEF Header
<1>7. p.sum = PacketChecksum(p)
  BY <1>4, <1>5, <1>6 DEF PacketChecksum
<1>8. IntoBytes(p) = Frame(h, 0, 0, 0, QueryInterface, Deka) /\ Encode(p) = IntoBytes(p)
  BY <1>2, <1>4, <1>5, <1>7, Written
<1>9. QED  BY <1>8 DEF Wire, p, lay

\* And what comes up: the answers to each.
LEMMA AnswerRead ==
  ASSUME NEW known \in Stages, NEW e \in SdkExchanges,
         Decodes(known, Frame(0, e.to, ProxyNum, ProxyNum, e.rid, e.rsp))
  PROVE  LET p == FromData(known, Frame(0, e.to, ProxyNum, ProxyNum, e.rid, e.rsp))
         IN /\ p.id = e.rid /\ p.ref = ProxyNum
            /\ IntoBytes([p EXCEPT !.msg = SdkNum, !.ref = SdkNum])
                 = Frame(0, e.to, SdkNum, SdkNum, e.rid, e.rsp)
<1> DEFINE f == Frame(0, e.to, ProxyNum, ProxyNum, e.rid, e.rsp)
           head == [dest |-> 0, src |-> e.to, id |-> e.rid]
           lay == LayoutOf(known, head)
           p == FromData(known, f)
           values == Parse(lay.fields, e.rsp)
           Record(n, m) == [len |-> Overhead + Len(e.rsp), dest |-> 0, src |-> e.to, msg |-> n, ref |-> m,
                         id |-> e.rid, layout |-> lay, values |-> values, sum |-> Last(f)]
           q == [p EXCEPT !.msg = SdkNum, !.ref = SdkNum]
<1>1. /\ e.to \in Hubs \cup DOMAIN Parent /\ e.to \in Byte /\ e.rid \in Word /\ Fits(e.rsp)
      /\ 0 \in Byte /\ SdkNum \in Byte /\ ProxyNum \in Byte
  BY ExchangeAssumption, Addresses
<1>2. Decodes(known, f) = Parses(lay.fields, e.rsp) /\ p = Record(ProxyNum, ProxyNum)
  BY <1>1, Decoded
<1>3. lay \in MayBe(e.rid, e.to)
  <2>1. Between(head, e.to) /\ head.id = e.rid
    BY DEF Between
  <2> HIDE DEF head
  <2>2. LayoutOf(known, head) \in MayBe(head.id, e.to)
    BY <1>1, <2>1, LayoutMayBe
  <2>3. QED  BY <2>1, <2>2
<1>4. Payload([layout |-> lay, values |-> values]) = e.rsp
  BY <1>2, <1>3, ExchangesKept DEF Keeps, Encodes
<1> HIDE DEF f, lay, p, values
<1>5. q = Record(SdkNum, SdkNum)
  <2>1. [p EXCEPT !.msg = SdkNum] = Record(SdkNum, ProxyNum)
    BY <1>2
  <2>2. \A t : t = Record(SdkNum, ProxyNum) => [t EXCEPT !.ref = SdkNum] = Record(SdkNum, SdkNum)
    OBVIOUS
  <2>3. QED  BY <2>1, <2>2, Zenon
<1> HIDE DEF q
<1>6. /\ q.len = Overhead + Len(e.rsp) /\ q.dest = 0 /\ q.src = e.to /\ q.msg = SdkNum
      /\ q.ref = SdkNum /\ q.id = e.rid /\ q.layout = lay /\ q.values = values
      /\ p.id = e.rid /\ p.ref = ProxyNum
  BY <1>2, <1>5
<1>7. Payload(q) = e.rsp
  BY <1>4, <1>6, PayloadByCommand
<1>8. IntoBytes(q) = Frame(0, e.to, SdkNum, SdkNum, e.rid, e.rsp)
  BY <1>1, <1>6, <1>7, Written
<1>9. QED  BY <1>6, <1>8 DEF q, p, f

LEMMA CommandAnswerRead ==
  ASSUME NEW known \in Stages, NEW e \in BlazeExchanges, Known(known, e.to) # {}
  PROVE  LET p   == FromData(known, Frame(0, e.to, BlazeNum, BlazeNum, e.rid, e.rsp))
             lay == LayoutOf(<< [addr |-> e.to, first |-> Commanded[e.to].first,
                                 count |-> Commanded[e.to].count] >>,
                             [dest |-> 0, src |-> e.to, id |-> e.rid])
         IN /\ p.id = e.rid /\ p.ref = BlazeNum
            /\ p.layout = lay /\ p.values = Parse(lay.fields, e.rsp)
<1> DEFINE f == Frame(0, e.to, BlazeNum, BlazeNum, e.rid, e.rsp)
           lay == LayoutOf(known, [dest |-> 0, src |-> e.to, id |-> e.rid])
           p == FromData(known, f)
<1>1. /\ e.to \in Byte /\ e.rid \in Word /\ Fits(e.rsp) /\ 0 \in Byte /\ BlazeNum \in Byte
  BY ExchangeAssumption, Addresses
<1>2. p = [len |-> Overhead + Len(e.rsp), dest |-> 0, src |-> e.to, msg |-> BlazeNum, ref |-> BlazeNum,
           id |-> e.rid, layout |-> lay, values |-> Parse(lay.fields, e.rsp), sum |-> Last(f)]
  BY <1>1, Decoded
<1>3. lay = LayoutOf(<< [addr |-> e.to, first |-> Commanded[e.to].first,
                         count |-> Commanded[e.to].count] >>,
                     [dest |-> 0, src |-> e.to, id |-> e.rid])
  BY <1>1, AnswerRecognised
<1> HIDE DEF p, lay, f
<1>4. p.id = e.rid /\ p.ref = BlazeNum /\ p.layout = lay /\ p.values = Parse(lay.fields, e.rsp)
  BY <1>2
<1>5. QED  BY <1>3, <1>4 DEF p, f

LEMMA RangeFits ==
  ASSUME NEW h \in Hubs
  PROVE  Fits(RangeOf(h)) /\ QueryInterfaceResponse \in Word
<1> DEFINE a == ToLe(2, Commanded[h].first)
           b == ToLe(2, Commanded[h].count)
<1>1. a \in Seq(Byte) /\ b \in Seq(Byte) /\ Len(a) = 2 /\ Len(b) = 2
  BY Addresses, WordIsBytes, WordKept
<1> HIDE DEF a, b
<1>2. a \o b \in Seq(Byte) /\ Len(a \o b) = Len(a) + Len(b)
  BY ONLY Joined, <1>1
<1>3. Overhead + Len(a \o b) \in Word
  BY <1>1, <1>2, WordRange DEF Overhead
<1>4. Fits(RangeOf(h))
  BY <1>2, <1>3 DEF Fits, RangeOf, a, b
<1>5. QueryInterfaceResponse \in Word
  BY WordRange DEF QueryInterfaceResponse, QueryInterface, ResponseBit
<1>6. QED  BY <1>4, <1>5

LEMMA QueryAnswerRead ==
  ASSUME NEW known, NEW h \in Hubs
  PROVE  LET p == FromData(known, Frame(0, h, 0, 0, QueryInterfaceResponse, RangeOf(h)))
         IN /\ p.id = QueryInterfaceResponse /\ p.ref = 0
            /\ p.values = << Commanded[h].first, Commanded[h].count >>
<1> DEFINE id == QueryInterfaceResponse
           f == Frame(0, h, 0, 0, id, RangeOf(h))
           head == [dest |-> 0, src |-> h, id |-> id]
           lay == LayoutOf(known, head)
           p == FromData(known, f)
<1>1. Fits(RangeOf(h)) /\ id \in Word /\ h \in Byte /\ 0 \in Byte
  BY RangeFits, Addresses
<1>2. p = [len |-> Overhead + Len(RangeOf(h)), dest |-> 0, src |-> h, msg |-> 0, ref |-> 0,
           id |-> id, layout |-> lay, values |-> Parse(lay.fields, RangeOf(h)), sum |-> Last(f)]
  BY <1>1, Decoded
<1>3. lay = StandardLayout(id)
  <2>1. head.id = id  OBVIOUS
  <2> HIDE DEF head
  <2>2. QED  BY <2>1, QueryAnswerLayout
<1> HIDE DEF p, lay, f
<1>4. p.id = id /\ p.ref = 0 /\ p.values = Parse(lay.fields, RangeOf(h))
  BY <1>2
<1>5. QED  BY <1>3, <1>4, RangeRead DEF p, f

-----------------------------------------------------------------------------
(* Where packets are.  Each number is that of one packet at most: on a     *)
(* line, in a channel, or read in part by the SDK.                         *)

Spot(k, l) == << k, l >>
Places == {"down", "up", "regular", "sdk", "heard"} \X Line
Nums == {0, ProxyNum, BlazeNum}

\* All of it in one: a sequence for each place.
View(d, u, r, s, h) ==
  [c \in Places |-> CASE c[1] = "down"    -> d[c[2]]
                      [] c[1] = "up"      -> u[c[2]]
                      [] c[1] = "regular" -> r[c[2]]
                      [] c[1] = "sdk"     -> s[c[2]]
                      [] c[1] = "heard"   -> h[c[2]]]

\* The number that a packet has in its place.
Num(c, v) ==
  CASE c[1] \in {"down", "up"}   -> v[7]
    [] c[1] = "regular"          -> v.ref
    [] c[1] \in {"sdk", "heard"} -> ProxyNum

In(V, c, n) == \E i \in DOMAIN V[c] : Num(c, V[c][i]) = n

Unique(V) ==
  \A c, d \in Places : \A i \in DOMAIN V[c], j \in DOMAIN V[d] :
    Num(c, V[c][i]) = Num(d, V[d][j]) => c = d /\ i = j

\* The line of a module's hub.
LineFor(x, addr) == IF x = "usb" /\ HubOf(addr) = Ex THEN "usb" ELSE "serial"

RequestOf(n, e) == Frame(e.to, 0, n, n, e.id, e.req)
AnswerOf(n, e)  == Frame(0, e.to, n, n, e.rid, e.rsp)
ToSdk(e)        == Frame(0, e.to, SdkNum, SdkNum, e.rid, e.rsp)

CommandAnswer(p, e) ==
  LET lay == LayoutOf(<< [addr |-> e.to, first |-> Commanded[e.to].first, count |-> Commanded[e.to].count] >>,
                      [dest |-> 0, src |-> e.to, id |-> e.rid])
  IN p.layout = lay /\ p.values = Parse(lay.fields, e.rsp)

\* What a packet in a place must be, given the exchange that is open with its number.
Right(o, x, c, v) ==
  LET e == o[1]
      n == Num(c, v)
  IN /\ n \in Nums
     /\ o # << >>
     /\ c[2] = LineFor(x, e.to)
     /\ c[1] = "down" => v = RequestOf(n, e)
     /\ c[1] = "up" => v = AnswerOf(n, e)
     /\ c[1] = "regular" => /\ n # ProxyNum /\ v.id = e.rid
                            /\ n = 0 => v.values = << Commanded[e.to].first, Commanded[e.to].count >>
                            /\ n = BlazeNum => CommandAnswer(v, e)
     /\ c[1] = "sdk" => IntoBytes(v) = ToSdk(e)
     /\ c[1] = "heard" => v[2] = SubSeq(ToSdk(e), v[1] + 1, Len(ToSdk(e)))

\* O: the exchange open with each number; x: how the expansion hub is connected.
Carried(V, O, x) ==
  /\ V = [c \in Places |-> V[c]]
  /\ \A c \in Places : V[c] \in Seq(ToSet(V[c]))
  /\ \A c \in Places : \A i \in DOMAIN V[c] : Right(O[Num(c, V[c][i])], x, c, V[c][i])
  /\ Unique(V)

Push(f, c, v) == [f EXCEPT ![c] = Append(@, v)]
Pop(f, c)     == [f EXCEPT ![c] = Tail(@)]
Set(f, c, y)  == [f EXCEPT ![c] = y]

LEMMA Appended ==
  ASSUME NEW s, s \in Seq(ToSet(s)), NEW v
  PROVE  /\ Append(s, v) \in Seq(ToSet(Append(s, v)))
         /\ DOMAIN Append(s, v) = DOMAIN s \cup {Len(s) + 1}
         /\ Len(s) + 1 \notin DOMAIN s
         /\ \A i \in DOMAIN s : Append(s, v)[i] = s[i]
         /\ Append(s, v)[Len(s) + 1] = v
<1> DEFINE S == ToSet(s) \cup {v}
           t == Append(s, v)
<1>1. s \in Seq(S) /\ v \in S
  OBVIOUS
<1> HIDE DEF S
<1>2. /\ t \in Seq(S) /\ Len(t) = Len(s) + 1 /\ DOMAIN t = 1 .. Len(t)
      /\ DOMAIN s = 1 .. Len(s) /\ Len(s) \in Nat
      /\ \A i \in DOMAIN s : t[i] = s[i]
      /\ t[Len(s) + 1] = v
  BY <1>1
<1> HIDE DEF t
<1>3. t \in Seq(ToSet(t))
  BY <1>2 DEF ToSet
<1>4. QED  BY <1>2, <1>3 DEF t

LEMMA Tailed ==
  ASSUME NEW s, s \in Seq(ToSet(s)), s # << >>
  PROVE  /\ Tail(s) \in Seq(ToSet(Tail(s)))
         /\ Head(s) = s[1] /\ 1 \in DOMAIN s
         /\ \A i \in DOMAIN Tail(s) : i \in Nat \ {0} /\ i + 1 \in DOMAIN s /\ Tail(s)[i] = s[i + 1]
         /\ \A i \in DOMAIN s : i # 1 => i - 1 \in DOMAIN Tail(s) /\ Tail(s)[i - 1] = s[i]
<1> DEFINE S == ToSet(s)
           t == Tail(s)
<1>1. s \in Seq(S)
  OBVIOUS
<1> HIDE DEF S
<1>2. /\ t \in Seq(S) /\ DOMAIN t = 1 .. Len(t)
      /\ Head(s) = s[1] /\ 1 \in DOMAIN s
      /\ \A i \in DOMAIN t : i \in Nat \ {0} /\ i + 1 \in DOMAIN s /\ t[i] = s[i + 1]
      /\ \A i \in DOMAIN s : i # 1 => i - 1 \in DOMAIN t /\ t[i - 1] = s[i]
  BY <1>1
<1> HIDE DEF t
<1>3. t \in Seq(ToSet(t))
  BY <1>2 DEF ToSet
<1>4. QED  BY <1>2, <1>3 DEF t

\* A packet put somewhere.
LEMMA Added ==
  ASSUME NEW V, NEW O, NEW x, Carried(V, O, x), NEW c \in Places, NEW v,
         Right(O[Num(c, v)], x, c, v), \A d \in Places : ~ In(V, d, Num(c, v))
  PROVE  LET W == Push(V, c, v)
         IN /\ Carried(W, O, x) /\ In(W, c, Num(c, v))
            /\ \A d \in Places : \A m : In(V, d, m) => In(W, d, m)
<1> DEFINE W == Push(V, c, v)
           n == Num(c, v)
           k == Len(V[c]) + 1
<1>1. /\ V = [d \in Places |-> V[d]]
      /\ \A d \in Places : V[d] \in Seq(ToSet(V[d]))
      /\ \A d \in Places : \A i \in DOMAIN V[d] : Right(O[Num(d, V[d][i])], x, d, V[d][i])
      /\ Unique(V)
  BY DEF Carried
<1>2. /\ W[c] \in Seq(ToSet(W[c]))
      /\ DOMAIN W[c] = DOMAIN V[c] \cup {k} /\ k \notin DOMAIN V[c]
      /\ \A i \in DOMAIN V[c] : W[c][i] = V[c][i]
      /\ W[c][k] = v
  <2>1. W[c] = Append(V[c], v)  BY <1>1 DEF Push
  <2> HIDE DEF W
  <2>2. QED  BY <1>1, <2>1, Appended
<1>3. W = [d \in Places |-> W[d]] /\ \A d \in Places : d # c => W[d] = V[d]
  BY <1>1 DEF Push
<1> HIDE DEF W, k
<1>4. \A d \in Places : \A i \in DOMAIN W[d] :
        \/ d = c /\ i = k /\ W[d][i] = v
        \/ i \in DOMAIN V[d] /\ W[d][i] = V[d][i] /\ Num(d, W[d][i]) # n
  BY <1>2, <1>3 DEF In
<1>5. \A d \in Places : \A i \in DOMAIN V[d] : i \in DOMAIN W[d] /\ W[d][i] = V[d][i]
  BY <1>2, <1>3
<1>6. Unique(W)
  BY <1>1, <1>4, SMTT(30) DEF Unique
<1>7. \A d \in Places : \A i \in DOMAIN W[d] : Right(O[Num(d, W[d][i])], x, d, W[d][i])
  BY <1>1, <1>4
<1>8. \A d \in Places : W[d] \in Seq(ToSet(W[d]))
  BY <1>1, <1>2, <1>3
<1>9. In(W, c, n)
  BY <1>2 DEF In
<1>10. \A d \in Places : \A m : In(V, d, m) => In(W, d, m)
  BY <1>5 DEF In
<1>11. QED  BY <1>3, <1>6, <1>7, <1>8, <1>9, <1>10 DEF Carried, W, n

\* The first packet of a place taken away.
LEMMA Removed ==
  ASSUME NEW V, NEW O, NEW x, Carried(V, O, x), NEW c \in Places, V[c] # << >>
  PROVE  LET W == Pop(V, c)
             n == Num(c, Head(V[c]))
         IN /\ Carried(W, O, x) /\ In(V, c, n) /\ Right(O[n], x, c, Head(V[c]))
            /\ \A d \in Places : ~ In(W, d, n)
            /\ \A d \in Places : \A m : m # n /\ In(V, d, m) => In(W, d, m)
<1> DEFINE W == Pop(V, c)
           t == Tail(V[c])
           n == Num(c, Head(V[c]))
<1>1. /\ V = [d \in Places |-> V[d]]
      /\ \A d \in Places : V[d] \in Seq(ToSet(V[d]))
      /\ \A d \in Places : \A i \in DOMAIN V[d] : Right(O[Num(d, V[d][i])], x, d, V[d][i])
      /\ Unique(V)
  BY DEF Carried
<1>2. /\ t \in Seq(ToSet(t))
      /\ Head(V[c]) = V[c][1] /\ 1 \in DOMAIN V[c]
      /\ \A i \in DOMAIN t : i \in Nat \ {0} /\ i + 1 \in DOMAIN V[c] /\ t[i] = V[c][i + 1]
      /\ \A i \in DOMAIN V[c] : i # 1 => i - 1 \in DOMAIN t /\ t[i - 1] = V[c][i]
  BY <1>1, Tailed
<1>3. W[c] = t /\ W = [d \in Places |-> W[d]] /\ \A d \in Places : d # c => W[d] = V[d]
  BY <1>1 DEF Pop
<1> HIDE DEF W, t
<1>4. \A d \in Places : \A i \in DOMAIN W[d] : Num(d, W[d][i]) # n
  <2> SUFFICES ASSUME NEW d \in Places, NEW i \in DOMAIN W[d], Num(d, W[d][i]) = n PROVE FALSE
    OBVIOUS
  <2>1. CASE d = c
    <3>1. i \in Nat \ {0} /\ i + 1 \in DOMAIN V[c] /\ Num(c, V[c][i + 1]) = Num(c, V[c][1])
      BY <1>2, <1>3, <2>1
    <3>2. i + 1 = 1  BY <3>1, <1>1, <1>2 DEF Unique
    <3>3. QED  BY <3>1, <3>2
  <2>2. CASE d # c
    BY <1>1, <1>2, <1>3, <2>2 DEF Unique
  <2>3. QED  BY <2>1, <2>2
<1>5. \A d \in Places : \A i \in DOMAIN W[d] : \E j \in DOMAIN V[d] : W[d][i] = V[d][j]
  <2> TAKE d \in Places
  <2>1. CASE d = c  BY <1>2, <1>3, <2>1
  <2>2. CASE d # c  BY <1>3, <2>2
  <2>3. QED  BY <2>1, <2>2
<1>6. \A d \in Places : \A i \in DOMAIN V[d] :
        Num(d, V[d][i]) # n => \E j \in DOMAIN W[d] : W[d][j] = V[d][i]
  <2> TAKE d \in Places
  <2> TAKE i \in DOMAIN V[d]
  <2>1. CASE d = c  BY <1>2, <1>3, <2>1
  <2>2. CASE d # c  BY <1>3, <2>2
  <2>3. QED  BY <2>1, <2>2
<1>7. Unique(W)
  <2> SUFFICES ASSUME NEW d \in Places, NEW f \in Places, NEW i \in DOMAIN W[d], NEW j \in DOMAIN W[f],
                      Num(d, W[d][i]) = Num(f, W[f][j])
               PROVE  d = f /\ i = j
    BY DEF Unique
  <2>1. CASE d = c /\ f = c
    <3>1. /\ i \in Nat /\ j \in Nat /\ i + 1 \in DOMAIN V[c] /\ j + 1 \in DOMAIN V[c]
          /\ Num(c, V[c][i + 1]) = Num(c, V[c][j + 1])
      BY <1>2, <1>3, <2>1
    <3>2. i + 1 = j + 1  BY <3>1, <1>1 DEF Unique
    <3>3. QED  BY <2>1, <3>1, <3>2
  <2>2. CASE d = c /\ f # c
    <3>1. i + 1 \in DOMAIN V[c] /\ j \in DOMAIN V[f] /\ Num(c, V[c][i + 1]) = Num(f, V[f][j])
      BY <1>2, <1>3, <2>2
    <3>2. QED  BY <2>2, <3>1, <1>1 DEF Unique
  <2>3. CASE d # c /\ f = c
    <3>1. j + 1 \in DOMAIN V[c] /\ i \in DOMAIN V[d] /\ Num(c, V[c][j + 1]) = Num(d, V[d][i])
      BY <1>2, <1>3, <2>3
    <3>2. QED  BY <2>3, <3>1, <1>1 DEF Unique
  <2>4. CASE d # c /\ f # c
    BY <1>1, <1>3, <2>4 DEF Unique
  <2>5. QED  BY <2>1, <2>2, <2>3, <2>4
<1>8. \A d \in Places : \A i \in DOMAIN W[d] : Right(O[Num(d, W[d][i])], x, d, W[d][i])
  BY <1>1, <1>5
<1>9. \A d \in Places : W[d] \in Seq(ToSet(W[d]))
  BY <1>1, <1>2, <1>3
<1>10. In(V, c, n) /\ Right(O[n], x, c, Head(V[c]))
  BY <1>1, <1>2 DEF In
<1>11. \A d \in Places : ~ In(W, d, n)
  BY <1>4 DEF In
<1>12. \A d \in Places : \A m : m # n /\ In(V, d, m) => In(W, d, m)
  BY <1>6 DEF In
<1>13. QED  BY <1>3, <1>7, <1>8, <1>9, <1>10, <1>11, <1>12 DEF Carried, W, n

\* An exchange opened or closed while no packet has its number.
LEMMA Reopened ==
  ASSUME NEW V, NEW O, NEW x, Carried(V, O, x), NEW P, NEW n,
         \A d \in Places : ~ In(V, d, n), \A m \in Nums : m # n => P[m] = O[m]
  PROVE  Carried(V, P, x)
<1>1. \A d \in Places : \A i \in DOMAIN V[d] : Num(d, V[d][i]) # n
  BY DEF In
<1>2. \A d \in Places : \A i \in DOMAIN V[d] : Num(d, V[d][i]) \in Nums
  BY DEF Carried, Right
<1>3. QED  BY <1>1, <1>2 DEF Carried

LEMMA NotOpen ==
  ASSUME NEW V, NEW O, NEW x, Carried(V, O, x), NEW n, O[n] = << >>
  PROVE  \A d \in Places : ~ In(V, d, n)
BY DEF Carried, Right, In

\* The three things that happen: an exchange is opened by its request, its packet goes on,
\* and it is closed.
LEMMA OpenedBy ==
  ASSUME NEW V, NEW O, NEW x, Carried(V, O, x), NEW c \in Places, NEW v, O[Num(c, v)] = << >>,
         NEW P, \A m \in Nums : m # Num(c, v) => P[m] = O[m], Right(P[Num(c, v)], x, c, v)
  PROVE  LET W == Push(V, c, v)
         IN /\ Carried(W, P, x) /\ In(W, c, Num(c, v))
            /\ \A d \in Places : \A m : In(V, d, m) => In(W, d, m)
<1>1. \A d \in Places : ~ In(V, d, Num(c, v))
  BY NotOpen
<1>2. Carried(V, P, x)
  BY <1>1, Reopened
<1>3. QED  BY <1>1, <1>2, Added

LEMMA MovedOn ==
  ASSUME NEW V, NEW O, NEW x, Carried(V, O, x), NEW c \in Places, V[c] # << >>,
         NEW d \in Places, NEW v, Num(d, v) = Num(c, Head(V[c])), Right(O[Num(d, v)], x, d, v)
  PROVE  LET W == Push(Pop(V, c), d, v)
         IN /\ Carried(W, O, x) /\ In(W, d, Num(d, v))
            /\ \A f \in Places : \A m : m # Num(d, v) /\ In(V, f, m) => In(W, f, m)
<1> DEFINE R == Pop(V, c)
<1>1. /\ Carried(R, O, x)
      /\ \A f \in Places : ~ In(R, f, Num(d, v))
      /\ \A f \in Places : \A m : m # Num(d, v) /\ In(V, f, m) => In(R, f, m)
  BY Removed
<1> HIDE DEF R
<1>2. LET W == Push(R, d, v)
      IN /\ Carried(W, O, x) /\ In(W, d, Num(d, v))
         /\ \A f \in Places : \A m : In(R, f, m) => In(W, f, m)
  BY <1>1, Added
<1>3. QED  BY <1>1, <1>2 DEF R

LEMMA ClosedBy ==
  ASSUME NEW V, NEW O, NEW x, Carried(V, O, x), NEW c \in Places, V[c] # << >>,
         NEW P, \A m \in Nums : m # Num(c, Head(V[c])) => P[m] = O[m]
  PROVE  LET W == Pop(V, c)
         IN /\ Carried(W, P, x)
            /\ \A d \in Places : ~ In(W, d, Num(c, Head(V[c])))
            /\ \A d \in Places : \A m : m # Num(c, Head(V[c])) /\ In(V, d, m) => In(W, d, m)
<1> DEFINE W == Pop(V, c)
           n == Num(c, Head(V[c]))
<1>1. /\ Carried(W, O, x)
      /\ \A d \in Places : ~ In(W, d, n)
      /\ \A d \in Places : \A m : m # n /\ In(V, d, m) => In(W, d, m)
  BY Removed
<1> HIDE DEF W, n
<1>2. Carried(W, P, x)
  BY <1>1, Reopened DEF n
<1>3. QED  BY <1>1, <1>2 DEF W, n

\* The same as changes of what is on the lines.
Func(f) == f = [l \in Line |-> f[l]]

At(V, d, u, r, s, h) ==
  /\ V = [c \in Places |-> V[c]]
  /\ \A l \in Line : /\ V[Spot("down", l)] = d[l]
                    /\ V[Spot("up", l)] = u[l]
                    /\ V[Spot("regular", l)] = r[l]
                    /\ V[Spot("sdk", l)] = s[l]
                    /\ V[Spot("heard", l)] = h[l]

LEMMA ViewAt ==
  ASSUME NEW d, NEW u, NEW r, NEW s, NEW h
  PROVE  At(View(d, u, r, s, h), d, u, r, s, h)
<1> DEFINE V == View(d, u, r, s, h)
<1>1. V = [c \in Places |-> V[c]]
  <2> DEFINE G(c) == CASE c[1] = "down"    -> d[c[2]]
                       [] c[1] = "up"      -> u[c[2]]
                       [] c[1] = "regular" -> r[c[2]]
                       [] c[1] = "sdk"     -> s[c[2]]
                       [] c[1] = "heard"   -> h[c[2]]
  <2>1. V = [c \in Places |-> G(c)]
    BY Zenon DEF View
  <2> HIDE DEF G, V
  <2>2. QED  BY <2>1
<1>2. ASSUME NEW c \in Places
      PROVE  /\ c[1] = "down" => V[c] = d[c[2]]
             /\ c[1] = "up" => V[c] = u[c[2]]
             /\ c[1] = "regular" => V[c] = r[c[2]]
             /\ c[1] = "sdk" => V[c] = s[c[2]]
             /\ c[1] = "heard" => V[c] = h[c[2]]
  <2>1. c[1] = "down" => V[c] = d[c[2]]  BY DEF View
  <2>2. c[1] = "up" => V[c] = u[c[2]]  BY DEF View
  <2>3. c[1] = "regular" => V[c] = r[c[2]]  BY DEF View
  <2>4. c[1] = "sdk" => V[c] = s[c[2]]  BY DEF View
  <2>5. c[1] = "heard" => V[c] = h[c[2]]  BY DEF View
  <2>6. QED  BY <2>1, <2>2, <2>3, <2>4, <2>5
<1> HIDE DEF V
<1>3. \A k \in {"down", "up", "regular", "sdk", "heard"}, l \in Line :
        Spot(k, l) \in Places /\ Spot(k, l)[1] = k /\ Spot(k, l)[2] = l
  BY DEF Places, Spot
<1>4. QED  BY <1>1, <1>2, <1>3 DEF At, V

LEMMA SetAt ==
  ASSUME NEW V, NEW W, V = [c \in Places |-> V[c]], W = [c \in Places |-> W[c]],
         NEW z \in Places, \A c \in Places : c # z => W[c] = V[c]
  PROVE  W = Set(V, z, W[z])
BY DEF Set

LEMMA ViewChange ==
  ASSUME NEW d, NEW u, NEW r, NEW s, NEW h, Func(d), Func(u), Func(r), Func(s), Func(h),
         NEW l \in Line, NEW y
  PROVE  LET V == View(d, u, r, s, h)
         IN /\ View(Set(d, l, y), u, r, s, h) = Set(V, Spot("down", l), y)
            /\ View(d, Set(u, l, y), r, s, h) = Set(V, Spot("up", l), y)
            /\ View(d, u, Set(r, l, y), s, h) = Set(V, Spot("regular", l), y)
            /\ View(d, u, r, Set(s, l, y), h) = Set(V, Spot("sdk", l), y)
            /\ View(d, u, r, s, Set(h, l, y)) = Set(V, Spot("heard", l), y)
<1> DEFINE V == View(d, u, r, s, h)
<1>1. \A c \in Places : \E k \in {"down", "up", "regular", "sdk", "heard"}, m \in Line : c = Spot(k, m)
  BY DEF Places, Spot
<1>0. \A k \in {"down", "up", "regular", "sdk", "heard"} : Spot(k, l) \in Places
  BY DEF Places, Spot
<1>2. \A f : Func(f) => Set(f, l, y)[l] = y /\ \A m \in Line : m # l => Set(f, l, y)[m] = f[m]
  BY DEF Func, Set
<1>3. View(Set(d, l, y), u, r, s, h) = Set(V, Spot("down", l), y)
  <2> DEFINE e == Set(d, l, y)
             W == View(e, u, r, s, h)
  <2>1. e[l] = y /\ \A m \in Line : m # l => e[m] = d[m]
    BY <1>2
  <2> HIDE DEF e
  <2>2. At(V, d, u, r, s, h) /\ At(W, e, u, r, s, h)
    BY ViewAt
  <2> HIDE DEF V, W
  <2>3. ASSUME NEW c \in Places, c # Spot("down", l) PROVE W[c] = V[c]
    <3>1. PICK k \in {"down", "up", "regular", "sdk", "heard"}, m \in Line : c = Spot(k, m)
      BY <1>1
    <3>2. CASE k = "down"  BY <2>1, <2>2, <2>3, <3>1, <3>2 DEF At
    <3>3. CASE k = "up"  BY <2>1, <2>2, <2>3, <3>1, <3>3 DEF At
    <3>4. CASE k = "regular"  BY <2>1, <2>2, <2>3, <3>1, <3>4 DEF At
    <3>5. CASE k = "sdk"  BY <2>1, <2>2, <2>3, <3>1, <3>5 DEF At
    <3>6. CASE k = "heard"  BY <2>1, <2>2, <2>3, <3>1, <3>6 DEF At
    <3>7. QED  BY <3>2, <3>3, <3>4, <3>5, <3>6
  <2>4. W[Spot("down", l)] = y
    BY <2>1, <2>2 DEF At
  <2>5. QED  BY <1>0, <2>2, <2>3, <2>4, SetAt DEF W, e, At
<1>4. View(d, Set(u, l, y), r, s, h) = Set(V, Spot("up", l), y)
  <2> DEFINE e == Set(u, l, y)
             W == View(d, e, r, s, h)
  <2>1. e[l] = y /\ \A m \in Line : m # l => e[m] = u[m]
    BY <1>2
  <2> HIDE DEF e
  <2>2. At(V, d, u, r, s, h) /\ At(W, d, e, r, s, h)
    BY ViewAt
  <2> HIDE DEF V, W
  <2>3. ASSUME NEW c \in Places, c # Spot("up", l) PROVE W[c] = V[c]
    <3>1. PICK k \in {"down", "up", "regular", "sdk", "heard"}, m \in Line : c = Spot(k, m)
      BY <1>1
    <3>2. CASE k = "down"  BY <2>1, <2>2, <2>3, <3>1, <3>2 DEF At
    <3>3. CASE k = "up"  BY <2>1, <2>2, <2>3, <3>1, <3>3 DEF At
    <3>4. CASE k = "regular"  BY <2>1, <2>2, <2>3, <3>1, <3>4 DEF At
    <3>5. CASE k = "sdk"  BY <2>1, <2>2, <2>3, <3>1, <3>5 DEF At
    <3>6. CASE k = "heard"  BY <2>1, <2>2, <2>3, <3>1, <3>6 DEF At
    <3>7. QED  BY <3>2, <3>3, <3>4, <3>5, <3>6
  <2>4. W[Spot("up", l)] = y
    BY <2>1, <2>2 DEF At
  <2>5. QED  BY <1>0, <2>2, <2>3, <2>4, SetAt DEF W, e, At
<1>5. View(d, u, Set(r, l, y), s, h) = Set(V, Spot("regular", l), y)
  <2> DEFINE e == Set(r, l, y)
             W == View(d, u, e, s, h)
  <2>1. e[l] = y /\ \A m \in Line : m # l => e[m] = r[m]
    BY <1>2
  <2> HIDE DEF e
  <2>2. At(V, d, u, r, s, h) /\ At(W, d, u, e, s, h)
    BY ViewAt
  <2> HIDE DEF V, W
  <2>3. ASSUME NEW c \in Places, c # Spot("regular", l) PROVE W[c] = V[c]
    <3>1. PICK k \in {"down", "up", "regular", "sdk", "heard"}, m \in Line : c = Spot(k, m)
      BY <1>1
    <3>2. CASE k = "down"  BY <2>1, <2>2, <2>3, <3>1, <3>2 DEF At
    <3>3. CASE k = "up"  BY <2>1, <2>2, <2>3, <3>1, <3>3 DEF At
    <3>4. CASE k = "regular"  BY <2>1, <2>2, <2>3, <3>1, <3>4 DEF At
    <3>5. CASE k = "sdk"  BY <2>1, <2>2, <2>3, <3>1, <3>5 DEF At
    <3>6. CASE k = "heard"  BY <2>1, <2>2, <2>3, <3>1, <3>6 DEF At
    <3>7. QED  BY <3>2, <3>3, <3>4, <3>5, <3>6
  <2>4. W[Spot("regular", l)] = y
    BY <2>1, <2>2 DEF At
  <2>5. QED  BY <1>0, <2>2, <2>3, <2>4, SetAt DEF W, e, At
<1>6. View(d, u, r, Set(s, l, y), h) = Set(V, Spot("sdk", l), y)
  <2> DEFINE e == Set(s, l, y)
             W == View(d, u, r, e, h)
  <2>1. e[l] = y /\ \A m \in Line : m # l => e[m] = s[m]
    BY <1>2
  <2> HIDE DEF e
  <2>2. At(V, d, u, r, s, h) /\ At(W, d, u, r, e, h)
    BY ViewAt
  <2> HIDE DEF V, W
  <2>3. ASSUME NEW c \in Places, c # Spot("sdk", l) PROVE W[c] = V[c]
    <3>1. PICK k \in {"down", "up", "regular", "sdk", "heard"}, m \in Line : c = Spot(k, m)
      BY <1>1
    <3>2. CASE k = "down"  BY <2>1, <2>2, <2>3, <3>1, <3>2 DEF At
    <3>3. CASE k = "up"  BY <2>1, <2>2, <2>3, <3>1, <3>3 DEF At
    <3>4. CASE k = "regular"  BY <2>1, <2>2, <2>3, <3>1, <3>4 DEF At
    <3>5. CASE k = "sdk"  BY <2>1, <2>2, <2>3, <3>1, <3>5 DEF At
    <3>6. CASE k = "heard"  BY <2>1, <2>2, <2>3, <3>1, <3>6 DEF At
    <3>7. QED  BY <3>2, <3>3, <3>4, <3>5, <3>6
  <2>4. W[Spot("sdk", l)] = y
    BY <2>1, <2>2 DEF At
  <2>5. QED  BY <1>0, <2>2, <2>3, <2>4, SetAt DEF W, e, At
<1>7. View(d, u, r, s, Set(h, l, y)) = Set(V, Spot("heard", l), y)
  <2> DEFINE e == Set(h, l, y)
             W == View(d, u, r, s, e)
  <2>1. e[l] = y /\ \A m \in Line : m # l => e[m] = h[m]
    BY <1>2
  <2> HIDE DEF e
  <2>2. At(V, d, u, r, s, h) /\ At(W, d, u, r, s, e)
    BY ViewAt
  <2> HIDE DEF V, W
  <2>3. ASSUME NEW c \in Places, c # Spot("heard", l) PROVE W[c] = V[c]
    <3>1. PICK k \in {"down", "up", "regular", "sdk", "heard"}, m \in Line : c = Spot(k, m)
      BY <1>1
    <3>2. CASE k = "down"  BY <2>1, <2>2, <2>3, <3>1, <3>2 DEF At
    <3>3. CASE k = "up"  BY <2>1, <2>2, <2>3, <3>1, <3>3 DEF At
    <3>4. CASE k = "regular"  BY <2>1, <2>2, <2>3, <3>1, <3>4 DEF At
    <3>5. CASE k = "sdk"  BY <2>1, <2>2, <2>3, <3>1, <3>5 DEF At
    <3>6. CASE k = "heard"  BY <2>1, <2>2, <2>3, <3>1, <3>6 DEF At
    <3>7. QED  BY <3>2, <3>3, <3>4, <3>5, <3>6
  <2>4. W[Spot("heard", l)] = y
    BY <2>1, <2>2 DEF At
  <2>5. QED  BY <1>0, <2>2, <2>3, <2>4, SetAt DEF W, e, At
<1>8. QED  BY <1>3, <1>4, <1>5, <1>6, <1>7

-----------------------------------------------------------------------------
(* The invariant.                                                          *)

\* The interface query is an exchange as well, and initialize's.
QueryOf(h) == [to |-> h, id |-> QueryInterface, req |-> Deka,
               rid |-> QueryInterfaceResponse, rsp |-> RangeOf(h)]
Target(i) == IF i = "ctrl" THEN Ctrl ELSE Ex
OpenedAs(i, a) ==
  [n \in Nums |-> CASE n = 0        -> IF i = "none" THEN << >> ELSE << QueryOf(Target(i)) >>
                    [] n = ProxyNum -> a["sdk"]
                    [] n = BlazeNum -> a["blaze"]]
Opened == OpenedAs(init, asked)

LEMMA Pair == ASSUME NEW a, NEW b PROVE << a, b >>[1] = a /\ << a, b >>[2] = b
OBVIOUS

\* What the SDK has read of an answer, and what is left of it.
HearingAt(h, b, n) == [l \in Line |-> IF h[l] = << >> THEN << >> ELSE << << n[l], h[l] \o b[l] >> >>]
Hearing == HearingAt(heard, buffer, had)

Where == View(down, up, regular, sdkReceive, Hearing)

TypeInv ==
  /\ Func(down) /\ Func(up) /\ Func(regular) /\ Func(sdkReceive)
  /\ Func(received) /\ Func(had)
  /\ heard \in [Line -> Seq(Byte)] /\ buffer \in [Line -> Seq(Byte)]
  /\ asked = [w \in {"sdk", "blaze"} |-> asked[w]]
  /\ asked["sdk"] # << >> => \E e \in SdkExchanges : asked["sdk"] = << e >>
  /\ asked["blaze"] # << >> => \E e \in BlazeExchanges : asked["blaze"] = << e >>
  /\ tokens \in Nat
  /\ init \in {"none", "ctrl", "rs485", "usb"}

\* A reader that has not begun an answer has nothing of it, and nothing is left of the last.
StreamInv ==
  \A l \in Line : /\ heard[l] = << >> => buffer[l] = << >> /\ had[l] = 0
                  /\ heard[l] # << >> => received[l]

\* What Java has called, and what is known by it: the hubs are who they are, except that
\* after initialize a second module with a descriptor may be taken for the expansion hub.
Servos == {[addr |-> a, parent |-> Parent[a]] : a \in DOMAIN Parent}
Reached(p, k) ==
  /\ ex = p.ex /\ todo = SubSeq(p.calls, k + 1, Len(p.calls))
  /\ ctrlInit # << >> <=> \E j \in 1 .. k : Told(p.calls[j], Ctrl, TRUE)
  /\ (\E j \in 1 .. k : p.calls[j].call = "initialize") => vm
PlanInv ==
  /\ \E p \in Plants : \E k \in 0 .. Len(p.calls) : Reached(p, k)
  /\ ctrlInit \in {<< >>, << Ctrl >>}
  /\ exInit # << >> =>
       \/ ex = "usb" /\ exInit = << [loc |-> "usb", addr |-> Ex] >>
       \/ ex # "usb" /\ exInit = << [loc |-> "rs485", addr |-> Ex] >>
       \/ ex # "usb" /\ exInit = << [loc |-> "rs485", addr |-> Ctrl] >> /\ vm /\ init # "ctrl"
  /\ servoInit \in Seq(Servos)
  /\ servoHubs # << >> => servoHubs[1] \in Seq(Servos)

\* How far initialize has come.
InitInv ==
  /\ init = "ctrl" => ctrlInit = << Ctrl >>
  /\ init = "rs485" => exInit = << [loc |-> "rs485", addr |-> Ex] >>
  /\ init = "usb" => exInit = << [loc |-> "usb", addr |-> Ex] >>
  /\ hub0 \in {<< >>, << CtrlHub >>}
  /\ hub1 \in {<< >>, << ExHub(LineOf(Ex)) >>}
  /\ HubInv
  /\ running => vm
  /\ init # "none" => vm
  /\ vm => servoHubs # << >>
  /\ ~ vm => tokens = 0 /\ asked["sdk"] = << >> /\ asked["blaze"] = << >>
  /\ init # "none" /\ asked["sdk"] # << >> => asked["sdk"][1].id # QueryInterface
  /\ asked["blaze"] # << >> => Known(hubs, asked["blaze"][1].to) # {}

\* While initialize waits its query or the answer is somewhere on the line it listens to,
\* with a token until the read proxy has seen it.
TokenInv ==
  running =>
    IF init = "none" THEN tokens = 0
    ELSE \E k \in {"down", "up", "regular"} :
           In(Where, Spot(k, Waiting), 0) /\ tokens = IF k = "regular" THEN 0 ELSE 1

IInv == TypeInv /\ StreamInv /\ PlanInv /\ InitInv /\ TokenInv /\ Carried(Where, Opened, ex)

-----------------------------------------------------------------------------
(* What the actions do to all that.                                        *)

LEMMA OpenedAt ==
  ASSUME NEW i, NEW a
  PROVE  /\ OpenedAs(i, a)[0] = IF i = "none" THEN << >> ELSE << QueryOf(Target(i)) >>
         /\ OpenedAs(i, a)[ProxyNum] = a["sdk"]
         /\ OpenedAs(i, a)[BlazeNum] = a["blaze"]
         /\ 0 \in Nums /\ ProxyNum \in Nums /\ BlazeNum \in Nums
         /\ ProxyNum # 0 /\ BlazeNum # 0 /\ ProxyNum # BlazeNum
<1>1. 0 \in Nums /\ ProxyNum \in Nums /\ BlazeNum \in Nums
  BY DEF Nums
<1>2. ProxyNum # 0 /\ BlazeNum # 0 /\ ProxyNum # BlazeNum
  BY StartupAssumption
<1>3. QED  BY <1>1, <1>2 DEF OpenedAs

\* Only the exchange of number n is another.
Others(O, P, n) == \A m \in Nums : m # n => P[m] = O[m]

LEMMA OthersKept ==
  ASSUME NEW i, NEW a
  PROVE  /\ \A j : Others(OpenedAs(i, a), OpenedAs(j, a), 0)
         /\ a = [w \in {"sdk", "blaze"} |-> a[w]] => \A y :
              /\ Others(OpenedAs(i, a), OpenedAs(i, Set(a, "sdk", y)), ProxyNum)
              /\ OpenedAs(i, Set(a, "sdk", y))[ProxyNum] = y
              /\ Others(OpenedAs(i, a), OpenedAs(i, Set(a, "blaze", y)), BlazeNum)
              /\ OpenedAs(i, Set(a, "blaze", y))[BlazeNum] = y
<1>1. \A m \in Nums : m \in {0, ProxyNum, BlazeNum}
  BY DEF Nums
<1>2. ASSUME NEW j PROVE Others(OpenedAs(i, a), OpenedAs(j, a), 0)
  BY <1>1, OpenedAt DEF Others
<1>3. ASSUME a = [w \in {"sdk", "blaze"} |-> a[w]], NEW y
      PROVE  /\ Others(OpenedAs(i, a), OpenedAs(i, Set(a, "sdk", y)), ProxyNum)
             /\ OpenedAs(i, Set(a, "sdk", y))[ProxyNum] = y
             /\ Others(OpenedAs(i, a), OpenedAs(i, Set(a, "blaze", y)), BlazeNum)
             /\ OpenedAs(i, Set(a, "blaze", y))[BlazeNum] = y
  <2> DEFINE b == Set(a, "sdk", y)
             d == Set(a, "blaze", y)
  <2>1. b["sdk"] = y /\ b["blaze"] = a["blaze"] /\ d["blaze"] = y /\ d["sdk"] = a["sdk"]
    BY <1>3 DEF Set
  <2> HIDE DEF b, d
  <2> DEFINE O == OpenedAs(i, a)
             P == OpenedAs(i, b)
             Q == OpenedAs(i, d)
  <2>0. /\ O[0] = P[0] /\ O[0] = Q[0]
        /\ O[BlazeNum] = a["blaze"] /\ P[BlazeNum] = b["blaze"] /\ Q[BlazeNum] = d["blaze"]
        /\ O[ProxyNum] = a["sdk"] /\ P[ProxyNum] = b["sdk"] /\ Q[ProxyNum] = d["sdk"]
    BY OpenedAt
  <2> HIDE DEF O, P, Q
  <2>2. Others(O, P, ProxyNum) /\ P[ProxyNum] = y
    BY <1>1, <2>0, <2>1 DEF Others
  <2>3. Others(O, Q, BlazeNum) /\ Q[BlazeNum] = y
    BY <1>1, <2>0, <2>1 DEF Others
  <2>4. QED  BY <2>2, <2>3 DEF b, d, O, P, Q
<1>4. QED  BY <1>2, <1>3

LEMMA ViewMoves ==
  ASSUME NEW d, NEW u, NEW r, NEW s, NEW h, Func(d), Func(u), Func(r), Func(s), Func(h),
         NEW l \in Line, NEW v
  PROVE  LET V == View(d, u, r, s, h)
         IN /\ View(Push(d, l, v), u, r, s, h) = Push(V, Spot("down", l), v)
            /\ View(d, Push(u, l, v), r, s, h) = Push(V, Spot("up", l), v)
            /\ View(d, u, Push(r, l, v), s, h) = Push(V, Spot("regular", l), v)
            /\ View(d, u, r, Push(s, l, v), h) = Push(V, Spot("sdk", l), v)
            /\ View(d, u, r, s, Push(h, l, v)) = Push(V, Spot("heard", l), v)
            /\ View(Pop(d, l), u, r, s, h) = Pop(V, Spot("down", l))
            /\ View(d, Pop(u, l), r, s, h) = Pop(V, Spot("up", l))
            /\ View(d, u, Pop(r, l), s, h) = Pop(V, Spot("regular", l))
            /\ View(d, u, r, Pop(s, l), h) = Pop(V, Spot("sdk", l))
            /\ View(d, u, r, s, Pop(h, l)) = Pop(V, Spot("heard", l))
<1> DEFINE V == View(d, u, r, s, h)
<1>1. /\ V[Spot("down", l)] = d[l] /\ V[Spot("up", l)] = u[l] /\ V[Spot("regular", l)] = r[l]
      /\ V[Spot("sdk", l)] = s[l] /\ V[Spot("heard", l)] = h[l]
  BY ViewAt DEF At
<1>2. \A f, c : Push(f, c, v) = Set(f, c, Append(f[c], v)) /\ Pop(f, c) = Set(f, c, Tail(f[c]))
  BY DEF Push, Pop, Set
<1>3. /\ View(Push(d, l, v), u, r, s, h) = Push(V, Spot("down", l), v)
      /\ View(Pop(d, l), u, r, s, h) = Pop(V, Spot("down", l))
  <2>1. \A y : View(Set(d, l, y), u, r, s, h) = Set(V, Spot("down", l), y)
    BY ViewChange
  <2>2. QED  BY <1>1, <1>2, <2>1
<1>4. /\ View(d, Push(u, l, v), r, s, h) = Push(V, Spot("up", l), v)
      /\ View(d, Pop(u, l), r, s, h) = Pop(V, Spot("up", l))
  <2>1. \A y : View(d, Set(u, l, y), r, s, h) = Set(V, Spot("up", l), y)
    BY ViewChange
  <2>2. QED  BY <1>1, <1>2, <2>1
<1>5. /\ View(d, u, Push(r, l, v), s, h) = Push(V, Spot("regular", l), v)
      /\ View(d, u, Pop(r, l), s, h) = Pop(V, Spot("regular", l))
  <2>1. \A y : View(d, u, Set(r, l, y), s, h) = Set(V, Spot("regular", l), y)
    BY ViewChange
  <2>2. QED  BY <1>1, <1>2, <2>1
<1>6. /\ View(d, u, r, Push(s, l, v), h) = Push(V, Spot("sdk", l), v)
      /\ View(d, u, r, Pop(s, l), h) = Pop(V, Spot("sdk", l))
  <2>1. \A y : View(d, u, r, Set(s, l, y), h) = Set(V, Spot("sdk", l), y)
    BY ViewChange
  <2>2. QED  BY <1>1, <1>2, <2>1
<1>7. /\ View(d, u, r, s, Push(h, l, v)) = Push(V, Spot("heard", l), v)
      /\ View(d, u, r, s, Pop(h, l)) = Pop(V, Spot("heard", l))
  <2>1. \A y : View(d, u, r, s, Set(h, l, y)) = Set(V, Spot("heard", l), y)
    BY ViewChange
  <2>2. QED  BY <1>1, <1>2, <2>1
<1>8. QED  BY <1>3, <1>4, <1>5, <1>6, <1>7

\* An exchange that may be open.
Exchanged(e) ==
  /\ e.to \in Hubs \cup DOMAIN Parent /\ e.id \in Word /\ e.rid \in Word
  /\ Fits(e.req) /\ Fits(e.rsp)

LEMMA FrameNumbers ==
  ASSUME NEW dest \in Byte, NEW src \in Byte, NEW msg \in Byte, NEW ref \in Byte,
         NEW id \in Word, NEW data, Fits(data)
  PROVE  /\ Frame(dest, src, msg, ref, id, data) \in Bytes
         /\ Len(Frame(dest, src, msg, ref, id, data)) = Overhead + Len(data)
         /\ Frame(dest, src, msg, ref, id, data)[5] = dest
         /\ Frame(dest, src, msg, ref, id, data)[6] = src
         /\ Frame(dest, src, msg, ref, id, data)[7] = msg
         /\ Valid(Frame(dest, src, msg, ref, id, data))
BY FrameParts

LEMMA PacketParts ==
  ASSUME NEW e, Exchanged(e), NEW n \in Nums
  PROVE  /\ RequestOf(n, e)[5] = e.to /\ RequestOf(n, e)[7] = n
         /\ AnswerOf(n, e)[6] = e.to /\ AnswerOf(n, e)[7] = n /\ Valid(AnswerOf(n, e))
         /\ ToSdk(e) \in Seq(Byte) /\ Len(ToSdk(e)) >= 11
<1>1. e.to \in Byte /\ n \in Byte /\ 0 \in Byte /\ SdkNum \in Byte
  BY Addresses DEF Exchanged, Nums
<1>2. Fits(e.req) /\ Fits(e.rsp) /\ e.id \in Word /\ e.rid \in Word
  BY DEF Exchanged
<1> DEFINE to == e.to
           id == e.id
           rid == e.rid
           req == e.req
           rsp == e.rsp
<1> HIDE DEF to, id, rid, req, rsp
<1>3. RequestOf(n, e)[5] = e.to /\ RequestOf(n, e)[7] = n
  <2>1. Frame(to, 0, n, n, id, req)[5] = to /\ Frame(to, 0, n, n, id, req)[7] = n
    <3>1. to \in Byte /\ n \in Byte /\ 0 \in Byte /\ id \in Word /\ Fits(req)
      BY <1>1, <1>2 DEF to, id, req
    <3>2. QED  BY ONLY <3>1, FrameNumbers
  <2>2. QED  BY <2>1 DEF RequestOf, to, id, req
<1>4. AnswerOf(n, e)[6] = e.to /\ AnswerOf(n, e)[7] = n /\ Valid(AnswerOf(n, e))
  <2> DEFINE f == Frame(0, to, n, n, rid, rsp)
  <2>1. f[6] = to /\ f[7] = n /\ Valid(f)
    <3>1. to \in Byte /\ n \in Byte /\ 0 \in Byte /\ rid \in Word /\ Fits(rsp)
      BY <1>1, <1>2 DEF to, rid, rsp
    <3>2. QED  BY ONLY <3>1, FrameNumbers
  <2>2. QED  BY <2>1 DEF AnswerOf, to, rid, rsp
<1>5. ToSdk(e) \in Bytes /\ Len(ToSdk(e)) = Overhead + Len(e.rsp)
  <2> DEFINE f == Frame(0, to, SdkNum, SdkNum, rid, rsp)
  <2>1. f \in Bytes /\ Len(f) = Overhead + Len(rsp)
    <3>1. to \in Byte /\ SdkNum \in Byte /\ 0 \in Byte /\ rid \in Word /\ Fits(rsp)
      BY <1>1, <1>2 DEF to, rid, rsp
    <3>2. QED  BY ONLY <3>1, FrameNumbers
  <2>2. QED  BY <2>1 DEF ToSdk, to, rid, rsp
<1>6. Len(e.rsp) \in Nat
  BY <1>2 DEF Fits
<1>7. QED  BY <1>3, <1>4, <1>5, <1>6 DEF Bytes, Overhead

LEMMA QueryIsExchange ==
  ASSUME NEW h \in Hubs
  PROVE  /\ Exchanged(QueryOf(h)) /\ QueryOf(h).to = h
         /\ QueryOf(h).id = QueryInterface /\ QueryOf(h).req = Deka
         /\ QueryOf(h).rid = QueryInterfaceResponse /\ QueryOf(h).rsp = RangeOf(h)
<1>1. /\ QueryOf(h).to = h /\ QueryOf(h).id = QueryInterface /\ QueryOf(h).req = Deka
      /\ QueryOf(h).rid = QueryInterfaceResponse /\ QueryOf(h).rsp = RangeOf(h)
  BY DEF QueryOf
<1>2. Fits(Deka) /\ QueryInterface \in Word
  <2>1. Deka \in Seq(Byte) /\ Len(Deka) = 5
    BY DEF Deka, Byte
  <2>2. Fits(Deka)
    BY <2>1, WordRange DEF Fits, Overhead
  <2>3. QED  BY <2>2, WordRange DEF QueryInterface
<1>3. QED  BY <1>1, <1>2, RangeFits DEF Exchanged

LEMMA OpenExchange ==
  ASSUME TypeInv, NEW n \in Nums, Opened[n] # << >>
  PROVE  /\ Exchanged(Opened[n][1]) /\ Opened[n] = << Opened[n][1] >>
         /\ n = 0 => init # "none" /\ Opened[n][1] = QueryOf(Target(init)) /\ Target(init) \in Hubs
         /\ n = ProxyNum => Opened[n] = asked["sdk"] /\ Opened[n][1] \in SdkExchanges
         /\ n = BlazeNum => Opened[n] = asked["blaze"] /\ Opened[n][1] \in BlazeExchanges
<1>1. CASE n = 0
  <2>1. Opened[n] = << QueryOf(Target(init)) >> /\ init # "none"
    BY <1>1, OpenedAt DEF Opened
  <2>2. Target(init) \in Hubs
    BY Addresses DEF Target
  <2>3. ProxyNum # 0 /\ BlazeNum # 0
    BY StartupAssumption
  <2>4. QED  BY <1>1, <2>1, <2>2, <2>3, QueryIsExchange
<1>2. CASE n = ProxyNum
  <2>1. Opened[n] = asked["sdk"] /\ n # 0 /\ n # BlazeNum
    BY <1>2, OpenedAt DEF Opened
  <2>2. PICK e \in SdkExchanges : Opened[n] = << e >>
    BY <2>1 DEF TypeInv
  <2>3. Exchanged(e)
    BY ExchangeAssumption DEF Exchanged
  <2>4. QED  BY <1>2, <2>1, <2>2, <2>3
<1>3. CASE n = BlazeNum
  <2>1. Opened[n] = asked["blaze"] /\ n # 0 /\ n # ProxyNum
    BY <1>3, OpenedAt DEF Opened
  <2>2. PICK e \in BlazeExchanges : Opened[n] = << e >>
    BY <2>1 DEF TypeInv
  <2>3. Exchanged(e)
    BY ExchangeAssumption DEF Exchanged
  <2>4. QED  BY <1>3, <2>1, <2>2, <2>3
<1>4. QED  BY <1>1, <1>2, <1>3 DEF Nums

\* What is somewhere is what it must be.
LEMMA HeldIsRight ==
  ASSUME TypeInv, Carried(Where, Opened, ex), NEW c \in Places, NEW i \in DOMAIN Where[c]
  PROVE  LET n == Num(c, Where[c][i])
         IN n \in Nums /\ Opened[n] # << >> /\ Right(Opened[n], ex, c, Where[c][i])
BY DEF Carried, Right

-----------------------------------------------------------------------------
(* What Java calls.                                                        *)

LEMMA RestOf ==
  ASSUME NEW s, s \in Seq(ToSet(s)), NEW k \in 0 .. Len(s), SubSeq(s, k + 1, Len(s)) # << >>
  PROVE  /\ k + 1 \in 1 .. Len(s) /\ k + 1 \in DOMAIN s
         /\ Head(SubSeq(s, k + 1, Len(s))) = s[k + 1]
         /\ Tail(SubSeq(s, k + 1, Len(s))) = SubSeq(s, k + 1 + 1, Len(s))
<1> DEFINE S == ToSet(s)
           t == SubSeq(s, k + 1, Len(s))
           r == SubSeq(s, k + 1 + 1, Len(s))
           n == Len(s)
<1>1. s \in Seq(S) /\ n \in Nat /\ k \in Nat /\ k <= n /\ \A i \in 1 .. n : s[i] \in S
  OBVIOUS
<1> HIDE DEF S
<1>2. t \in Seq(S) /\ Len(t) = n - k /\ \A i \in 1 .. n - k : t[i] = s[k + i]
  <2>1. \A i \in k + 1 .. n : s[i] \in S  BY <1>1
  <2>2. /\ t \in Seq(S)
        /\ Len(t) = IF k + 1 <= n THEN n - (k + 1) + 1 ELSE 0
        /\ \A i \in 1 .. n - (k + 1) + 1 : t[i] = s[k + 1 + i - 1]
    BY ONLY <1>1, <2>1, SubSeqProperties DEF n
  <2>3. QED  BY <1>1, <2>2
<1>3. k < n
  <2>1. t # << >>  OBVIOUS
  <2> HIDE DEF t
  <2>2. Len(t) # 0  BY <1>2, <2>1
  <2>3. QED  BY <1>1, <1>2, <2>2
<1>4. r \in Seq(S) /\ Len(r) = n - k - 1 /\ \A i \in 1 .. n - k - 1 : r[i] = s[k + 1 + i]
  <2>1. \A i \in k + 2 .. n : s[i] \in S  BY <1>1
  <2>2. /\ r \in Seq(S)
        /\ Len(r) = IF k + 1 + 1 <= n THEN n - (k + 1 + 1) + 1 ELSE 0
        /\ \A i \in 1 .. n - (k + 1 + 1) + 1 : r[i] = s[k + 1 + 1 + i - 1]
    BY ONLY <1>1, <2>1, SubSeqProperties DEF n
  <2>3. QED  BY <1>1, <1>3, <2>2
<1> HIDE DEF t, r
<1>5. Head(t) = t[1] /\ Tail(t) \in Seq(S) /\ Len(Tail(t)) = n - k - 1
      /\ \A i \in 1 .. n - k - 1 : Tail(t)[i] = t[i + 1]
  <2>1. t # << >>  BY <1>1, <1>2, <1>3
  <2>2. Len(t) \in Nat  BY <1>2
  <2>3. QED  BY <1>1, <1>2, <2>1, <2>2, HeadTailProperties
<1>6. Tail(t) = r
  <2>1. \A i \in 1 .. n - k - 1 : Tail(t)[i] = r[i]
    BY <1>1, <1>2, <1>4, <1>5
  <2>2. QED  BY <1>4, <1>5, <2>1, SeqEqual
<1>7. k + 1 \in 1 .. n /\ t[1] = s[k + 1]
  BY <1>1, <1>2, <1>3
<1>8. Head(t) = s[k + 1] /\ Tail(t) = r /\ k + 1 \in 1 .. n /\ k + 1 \in DOMAIN s
  BY <1>1, <1>5, <1>6, <1>7
<1>9. QED  BY <1>8 DEF t, r

\* The next call is one that may come now, and with it the plan goes on.
Allowed(c) ==
  \/ c.call = "servo" /\ c.addr \in DOMAIN Parent
  \/ c.call = "initialize" /\ (c.usb => ex = "usb")
  \/ Told(c, Ctrl, TRUE) /\ (ctrlInit # << >> => vm /\ ex # "usb")
  \/ Told(c, Ex, FALSE) /\ ex = "usb"
  \/ Told(c, Ex, TRUE) /\ ex = "rs485" /\ ctrlInit # << >>

LEMMA CallAllowed ==
  ASSUME PlanInv, NEW kind, Call(kind)
  PROVE  /\ init = "none" /\ todo # << >> /\ Head(todo).call = kind /\ todo' = Tail(todo)
         /\ Allowed(Head(todo))
<1>1. PICK p \in Plants : \E k \in 0 .. Len(p.calls) : Reached(p, k)
  BY DEF PlanInv
<1>2. PICK k \in 0 .. Len(p.calls) : Reached(p, k)
  BY <1>1
<1> DEFINE c == Head(todo)
           s == p.calls
           Fine(i) == LET d     == s[i]
                          known == \E j \in 1 .. i - 1 : Told(s[j], Ctrl, TRUE)
                          begun == \E j \in 1 .. i - 1 : s[j].call = "initialize"
                      IN \/ d.call = "servo" /\ d.addr \in DOMAIN Parent
                         \/ d.call = "initialize" /\ (d.usb => p.ex = "usb")
                         \/ Told(d, Ctrl, TRUE) /\ (known => begun /\ p.ex # "usb")
                         \/ Told(d, Ex, FALSE) /\ p.ex = "usb"
                         \/ Told(d, Ex, TRUE) /\ p.ex = "rs485" /\ known
<1>3. init = "none" /\ todo # << >> /\ c.call = kind /\ todo' = Tail(todo)
  BY DEF Call
<1>4. /\ ex = p.ex /\ todo = SubSeq(s, k + 1, Len(s))
      /\ ctrlInit # << >> <=> \E j \in 1 .. k : Told(s[j], Ctrl, TRUE)
      /\ (\E j \in 1 .. k : s[j].call = "initialize") => vm
  BY <1>2 DEF Reached
<1>5. s \in Seq(ToSet(s)) /\ \A i \in DOMAIN s : Fine(i)
  BY PlantAssumption
<1> HIDE DEF s, Fine
<1>6. k + 1 \in DOMAIN s /\ c = s[k + 1]
  <2>1. k \in 0 .. Len(s)  BY DEF s
  <2>2. QED  BY <1>3, <1>4, <1>5, <2>1, RestOf
<1>7. 1 .. (k + 1) - 1 = 1 .. k
  BY <1>2
<1>8. Fine(k + 1)
  BY <1>5, <1>6
<1> HIDE DEF c
<1>9. Allowed(c)
  <2>1. LET known == \E j \in 1 .. k : Told(s[j], Ctrl, TRUE)
            begun == \E j \in 1 .. k : s[j].call = "initialize"
        IN \/ c.call = "servo" /\ c.addr \in DOMAIN Parent
           \/ c.call = "initialize" /\ (c.usb => p.ex = "usb")
           \/ Told(c, Ctrl, TRUE) /\ (known => begun /\ p.ex # "usb")
           \/ Told(c, Ex, FALSE) /\ p.ex = "usb"
           \/ Told(c, Ex, TRUE) /\ p.ex = "rs485" /\ known
    BY <1>6, <1>7, <1>8 DEF Fine
  <2>2. QED  BY <1>4, <2>1 DEF Allowed
<1>10. QED  BY <1>3, <1>9 DEF c

LEMMA CallMade ==
  ASSUME PlanInv, NEW kind, Call(kind), ex' = ex,
         ctrlInit' # << >> <=> (ctrlInit # << >> \/ Told(Head(todo), Ctrl, TRUE)),
         vm \/ kind = "initialize" => vm'
  PROVE  (\E p \in Plants : \E k \in 0 .. Len(p.calls) : Reached(p, k))'
<1>1. PICK p \in Plants : \E k \in 0 .. Len(p.calls) : Reached(p, k)
  BY DEF PlanInv
<1>2. PICK k \in 0 .. Len(p.calls) : Reached(p, k)
  BY <1>1
<1> DEFINE c == Head(todo)
           s == p.calls
<1>3. todo # << >> /\ c.call = kind /\ todo' = Tail(todo)
  BY DEF Call
<1>4. /\ ex = p.ex /\ todo = SubSeq(s, k + 1, Len(s))
      /\ ctrlInit # << >> <=> \E j \in 1 .. k : Told(s[j], Ctrl, TRUE)
      /\ (\E j \in 1 .. k : s[j].call = "initialize") => vm
  BY <1>2 DEF Reached
<1>5. s \in Seq(ToSet(s))
  BY PlantAssumption
<1> HIDE DEF s
<1>6. /\ k + 1 \in 1 .. Len(s) /\ c = s[k + 1]
      /\ todo' = SubSeq(s, k + 1 + 1, Len(s))
  <2>1. k \in 0 .. Len(s)  BY DEF s
  <2>2. QED  BY <1>3, <1>4, <1>5, <2>1, RestOf
<1>7. \A j : j \in 1 .. k + 1 <=> j \in 1 .. k \/ j = k + 1
  BY <1>2
<1>8. ctrlInit' # << >> <=> (ctrlInit # << >> \/ Told(c, Ctrl, TRUE))
  OBVIOUS
<1> HIDE DEF c
<1>9. ctrlInit' # << >> <=> \E j \in 1 .. k + 1 : Told(s[j], Ctrl, TRUE)
  BY <1>4, <1>6, <1>7, <1>8
<1>10. (\E j \in 1 .. k + 1 : s[j].call = "initialize") => vm'
  BY <1>3, <1>4, <1>6, <1>7
<1>11. Reached(p, k + 1)'
  BY <1>4, <1>6, <1>9, <1>10 DEF Reached, s
<1>12. k + 1 \in 0 .. Len(p.calls)
  BY <1>2, <1>6 DEF s
<1>13. QED  BY <1>11, <1>12

\* Nothing is sent and nothing arrives.
LEMMA LinesIdle ==
  ASSUME IInv, UNCHANGED << ex, init, lines, stream >>, tokens' = tokens \/ (~ running' /\ tokens' \in Nat),
         running' => running
  PROVE  (TypeInv /\ StreamInv /\ TokenInv /\ Carried(Where, Opened, ex))'
<1>1. Where' = Where /\ Opened' = Opened
  BY DEF Where, Opened, Hearing, lines, stream
<1>2. TypeInv'
  BY DEF IInv, TypeInv, lines, stream
<1>3. StreamInv'
  BY DEF IInv, StreamInv, stream
<1>4. Carried(Where, Opened, ex)'
  BY <1>1 DEF IInv
<1>5. TokenInv'
  BY <1>1 DEF IInv, TokenInv, Waiting
<1>6. QED  BY <1>2, <1>3, <1>4, <1>5

LEMMA ModuleStep ==
  ASSUME IInv, InformOfModule
  PROVE  IInv'
<1> DEFINE c == Head(todo)
<1>1. /\ Call("module")
      /\ ctrlInit' = IF c.fd /\ ctrlInit = << >> THEN << c.addr >> ELSE ctrlInit
      /\ exInit' = CASE exInit # << >>                     -> exInit
                     [] exInit = << >> /\ ~ c.fd           -> << [loc |-> "usb", addr |-> c.addr] >>
                     [] exInit = << >> /\ c.fd /\ ctrlInit # << >> ->
                          << [loc |-> "rs485", addr |-> c.addr] >>
                     [] OTHER                              -> exInit
      /\ UNCHANGED << ex, servoInit, servoHubs, vm, setup, lines, stream >>
  BY DEF InformOfModule
<1>2. init = "none" /\ c.call = "module" /\ Allowed(c)
  BY <1>1, CallAllowed DEF IInv
<1> HIDE DEF c
<1>3. \/ Told(c, Ctrl, TRUE) /\ (ctrlInit # << >> => vm /\ ex # "usb")
      \/ Told(c, Ex, FALSE) /\ ex = "usb"
      \/ Told(c, Ex, TRUE) /\ ex = "rs485" /\ ctrlInit # << >>
  BY <1>2 DEF Allowed
<1>4. ctrlInit \in {<< >>, << Ctrl >>} /\ Ctrl # Ex
  BY Addresses DEF IInv, PlanInv
<1>5. ctrlInit' \in {<< >>, << Ctrl >>} /\ (ctrlInit' # << >> <=> ctrlInit # << >> \/ Told(c, Ctrl, TRUE))
  BY <1>1, <1>3, <1>4 DEF Told
<1>6. exInit' # << >> =>
       \/ ex = "usb" /\ exInit' = << [loc |-> "usb", addr |-> Ex] >>
       \/ ex # "usb" /\ exInit' = << [loc |-> "rs485", addr |-> Ex] >>
       \/ ex # "usb" /\ exInit' = << [loc |-> "rs485", addr |-> Ctrl] >> /\ vm
  <2>1. CASE exInit # << >>
    BY <1>1, <2>1 DEF IInv, PlanInv
  <2>2. CASE exInit = << >> /\ ~ c.fd
    <3>1. exInit' = << [loc |-> "usb", addr |-> c.addr] >>
      BY <1>1, <2>2
    <3>2. QED  BY <1>3, <2>2, <3>1 DEF Told
  <2>3. CASE exInit = << >> /\ c.fd /\ ctrlInit # << >>
    <3>1. exInit' = << [loc |-> "rs485", addr |-> c.addr] >>
      BY <1>1, <2>3
    <3>2. QED  BY <1>3, <2>3, <3>1 DEF Told
  <2>4. CASE exInit = << >> /\ c.fd /\ ctrlInit = << >>
    <3>1. exInit' = exInit
      BY <1>1, <2>4
    <3>2. QED  BY <2>4, <3>1
  <2>5. QED  BY <2>1, <2>2, <2>3, <2>4
<1>7. PlanInv'
  <2>1. (\E p \in Plants : \E k \in 0 .. Len(p.calls) : Reached(p, k))'
    BY <1>1, <1>5, CallMade DEF c, IInv
  <2>2. QED  BY <1>1, <1>2, <1>5, <1>6, <2>1 DEF IInv, PlanInv, setup
<1>8. InitInv'
  BY <1>1, <1>2 DEF IInv, InitInv, HubInv, LineOf, setup, lines, hubs
<1>9. QED  BY <1>1, <1>7, <1>8, LinesIdle DEF IInv, setup

LEMMA ServoStep ==
  ASSUME IInv, InformOfServoHub
  PROVE  IInv'
<1> DEFINE c == Head(todo)
           s == [addr |-> c.addr, parent |-> Parent[c.addr]]
<1>1. /\ Call("servo") /\ servoInit' = Append(servoInit, s)
      /\ UNCHANGED << ex, ctrlInit, exInit, servoHubs, vm, setup, lines, stream >>
  BY DEF InformOfServoHub
<1>2. c.call = "servo" /\ c.addr \in DOMAIN Parent /\ ~ Told(c, Ctrl, TRUE) /\ init = "none"
  <2>1. c.call = "servo" /\ init = "none" /\ Allowed(c)
    BY <1>1, CallAllowed DEF IInv
  <2> HIDE DEF c
  <2>2. QED  BY <2>1 DEF Allowed, Told
<1>3. s \in Servos
  BY <1>2 DEF Servos
<1> HIDE DEF c, s
<1>4. servoInit' \in Seq(Servos)
  BY <1>1, <1>3 DEF IInv, PlanInv
<1>5. PlanInv'
  <2>1. (\E p \in Plants : \E k \in 0 .. Len(p.calls) : Reached(p, k))'
    BY <1>1, <1>2, CallMade DEF c, IInv
  <2>2. QED  BY <1>1, <1>4, <2>1 DEF IInv, PlanInv, setup
<1>6. InitInv'
  BY <1>1 DEF IInv, InitInv, HubInv, LineOf, setup, lines, hubs
<1>7. QED  BY <1>1, <1>5, <1>6, LinesIdle DEF IInv, setup

LEMMA AgainStep ==
  ASSUME IInv, AlreadyInitialized
  PROVE  IInv'
<1>1. /\ Call("initialize") /\ vm
      /\ UNCHANGED << ex, ctrlInit, exInit, servoInit, servoHubs, vm, setup, lines, stream >>
  BY DEF AlreadyInitialized
<1>2. Head(todo).call = "initialize" /\ ~ Told(Head(todo), Ctrl, TRUE)
  BY <1>1, CallAllowed DEF IInv, Told
<1>3. PlanInv'
  <2>1. (\E p \in Plants : \E k \in 0 .. Len(p.calls) : Reached(p, k))'
    BY <1>1, <1>2, CallMade DEF IInv
  <2>2. QED  BY <1>1, <2>1 DEF IInv, PlanInv, setup
<1>4. InitInv'
  BY <1>1 DEF IInv, InitInv, HubInv, LineOf, setup, lines, hubs
<1>5. QED  BY <1>1, <1>3, <1>4, LinesIdle DEF IInv, setup

-----------------------------------------------------------------------------
(* What is where, and HubAnswer.                                           *)

LEMMA NumAt ==
  ASSUME NEW l \in Line, NEW v
  PROVE  /\ Num(Spot("down", l), v) = v[7] /\ Num(Spot("up", l), v) = v[7]
         /\ Num(Spot("regular", l), v) = v.ref
         /\ Num(Spot("sdk", l), v) = ProxyNum /\ Num(Spot("heard", l), v) = ProxyNum
         /\ \A k \in {"down", "up", "regular", "sdk", "heard"} :
              Spot(k, l) \in Places /\ Spot(k, l)[1] = k /\ Spot(k, l)[2] = l
<1>1. \A k : Spot(k, l)[1] = k /\ Spot(k, l)[2] = l
  BY DEF Spot
<1>2. \A k \in {"down", "up", "regular", "sdk", "heard"} : Spot(k, l) \in Places
  BY DEF Spot, Places
<1>3. QED  BY <1>1, <1>2 DEF Num

\* What is right, place by place.
LEMMA RightDown ==
  ASSUME NEW o, NEW x, NEW l \in Line, NEW v
  PROVE  Right(o, x, Spot("down", l), v) <=>
           /\ v[7] \in Nums /\ o # << >> /\ l = LineFor(x, o[1].to) /\ v = RequestOf(v[7], o[1])
BY NumAt DEF Right

LEMMA RightUp ==
  ASSUME NEW o, NEW x, NEW l \in Line, NEW v
  PROVE  Right(o, x, Spot("up", l), v) <=>
           /\ v[7] \in Nums /\ o # << >> /\ l = LineFor(x, o[1].to) /\ v = AnswerOf(v[7], o[1])
BY NumAt DEF Right

LEMMA RightRegular ==
  ASSUME NEW o, NEW x, NEW l \in Line, NEW v
  PROVE  Right(o, x, Spot("regular", l), v) <=>
           /\ v.ref \in Nums \ {ProxyNum} /\ o # << >> /\ l = LineFor(x, o[1].to)
           /\ v.id = o[1].rid
           /\ v.ref = 0 => v.values = << Commanded[o[1].to].first, Commanded[o[1].to].count >>
           /\ v.ref = BlazeNum => CommandAnswer(v, o[1])
BY NumAt DEF Right

LEMMA RightSdk ==
  ASSUME NEW o, NEW x, NEW l \in Line, NEW v
  PROVE  Right(o, x, Spot("sdk", l), v) <=>
           o # << >> /\ l = LineFor(x, o[1].to) /\ IntoBytes(v) = ToSdk(o[1])
<1>1. ProxyNum \in Nums
  BY DEF Nums
<1>2. QED  BY <1>1, NumAt DEF Right

LEMMA RightHeard ==
  ASSUME NEW o, NEW x, NEW l \in Line, NEW v
  PROVE  Right(o, x, Spot("heard", l), v) <=>
           /\ o # << >> /\ l = LineFor(x, o[1].to)
           /\ v[2] = SubSeq(ToSdk(o[1]), v[1] + 1, Len(ToSdk(o[1])))
<1>1. ProxyNum \in Nums
  BY DEF Nums
<1>2. QED  BY <1>1, NumAt DEF Right

LEMMA WhereAt ==
  ASSUME NEW l \in Line
  PROVE  /\ Where[Spot("down", l)] = down[l] /\ Where[Spot("up", l)] = up[l]
         /\ Where[Spot("regular", l)] = regular[l] /\ Where[Spot("sdk", l)] = sdkReceive[l]
         /\ Where[Spot("heard", l)] = Hearing[l]
BY ViewAt DEF At, Where

LEMMA Functions ==
  /\ \A f, c, v : Func(f) => Func(Push(f, c, v)) /\ Func(Pop(f, c))
  /\ \A h, b, n : Func(HearingAt(h, b, n))
<1>1. ASSUME NEW f, NEW c, NEW v, Func(f) PROVE Func(Push(f, c, v)) /\ Func(Pop(f, c))
  BY <1>1 DEF Func, Push, Pop
<1>2. ASSUME NEW h, NEW b, NEW n PROVE Func(HearingAt(h, b, n))
  <2> DEFINE G(l) == IF h[l] = << >> THEN << >> ELSE << << n[l], h[l] \o b[l] >> >>
             f == HearingAt(h, b, n)
  <2>1. f = [l \in Line |-> G(l)]
    BY Zenon DEF HearingAt
  <2> HIDE DEF G, f
  <2>2. Func(f)
    BY <2>1 DEF Func
  <2>3. QED  BY <2>2 DEF f
<1>3. QED  BY <1>1, <1>2

LEMMA TokenKept ==
  ASSUME TokenInv, running' => running, UNCHANGED << init, tokens >>,
         \A d \in Places : In(Where, d, 0) => In(Where, d, 0)'
  PROVE  TokenInv'
<1>1. Waiting \in Line /\ Waiting' = Waiting
  BY DEF Waiting, Line
<1>2. \A k \in {"down", "up", "regular"} : Spot(k, Waiting) \in Places
  BY <1>1, NumAt
<1>3. QED  BY <1>1, <1>2 DEF TokenInv

LEMMA AnswerGiven ==
  ASSUME NEW v
  PROVE  /\ v[7] = 0 => AnswerTo(v) = Frame(0, v[5], 0, 0, QueryInterfaceResponse, RangeOf(v[5]))
         /\ v[7] = ProxyNum => AnswerTo(v) = Frame(0, v[5], ProxyNum, ProxyNum, asked["sdk"][1].rid, asked["sdk"][1].rsp)
         /\ v[7] = BlazeNum => AnswerTo(v) = Frame(0, v[5], BlazeNum, BlazeNum, asked["blaze"][1].rid, asked["blaze"][1].rsp)
<1> DEFINE to == v[5]
           n == v[7]
           a == Frame(0, to, 0, 0, QueryInterfaceResponse, RangeOf(to))
           b == Frame(0, to, n, n, asked["sdk"][1].rid, asked["sdk"][1].rsp)
           c == Frame(0, to, n, n, asked["blaze"][1].rid, asked["blaze"][1].rsp)
<1>1. AnswerTo(v) = CASE n = 0 -> a [] n = ProxyNum -> b [] n = BlazeNum -> c
  BY Zenon DEF AnswerTo
<1>2. ProxyNum # 0 /\ BlazeNum # 0 /\ ProxyNum # BlazeNum
  BY OpenedAt
<1> HIDE DEF a, b, c, n, to
<1>3. /\ n = 0 => AnswerTo(v) = a
      /\ n = ProxyNum => AnswerTo(v) = b
      /\ n = BlazeNum => AnswerTo(v) = c
  BY <1>1, <1>2
<1>4. QED  BY <1>3 DEF a, b, c, n, to

\* The answer of a hub takes the place of the request.
LEMMA HubAnswerStep ==
  ASSUME IInv, NEW l \in Line, HubAnswer(l)
  PROVE  IInv'
<1> DEFINE c == Spot("down", l)
           d == Spot("up", l)
           v == Head(down[l])
           n == v[7]
           e == Opened[n][1]
           w == AnswerOf(n, e)
<1>1. /\ down[l] # << >> /\ down' = Pop(down, l)
      /\ IF LineOf(v[5]) = l THEN up' = Push(up, l, AnswerTo(v)) ELSE up' = up
      /\ UNCHANGED << java, setup, regular, sdkReceive, asked, lost, stream >>
  BY DEF HubAnswer, Drop, Put, Pop, Push
<1>2. /\ TypeInv /\ Carried(Where, Opened, ex) /\ c \in Places /\ d \in Places
      /\ Where[c] = down[l] /\ Num(c, v) = n
  BY NumAt, WhereAt DEF IInv
<1>3. Right(Opened[n], ex, c, v) /\ In(Where, c, n)
  BY <1>1, <1>2, Removed
<1>4. n \in Nums /\ Opened[n] # << >> /\ l = LineFor(ex, e.to) /\ v = RequestOf(n, e)
  BY <1>3, RightDown
<1>5. Exchanged(e)
  BY <1>2, <1>4, OpenExchange
<1>6. v[5] = e.to /\ w[7] = n
  BY <1>4, <1>5, PacketParts
<1>7. AnswerTo(v) = w
  <2>1. CASE n = 0
    <3>1. e = QueryOf(Target(init)) /\ Target(init) \in Hubs
      BY <1>2, <1>4, <2>1, OpenExchange
    <3>2. e.rid = QueryInterfaceResponse /\ e.rsp = RangeOf(e.to)
      BY <3>1, QueryIsExchange
    <3>3. AnswerTo(v) = Frame(0, e.to, 0, 0, QueryInterfaceResponse, RangeOf(e.to))
      BY <1>6, <2>1, AnswerGiven
    <3>4. QED  BY <2>1, <3>2, <3>3 DEF AnswerOf
  <2>2. CASE n = ProxyNum
    <3>1. e = asked["sdk"][1]
      BY <1>2, <1>4, <2>2, OpenExchange
    <3>2. AnswerTo(v) = Frame(0, e.to, ProxyNum, ProxyNum, asked["sdk"][1].rid, asked["sdk"][1].rsp)
      BY <1>6, <2>2, AnswerGiven
    <3>3. QED  BY <2>2, <3>1, <3>2 DEF AnswerOf
  <2>3. CASE n = BlazeNum
    <3>1. e = asked["blaze"][1]
      BY <1>2, <1>4, <2>3, OpenExchange
    <3>2. AnswerTo(v) = Frame(0, e.to, BlazeNum, BlazeNum, asked["blaze"][1].rid, asked["blaze"][1].rsp)
      BY <1>6, <2>3, AnswerGiven
    <3>3. QED  BY <2>3, <3>1, <3>2 DEF AnswerOf
  <2>4. QED  BY <1>4, <2>1, <2>2, <2>3 DEF Nums
<1>8. up' = Push(up, l, w)
  BY <1>1, <1>4, <1>6, <1>7 DEF LineOf, LineFor
<1> HIDE DEF v, n, e, w
<1>9. Num(d, w) = n /\ Right(Opened[n], ex, d, w)
  <2>1. Num(d, w) = n
    BY <1>6, NumAt
  <2>2. e = Opened[n][1] /\ w = AnswerOf(w[7], e)
    BY <1>6 DEF e, w
  <2>3. Right(Opened[n], ex, d, w) <=>
          /\ w[7] \in Nums /\ Opened[n] # << >> /\ l = LineFor(ex, Opened[n][1].to)
          /\ w = AnswerOf(w[7], Opened[n][1])
    BY RightUp
  <2>4. QED  BY <1>4, <1>6, <2>1, <2>2, <2>3
<1>10. Where' = Push(Pop(Where, c), d, w) /\ Opened' = Opened
  <2> DEFINE g == Hearing
             b == Pop(down, l)
  <2>1. Func(down) /\ Func(up) /\ Func(regular) /\ Func(sdkReceive) /\ Func(g) /\ Func(b)
    BY <1>2, Functions DEF TypeInv, Hearing
  <2>2. Where = View(down, up, regular, sdkReceive, g)
    BY DEF Where
  <2>3. UNCHANGED << regular, sdkReceive, Hearing, Opened >>
    BY <1>1 DEF Hearing, Opened, stream, setup
  <2>4. down' = b /\ up' = Push(up, l, w) /\ Where' = View(down', up', regular, sdkReceive, g)
    BY <1>1, <1>8, <2>3 DEF Where
  <2> HIDE DEF g
  <2>5. View(b, up, regular, sdkReceive, g) = Pop(Where, c)
    BY <2>1, <2>2, ViewMoves
  <2> HIDE DEF b
  <2>6. View(b, Push(up, l, w), regular, sdkReceive, g) = Push(Pop(Where, c), d, w)
    BY <2>1, <2>5, ViewMoves
  <2>7. QED  BY <2>3, <2>4, <2>6
<1>11. /\ Carried(Push(Pop(Where, c), d, w), Opened, ex)
       /\ In(Push(Pop(Where, c), d, w), d, n)
       /\ \A f \in Places : \A m : m # n /\ In(Where, f, m) => In(Push(Pop(Where, c), d, w), f, m)
  <2>1. Where[c] # << >> /\ Num(d, w) = Num(c, Head(Where[c])) /\ Right(Opened[Num(d, w)], ex, d, w)
    BY <1>1, <1>2, <1>9 DEF v
  <2>2. QED  BY <1>2, <1>9, <2>1, MovedOn
<1>12. Carried(Where, Opened, ex)'
  BY <1>1, <1>10, <1>11 DEF java
<1>13. TypeInv'
  BY <1>1, <1>2, <1>8, Functions DEF TypeInv, setup, stream
<1>14. TokenInv'
  <2>1. CASE n # 0
    BY <1>1, <1>10, <1>11, <2>1, TokenKept DEF IInv, setup
  <2>2. CASE n = 0
    <3>1. SUFFICES ASSUME running, init # "none"
                   PROVE  In(Where', d, 0) /\ tokens = 1 /\ l = Waiting
      BY <1>1 DEF TokenInv, IInv, setup, Waiting
    <3>2. PICK k \in {"down", "up", "regular"} :
            In(Where, Spot(k, Waiting), 0) /\ tokens = IF k = "regular" THEN 0 ELSE 1
      BY <3>1 DEF IInv, TokenInv
    <3>3. Spot(k, Waiting) = c
      <4>1. Waiting \in Line
        BY DEF Waiting, Line
      <4>2. Spot(k, Waiting) \in Places
        BY <4>1, NumAt
      <4>3. QED  BY <1>2, <1>3, <2>2, <3>2, <4>2 DEF Carried, Unique, In
    <3>4. k = "down" /\ Waiting = l
      BY <3>3 DEF Spot
    <3>5. QED  BY <1>10, <1>11, <2>2, <3>2, <3>4
  <2>3. QED  BY <2>1, <2>2
<1>15. PlanInv' /\ InitInv' /\ StreamInv'
  <2>1. PlanInv'
    BY <1>1 DEF IInv, PlanInv, Reached, java, setup
  <2>2. InitInv'
    BY <1>1 DEF IInv, InitInv, HubInv, LineOf, setup, java, hubs
  <2>3. StreamInv'
    BY <1>1 DEF IInv, StreamInv, stream
  <2>4. QED  BY <2>1, <2>2, <2>3
<1>16. QED  BY <1>12, <1>13, <1>14, <1>15 DEF IInv

\* The side of a number, and that side's exchange.
NumOf(w) == IF w = "sdk" THEN ProxyNum ELSE BlazeNum

LEMMA SideNumber ==
  ASSUME NEW w \in {"sdk", "blaze"}, TypeInv
  PROVE  /\ NumOf(w) \in Nums \ {0} /\ Opened[NumOf(w)] = asked[w]
         /\ \A y : LET a == [asked EXCEPT ![w] = y]
                   IN /\ Others(Opened, OpenedAs(init, a), NumOf(w))
                      /\ OpenedAs(init, a)[NumOf(w)] = y
                      /\ a[w] = y /\ (\A u \in {"sdk", "blaze"} \ {w} : a[u] = asked[u])
                      /\ a = [u \in {"sdk", "blaze"} |-> a[u]]
<1>1. asked = [u \in {"sdk", "blaze"} |-> asked[u]]
  BY DEF TypeInv
<1>2. CASE w = "sdk"
  <2>1. NumOf(w) = ProxyNum
    BY <1>2 DEF NumOf
  <2>2. NumOf(w) \in Nums \ {0} /\ Opened[NumOf(w)] = asked[w]
    BY <1>2, <2>1, OpenedAt DEF Opened
  <2>3. ASSUME NEW y
        PROVE  LET a == [asked EXCEPT ![w] = y]
               IN Others(Opened, OpenedAs(init, a), NumOf(w)) /\ OpenedAs(init, a)[NumOf(w)] = y
    <3>1. LET a == Set(asked, "sdk", y)
          IN Others(Opened, OpenedAs(init, a), ProxyNum) /\ OpenedAs(init, a)[ProxyNum] = y
      BY <1>1, OthersKept DEF Opened
    <3>2. [asked EXCEPT ![w] = y] = Set(asked, "sdk", y)
      BY <1>2 DEF Set
    <3>3. QED  BY <2>1, <3>1, <3>2
  <2>4. QED  BY <1>1, <2>2, <2>3
<1>3. CASE w = "blaze"
  <2>1. NumOf(w) = BlazeNum
    BY <1>3 DEF NumOf
  <2>2. NumOf(w) \in Nums \ {0} /\ Opened[NumOf(w)] = asked[w]
    BY <1>3, <2>1, OpenedAt DEF Opened
  <2>3. ASSUME NEW y
        PROVE  LET a == [asked EXCEPT ![w] = y]
               IN Others(Opened, OpenedAs(init, a), NumOf(w)) /\ OpenedAs(init, a)[NumOf(w)] = y
    <3>1. LET a == Set(asked, "blaze", y)
          IN Others(Opened, OpenedAs(init, a), BlazeNum) /\ OpenedAs(init, a)[BlazeNum] = y
      BY <1>1, OthersKept DEF Opened
    <3>2. [asked EXCEPT ![w] = y] = Set(asked, "blaze", y)
      BY <1>3 DEF Set
    <3>3. QED  BY <2>1, <3>1, <3>2
  <2>4. QED  BY <1>1, <2>2, <2>3
<1>4. QED  BY <1>2, <1>3

LEMMA SideOpened ==
  ASSUME NEW w \in {"sdk", "blaze"}, TypeInv, NEW y, asked' = [asked EXCEPT ![w] = y], init' = init
  PROVE  /\ Others(Opened, Opened', NumOf(w)) /\ Opened'[NumOf(w)] = y
         /\ asked'[w] = y /\ \A u \in {"sdk", "blaze"} \ {w} : asked'[u] = asked[u]
         /\ asked' = [u \in {"sdk", "blaze"} |-> asked'[u]]
<1> DEFINE Q(z) == LET a == [asked EXCEPT ![w] = z]
                   IN /\ Others(Opened, OpenedAs(init, a), NumOf(w))
                      /\ OpenedAs(init, a)[NumOf(w)] = z
                      /\ a[w] = z /\ (\A u \in {"sdk", "blaze"} \ {w} : a[u] = asked[u])
                      /\ a = [u \in {"sdk", "blaze"} |-> a[u]]
           a == [asked EXCEPT ![w] = y]
<1>1. \A z : Q(z)
  BY SideNumber
<1> HIDE DEF Q
<1>2. Q(y)
  BY <1>1
<1>3. /\ Others(Opened, OpenedAs(init, a), NumOf(w)) /\ OpenedAs(init, a)[NumOf(w)] = y
      /\ a[w] = y /\ \A u \in {"sdk", "blaze"} \ {w} : a[u] = asked[u]
      /\ a = [u \in {"sdk", "blaze"} |-> a[u]]
  BY <1>2 DEF Q
<1>4. asked' = a /\ Opened' = OpenedAs(init, asked')
  BY DEF Opened
<1> HIDE DEF a
<1>5. QED  BY <1>3, <1>4

\* A side is done with its exchange: with it goes the packet.
LEMMA Closing ==
  ASSUME IInv, NEW c \in Places, Where[c] # << >>, NEW w \in {"sdk", "blaze"},
         Num(c, Head(Where[c])) = NumOf(w), Where' = Pop(Where, c),
         asked' = [asked EXCEPT ![w] = << >>], UNCHANGED << java, setup >>
  PROVE  /\ (PlanInv /\ InitInv /\ TokenInv /\ Carried(Where, Opened, ex))'
         /\ asked' = [u \in {"sdk", "blaze"} |-> asked'[u]]
         /\ asked'["sdk"] # << >> => \E e \in SdkExchanges : asked'["sdk"] = << e >>
         /\ asked'["blaze"] # << >> => \E e \in BlazeExchanges : asked'["blaze"] = << e >>
<1>1. /\ TypeInv /\ PlanInv /\ InitInv /\ TokenInv /\ Carried(Where, Opened, ex)
      /\ NumOf(w) # 0
      /\ UNCHANGED << ex, init, running, tokens >>
  BY SideNumber DEF IInv, java, setup
<1>2. /\ Others(Opened, Opened', NumOf(w)) /\ asked'[w] = << >>
      /\ \A u \in {"sdk", "blaze"} \ {w} : asked'[u] = asked[u]
      /\ asked' = [u \in {"sdk", "blaze"} |-> asked'[u]]
  BY <1>1, SideOpened
<1>3. /\ Carried(Where', Opened', ex)
      /\ \A d \in Places : \A m : m # NumOf(w) /\ In(Where, d, m) => In(Where', d, m)
  BY <1>1, <1>2, ClosedBy DEF Others
<1>4. TokenInv'
  BY <1>1, <1>3, TokenKept
<1>5. PlanInv'
  BY <1>1 DEF PlanInv, Reached, java, setup
<1>6. asked'["sdk"] \in {<< >>, asked["sdk"]} /\ asked'["blaze"] \in {<< >>, asked["blaze"]}
  BY <1>2
<1>7. InitInv'
  <2>1. UNCHANGED << java, setup, hubs, LineOf(Ex) >>
    BY DEF setup, java, hubs, LineOf
  <2>2. QED  BY <1>1, <1>6, <2>1 DEF InitInv, HubInv, java, setup
<1>8. QED  BY <1>1, <1>2, <1>3, <1>4, <1>5, <1>6, <1>7 DEF TypeInv

LEMMA LoseStep ==
  ASSUME IInv, NEW l \in Line, NEW w \in {"sdk", "blaze"}, LoseAnswer(l, w)
  PROVE  IInv'
<1> DEFINE c == Spot("up", l)
<1>1. /\ up[l] # << >> /\ Head(up[l])[7] = NumOf(w) /\ up' = Pop(up, l)
      /\ asked' = [asked EXCEPT ![w] = << >>]
      /\ UNCHANGED << java, setup, down, regular, sdkReceive, stream >>
  BY DEF LoseAnswer, Drop, Pop, NumOf
<1>2. /\ TypeInv /\ StreamInv /\ c \in Places /\ Where[c] = up[l]
      /\ Num(c, Head(up[l])) = NumOf(w)
  BY <1>1, NumAt, WhereAt DEF IInv
<1>3. Where' = Pop(Where, c)
  <2>1. Func(down) /\ Func(up) /\ Func(regular) /\ Func(sdkReceive) /\ Func(Hearing)
    BY <1>2, Functions DEF TypeInv, Hearing
  <2>2. UNCHANGED << down, regular, sdkReceive, Hearing >>
    BY <1>1 DEF Hearing, stream
  <2>3. QED  BY <1>1, <2>1, <2>2, ViewMoves DEF Where
<1> HIDE DEF c
<1>4. /\ (PlanInv /\ InitInv /\ TokenInv /\ Carried(Where, Opened, ex))'
      /\ asked' = [u \in {"sdk", "blaze"} |-> asked'[u]]
      /\ asked'["sdk"] # << >> => \E e \in SdkExchanges : asked'["sdk"] = << e >>
      /\ asked'["blaze"] # << >> => \E e \in BlazeExchanges : asked'["blaze"] = << e >>
  BY <1>1, <1>2, <1>3, Closing
<1>5. TypeInv'
  BY <1>1, <1>2, <1>4, Functions DEF TypeInv, setup, stream
<1>6. StreamInv'
  BY <1>1, <1>2 DEF StreamInv, stream
<1>7. QED  BY <1>4, <1>5, <1>6 DEF IInv

LEMMA UsbWaits ==
  ASSUME PlanInv, InitInv
  PROVE  /\ init = "usb" => ex = "usb"
         /\ init = "rs485" => ex # "usb"
<1>1. ASSUME NEW where, exInit = << [loc |-> where, addr |-> Ex] >>
      PROVE  ex = "usb" <=> where = "usb"
  <2>1. exInit # << >> /\ exInit[1].loc = where
    BY <1>1
  <2>2. \/ ex = "usb" /\ exInit[1].loc = "usb"
        \/ ex # "usb" /\ exInit[1].loc = "rs485"
    BY <2>1 DEF PlanInv
  <2>3. QED  BY <2>1, <2>2
<1>2. QED  BY <1>1 DEF InitInv

LEMMA BlazeReadStep ==
  ASSUME IInv, NEW l \in Line, BlazeRead(l)
  PROVE  IInv'
<1> DEFINE c == Spot("regular", l)
           n == Head(regular[l]).ref
<1>1. /\ init = "none" \/ (init = "usb" /\ l = "serial")
      /\ regular[l] # << >> /\ regular' = Pop(regular, l)
      /\ asked' = [asked EXCEPT !["blaze"] = << >>]
      /\ UNCHANGED << java, setup, down, up, sdkReceive, stream >>
  BY DEF BlazeRead, Drop, Pop
<1>2. /\ TypeInv /\ StreamInv /\ PlanInv /\ InitInv /\ Carried(Where, Opened, ex)
      /\ c \in Places /\ Where[c] = regular[l] /\ Num(c, Head(regular[l])) = n
  BY NumAt, WhereAt DEF IInv
<1>3. n \in Nums \ {ProxyNum} /\ Opened[n] # << >> /\ l = LineFor(ex, Opened[n][1].to)
  <2>1. Right(Opened[n], ex, c, Head(regular[l]))
    BY <1>1, <1>2, Removed
  <2>2. QED  BY <2>1, RightRegular
<1>4. n # 0
  <2> SUFFICES ASSUME n = 0 PROVE FALSE
    OBVIOUS
  <2>1. init = "usb" /\ l = "serial" /\ Opened[n][1] = QueryOf(Target(init))
    BY <1>1, <1>2, <1>3, OpenExchange
  <2>2. Opened[n][1].to = Ex
    BY <2>1, QueryIsExchange, Addresses DEF Target
  <2>3. ex = "usb"
    BY <1>2, <2>1, UsbWaits
  <2>4. HubOf(Ex) = Ex
    BY Addresses DEF HubOf
  <2>5. QED  BY <1>3, <2>1, <2>2, <2>3, <2>4 DEF LineFor
<1>5. n = NumOf("blaze")
  BY <1>3, <1>4 DEF Nums, NumOf
<1>6. Where' = Pop(Where, c)
  <2>1. Func(down) /\ Func(up) /\ Func(regular) /\ Func(sdkReceive) /\ Func(Hearing)
    BY <1>2, Functions DEF TypeInv, Hearing
  <2>2. UNCHANGED << down, up, sdkReceive, Hearing >>
    BY <1>1 DEF Hearing, stream
  <2>3. QED  BY <1>1, <2>1, <2>2, ViewMoves DEF Where
<1> HIDE DEF c, n
<1>7. /\ (PlanInv /\ InitInv /\ TokenInv /\ Carried(Where, Opened, ex))'
      /\ asked' = [u \in {"sdk", "blaze"} |-> asked'[u]]
      /\ asked'["sdk"] # << >> => \E e \in SdkExchanges : asked'["sdk"] = << e >>
      /\ asked'["blaze"] # << >> => \E e \in BlazeExchanges : asked'["blaze"] = << e >>
  BY <1>1, <1>2, <1>5, <1>6, Closing
<1>8. TypeInv'
  BY <1>1, <1>2, <1>7, Functions DEF TypeInv, setup, stream
<1>9. StreamInv'
  BY <1>1, <1>2 DEF StreamInv, stream
<1>10. QED  BY <1>7, <1>8, <1>9 DEF IInv

LEMMA SameFunc ==
  ASSUME NEW f, NEW g, Func(f), Func(g), \A l \in Line : f[l] = g[l]
  PROVE  f = g
BY DEF Func

LEMMA HearingIs ==
  ASSUME NEW h, NEW b, NEW n, NEW l \in Line
  PROVE  /\ h[l] = << >> => HearingAt(h, b, n)[l] = << >>
         /\ h[l] # << >> => HearingAt(h, b, n)[l] = << << n[l], h[l] \o b[l] >> >>
<1> DEFINE G(m) == IF h[m] = << >> THEN << >> ELSE << << n[m], h[m] \o b[m] >> >>
           f == HearingAt(h, b, n)
<1>1. f = [m \in Line |-> G(m)]
  BY Zenon DEF HearingAt
<1> HIDE DEF G, f
<1>2. f[l] = G(l)
  BY <1>1
<1>3. QED  BY <1>2 DEF G, f

LEMMA HearingNow ==
  ASSUME NEW l \in Line
  PROVE  /\ heard[l] = << >> => Hearing[l] = << >>
         /\ heard[l] # << >> => Hearing[l] = << << had[l], heard[l] \o buffer[l] >> >>
BY HearingIs DEF Hearing

LEMMA HearingNext ==
  ASSUME NEW l \in Line
  PROVE  /\ heard'[l] = << >> => Hearing'[l] = << >>
         /\ heard'[l] # << >> => Hearing'[l] = << << had'[l], heard'[l] \o buffer'[l] >> >>
BY HearingIs DEF Hearing

LEMMA HearingKept ==
  ASSUME NEW l \in Line, heard'[l] = heard[l], had'[l] = had[l], buffer'[l] = buffer[l]
  PROVE  Hearing'[l] = Hearing[l]
<1>1. CASE heard[l] = << >>
  BY <1>1, HearingNow, HearingNext
<1>2. CASE heard[l] # << >>
  <2>1. heard'[l] \o buffer'[l] = heard[l] \o buffer[l]
    OBVIOUS
  <2>2. Hearing[l] = << << had[l], heard[l] \o buffer[l] >> >>
    BY <1>2, HearingNow
  <2>3. Hearing'[l] = << << had'[l], heard'[l] \o buffer'[l] >> >>
    BY <1>2, HearingNext
  <2>4. QED  BY <2>1, <2>2, <2>3
<1>3. QED  BY <1>1, <1>2

LEMMA SdkDoneStep ==
  ASSUME IInv, NEW l \in Line, SdkDone(l)
  PROVE  IInv'
<1> DEFINE c == Spot("heard", l)
           x == << had[l], heard[l] \o buffer[l] >>
<1>1. /\ heard[l] # << >> /\ buffer[l] = << >>
      /\ heard' = [heard EXCEPT ![l] = << >>] /\ had' = [had EXCEPT ![l] = 0]
      /\ asked' = [asked EXCEPT !["sdk"] = << >>]
      /\ UNCHANGED << java, setup, down, up, regular, sdkReceive, lost, buffer, received >>
  BY DEF SdkDone
<1>2. TypeInv /\ StreamInv
  BY DEF IInv
<1>3. Hearing[l] = << x >> /\ Func(Hearing) /\ Func(Hearing')
  BY <1>1, HearingNow, Functions DEF Hearing
<1> HIDE DEF x
<1>4. /\ c \in Places /\ Where[c] = Hearing[l] /\ Num(c, Head(Hearing[l])) = NumOf("sdk")
  BY NumAt, WhereAt DEF NumOf
<1>5. /\ heard'[l] = << >> /\ had'[l] = 0
      /\ \A m \in Line : m # l => heard'[m] = heard[m] /\ had'[m] = had[m]
      /\ heard' \in [Line -> Seq(Byte)] /\ Func(had')
  BY <1>1, <1>2 DEF TypeInv, Func
<1>6. Hearing' = Pop(Hearing, l)
  <2>1. Hearing'[l] = << >>
    BY <1>5, HearingNext
  <2>2. ASSUME NEW m \in Line, m # l PROVE Hearing'[m] = Hearing[m]
    BY <1>1, <1>5, <2>2, HearingKept
  <2>3. Pop(Hearing, l)[l] = << >> /\ \A m \in Line : m # l => Pop(Hearing, l)[m] = Hearing[m]
    BY <1>3 DEF Pop, Func
  <2>4. Func(Pop(Hearing, l))
    BY <1>3, Functions
  <2>5. \A m \in Line : Hearing'[m] = Pop(Hearing, l)[m]
    BY <2>1, <2>2, <2>3
  <2>6. QED  BY <1>3, <2>4, <2>5, SameFunc
<1>7. Where' = Pop(Where, c)
  <2>1. Func(down) /\ Func(up) /\ Func(regular) /\ Func(sdkReceive) /\ Func(Hearing)
    BY <1>2, <1>3 DEF TypeInv
  <2>2. UNCHANGED << down, up, regular, sdkReceive >>
    BY <1>1
  <2>3. QED  BY <1>6, <2>1, <2>2, ViewMoves DEF Where
<1> HIDE DEF c
<1>8. /\ (PlanInv /\ InitInv /\ TokenInv /\ Carried(Where, Opened, ex))'
      /\ asked' = [u \in {"sdk", "blaze"} |-> asked'[u]]
      /\ asked'["sdk"] # << >> => \E e \in SdkExchanges : asked'["sdk"] = << e >>
      /\ asked'["blaze"] # << >> => \E e \in BlazeExchanges : asked'["blaze"] = << e >>
  <2>1. Where[c] # << >>
    BY <1>3, <1>4
  <2>2. QED  BY <1>1, <1>4, <1>7, <2>1, Closing
<1>9. TypeInv'
  BY <1>1, <1>2, <1>5, <1>8 DEF TypeInv, setup
<1>10. StreamInv'
  BY <1>1, <1>2, <1>5 DEF StreamInv
<1>11. QED  BY <1>8, <1>9, <1>10 DEF IInv

LEMMA Two ==
  ASSUME NEW a, NEW b
  PROVE  /\ << >> \o << >> = << >>
         /\ << a >> \o << >> = << a >>
         /\ << a >> \o << b >> = << a, b >>
<1> DEFINE S == {a, b}
<1>1. << >> \o << >> = << >>
  OBVIOUS
<1>2. << a >> \o << >> = << a >>
  <2>1. << a >> \in Seq(S)
    OBVIOUS
  <2>2. QED  BY <2>1, ConcatEmptySeq
<1>3. << a >> \o << b >> = << a, b >>
  <2> DEFINE s == << a >>
             t == << b >>
             r == << a, b >>
  <2>1. /\ s \in Seq(S) /\ t \in Seq(S) /\ r \in Seq(S)
        /\ Len(s) = 1 /\ Len(t) = 1 /\ s[1] = a /\ t[1] = b /\ Len(r) = 2 /\ r[1] = a /\ r[2] = b
    OBVIOUS
  <2> HIDE DEF s, t, r
  <2> DEFINE q == s \o t
  <2>2. /\ q \in Seq(S) /\ Len(q) = Len(s) + Len(t)
        /\ \A i \in 1 .. Len(s) + Len(t) : q[i] = IF i <= Len(s) THEN s[i] ELSE t[i - Len(s)]
    BY <2>1, ConcatProperties
  <2> HIDE DEF q
  <2>3. Len(q) = 2 /\ \A i \in 1 .. Len(q) : q[i] = r[i]
    <3>1. q[1] = s[1] /\ q[2] = t[1] /\ Len(q) = 2
      BY <2>1, <2>2
    <3>2. \A i \in 1 .. 2 : i = 1 \/ i = 2
      OBVIOUS
    <3>3. QED  BY <2>1, <3>1, <3>2
  <2>4. q = r
    BY <2>1, <2>2, <2>3, SeqEqual
  <2>5. QED  BY <2>4 DEF q, s, t, r
<1>4. QED  BY <1>1, <1>2, <1>3

\* What is known of the hubs.
LEMMA HubsAre ==
  ASSUME InitInv
  PROVE  /\ hubs \in Stages
         /\ \A a : Known(hubs, a) # {} =>
              /\ a \in Hubs /\ ModuleAt(hubs, a).line = LineOf(a)
              /\ ModuleAt(hubs, a) \in ToSet(hubs)
         /\ \A h \in ToSet(hubs) :
              /\ h.addr \in Hubs /\ h.first = Commanded[h.addr].first /\ h.count = Commanded[h.addr].count
              /\ h.line = LineOf(h.addr) /\ Known(hubs, h.addr) # {}
<1>1. \/ hub0 = << >> /\ hub1 = << >>
      \/ hub0 = << CtrlHub >> /\ hub1 = << >>
      \/ hub0 = << CtrlHub >> /\ hub1 = << ExHub(LineOf(Ex)) >>
  BY DEF InitInv, HubInv
<1>2. LineOf(Ex) \in Line /\ LineOf(Ctrl) = "serial"
  BY Addresses DEF LineOf, HubOf, Line
<1>3. hubs \in {<< >>, << CtrlHub >>, << CtrlHub, ExHub(LineOf(Ex)) >>}
  <2> DEFINE x == ExHub(LineOf(Ex))
  <2>1. hubs = hub0 \o hub1
    BY DEF hubs
  <2> HIDE DEF x
  <2>2. hubs \in {<< >>, << CtrlHub >>, << CtrlHub, x >>}
    BY <1>1, <2>1, Two DEF x
  <2>3. QED  BY <2>2 DEF x
<1>4. \A i \in DOMAIN hubs : hubs[i] \in {CtrlHub, ExHub(LineOf(Ex))}
  BY <1>3
<1>5. hubs \in Stages
  BY <1>2, <1>3 DEF Stages
<1>6. \A h \in {CtrlHub, ExHub(LineOf(Ex))} :
        /\ h.addr \in Hubs /\ h.first = Commanded[h.addr].first /\ h.count = Commanded[h.addr].count
        /\ h.line = LineOf(h.addr)
  <2>1. /\ CtrlHub.addr = Ctrl /\ CtrlHub.first = Commanded[Ctrl].first
        /\ CtrlHub.count = Commanded[Ctrl].count /\ CtrlHub.line = "serial"
    BY DEF CtrlHub
  <2>2. \A l : /\ ExHub(l).addr = Ex /\ ExHub(l).first = Commanded[Ex].first
               /\ ExHub(l).count = Commanded[Ex].count /\ ExHub(l).line = l
    BY DEF ExHub
  <2>3. QED  BY <1>2, <2>1, <2>2, Addresses
<1>7. \A h \in ToSet(hubs) : h \in {CtrlHub, ExHub(LineOf(Ex))} /\ Known(hubs, h.addr) # {}
  BY <1>4 DEF ToSet, Known
<1>8. ASSUME NEW a, Known(hubs, a) # {}
      PROVE  /\ a \in Hubs /\ ModuleAt(hubs, a).line = LineOf(a)
             /\ ModuleAt(hubs, a) \in ToSet(hubs)
  <2>1. /\ a \in Hubs /\ ModuleAt(hubs, a).addr = a
        /\ \E i \in DOMAIN hubs : ModuleAt(hubs, a) = hubs[i]
    BY <1>5, <1>8, KnownAt
  <2>2. ModuleAt(hubs, a) \in ToSet(hubs)
    BY <2>1 DEF ToSet
  <2>3. QED  BY <1>6, <1>7, <2>1, <2>2
<1>9. QED  BY <1>5, <1>6, <1>7, <1>8

\* The line that write picks is the one that the module's hub is on.
LEMMA LineFound ==
  ASSUME InitInv, PlanInv, vm, NEW a \in Hubs \cup DOMAIN Parent, Routed(ParentOf(a))
  PROVE  ModuleAt(hubs, ParentOf(a)).line = LineFor(ex, a) /\ LineFor(ex, a) \in Line
<1> DEFINE s == servoHubs[1]
           K == Known(s, a)
<1>1. s \in Seq(Servos)
  BY DEF InitInv, PlanInv
<1>2. \A i \in DOMAIN s : s[i].addr \in DOMAIN Parent /\ s[i].parent = Parent[s[i].addr]
  BY <1>1 DEF Servos
<1>3. ParentOf(a) \in Hubs /\ ModuleAt(hubs, ParentOf(a)).line = LineOf(ParentOf(a))
  BY HubsAre DEF Routed
<1>4. ParentOf(a) = HubOf(a)
  <2>1. CASE K = {}
    <3>1. ParentOf(a) = a
      BY <2>1 DEF ParentOf
    <3>2. QED  BY <1>3, <3>1, Addresses DEF HubOf
  <2>2. CASE K # {}
    <3>1. K \subseteq DOMAIN s /\ K \subseteq Nat /\ \A i \in K : s[i].addr = a
      BY <1>1 DEF Known
    <3> HIDE DEF K
    <3>2. \E i \in K : \A j \in K : i <= j
      BY <2>2, <3>1, LeastOf
    <3>3. PICK i \in K : ModuleAt(s, a) = s[i]
      BY <3>2 DEF ModuleAt, K
    <3>4. s[i].parent = Parent[a] /\ a \in DOMAIN Parent
      BY <1>2, <3>1, <3>3
    <3>5. QED  BY <2>2, <3>3, <3>4 DEF ParentOf, HubOf, K
  <2>3. QED  BY <2>1, <2>2
<1>5. HubOf(HubOf(a)) = HubOf(a)
  BY <1>3, <1>4, Addresses DEF HubOf
<1>6. QED  BY <1>3, <1>4, <1>5 DEF LineOf, LineFor, Line

\* A side begins an exchange: its request is on the line of the hub it is for.
LEMMA Opening ==
  ASSUME IInv, NEW l \in Line, NEW w \in {"sdk", "blaze"}, NEW e, asked[w] = << >>,
         w = "sdk" => e \in SdkExchanges, w = "blaze" => e \in BlazeExchanges,
         l = LineFor(ex, e.to), Where' = Push(Where, Spot("down", l), RequestOf(NumOf(w), e)),
         asked' = [asked EXCEPT ![w] = << e >>],
         UNCHANGED << ex, init, tokens >>, running' => running
  PROVE  /\ (TokenInv /\ Carried(Where, Opened, ex))'
         /\ asked'[w] = << e >> /\ \A u \in {"sdk", "blaze"} \ {w} : asked'[u] = asked[u]
         /\ asked' = [u \in {"sdk", "blaze"} |-> asked'[u]]
         /\ asked'["sdk"] # << >> => \E d \in SdkExchanges : asked'["sdk"] = << d >>
         /\ asked'["blaze"] # << >> => \E d \in BlazeExchanges : asked'["blaze"] = << d >>
<1> DEFINE n == NumOf(w)
           v == RequestOf(n, e)
           c == Spot("down", l)
<1>1. TypeInv /\ Carried(Where, Opened, ex) /\ TokenInv
  BY DEF IInv
<1>2. n \in Nums \ {0} /\ Opened[n] = << >>
  BY <1>1, SideNumber
<1>3. Exchanged(e)
  BY ExchangeAssumption DEF Exchanged
<1> HIDE DEF n
<1>4. v[7] = n
  BY <1>2, <1>3, PacketParts
<1> HIDE DEF v
<1>5. c \in Places /\ Num(c, v) = n
  BY <1>4, NumAt
<1>6. /\ Others(Opened, Opened', n) /\ Opened'[n] = << e >> /\ asked'[w] = << e >>
      /\ \A u \in {"sdk", "blaze"} \ {w} : asked'[u] = asked[u]
      /\ asked' = [u \in {"sdk", "blaze"} |-> asked'[u]]
  <2> DEFINE y == << e >>
  <2>1. asked' = [asked EXCEPT ![w] = y] /\ init' = init
    OBVIOUS
  <2> HIDE DEF y
  <2>2. /\ Others(Opened, Opened', NumOf(w)) /\ Opened'[NumOf(w)] = y
        /\ asked'[w] = y /\ \A u \in {"sdk", "blaze"} \ {w} : asked'[u] = asked[u]
        /\ asked' = [u \in {"sdk", "blaze"} |-> asked'[u]]
    BY <1>1, <2>1, SideOpened
  <2>3. QED  BY <2>2 DEF n, y
<1>7. Right(Opened'[n], ex, c, v)
  <2>1. Right(Opened'[n], ex, c, v) <=>
          /\ v[7] \in Nums /\ Opened'[n] # << >> /\ l = LineFor(ex, Opened'[n][1].to)
          /\ v = RequestOf(v[7], Opened'[n][1])
    BY RightDown
  <2>2. Opened'[n][1] = e /\ Opened'[n] # << >> /\ v = RequestOf(n, e)
    BY <1>6 DEF v
  <2>3. QED  BY <1>2, <1>4, <2>1, <2>2
<1> HIDE DEF c
<1>8. /\ Carried(Where', Opened', ex)
      /\ \A d \in Places : \A m : In(Where, d, m) => In(Where', d, m)
  <2>1. Where' = Push(Where, c, v)
    BY DEF c, v, n
  <2>2. QED  BY <1>1, <1>2, <1>5, <1>6, <1>7, <2>1, OpenedBy DEF Others
<1>9. TokenInv'
  BY <1>1, <1>8, TokenKept
<1>10. /\ asked'["sdk"] # << >> => \E d \in SdkExchanges : asked'["sdk"] = << d >>
       /\ asked'["blaze"] # << >> => \E d \in BlazeExchanges : asked'["blaze"] = << d >>
  BY <1>1, <1>6 DEF TypeInv
<1>11. QED  BY <1>6, <1>8, <1>9, <1>10

\* The SDK's packet, decoded and encoded again, is its request with the proxy's number.
LEMMA SdkWriteStep ==
  ASSUME IInv, Alone, NEW e \in SdkExchanges, SdkWrite(e)
  PROVE  IInv'
<1> DEFINE bytes == Frame(e.to, 0, SdkNum, 0, e.id, e.req)
           p == Renumber(FromData(hubs, bytes), ProxyNum)
           dest == ParentOf(e.to)
           l == ModuleAt(hubs, dest).line
<1>1. /\ running /\ asked["sdk"] = << >> /\ hub0 # << >>
      /\ init # "none" => e.id # QueryInterface
      /\ running' = Decodes(hubs, bytes)
      /\ IF Decodes(hubs, bytes) /\ Routed(dest)
         THEN asked' = [asked EXCEPT !["sdk"] = << e >>] /\ down' = Push(down, l, Wire(l, p))
         ELSE UNCHANGED << asked, down >>
      /\ UNCHANGED << java, init, hub0, hub1, threads, tokens, up, regular, sdkReceive, lost, stream >>
  BY DEF SdkWrite, Put, Push
<1>2. TypeInv /\ StreamInv /\ PlanInv /\ InitInv
  BY DEF IInv
<1>3. vm /\ hubs' = hubs /\ LineOf(Ex)' = LineOf(Ex)
  BY <1>1, <1>2 DEF InitInv, hubs, LineOf, java
<1>4. PlanInv'
  BY <1>1, <1>2 DEF PlanInv, Reached, java
<1>5. InitInv' <=> (init # "none" /\ asked'["sdk"] # << >> => asked'["sdk"][1].id # QueryInterface)
                   /\ (asked'["blaze"] # << >> => Known(hubs, asked'["blaze"][1].to) # {})
  BY <1>1, <1>2, <1>3 DEF InitInv, HubInv, java
<1>6. CASE ~ (Decodes(hubs, bytes) /\ Routed(dest))
  <2>1. UNCHANGED << ex, init, lines, stream, tokens >>
    BY <1>1, <1>6 DEF lines, java
  <2>2. (TypeInv /\ StreamInv /\ TokenInv /\ Carried(Where, Opened, ex))'
    BY <1>1, <2>1, LinesIdle
  <2>3. InitInv'
    BY <1>2, <1>5, <2>1 DEF InitInv, lines
  <2>4. QED  BY <1>4, <2>2, <2>3 DEF IInv
<1>7. CASE Decodes(hubs, bytes) /\ Routed(dest)
  <2>1. e.to \in Hubs \cup DOMAIN Parent
    BY ExchangeAssumption
  <2>2. l = LineFor(ex, e.to) /\ l \in Line
    BY <1>2, <1>3, <1>7, <2>1, LineFound
  <2>3. hubs \in Stages
    BY <1>2, HubsAre
  <2>4. Wire(l, p) = RequestOf(ProxyNum, e)
    BY <1>7, <2>3, RequestKept DEF RequestOf
  <2> HIDE DEF bytes, p, dest, l
  <2> DEFINE v == RequestOf(ProxyNum, e)
  <2>5. /\ asked' = [asked EXCEPT !["sdk"] = << e >>] /\ down' = Push(down, l, v)
        /\ UNCHANGED << ex, init, tokens, up, regular, sdkReceive, Hearing, stream >>
    BY <1>1, <1>7, <2>4 DEF java, stream, Hearing
  <2> HIDE DEF v
  <2>6. Where' = Push(Where, Spot("down", l), v)
    <3>1. Func(down) /\ Func(up) /\ Func(regular) /\ Func(sdkReceive) /\ Func(Hearing)
      BY <1>2, Functions DEF TypeInv, Hearing
    <3>2. QED  BY <2>2, <2>5, <3>1, ViewMoves DEF Where
  <2>7. /\ (TokenInv /\ Carried(Where, Opened, ex))'
        /\ asked'["sdk"] = << e >> /\ \A u \in {"sdk", "blaze"} \ {"sdk"} : asked'[u] = asked[u]
        /\ asked' = [u \in {"sdk", "blaze"} |-> asked'[u]]
        /\ asked'["sdk"] # << >> => \E d \in SdkExchanges : asked'["sdk"] = << d >>
        /\ asked'["blaze"] # << >> => \E d \in BlazeExchanges : asked'["blaze"] = << d >>
    <3>1. v = RequestOf(NumOf("sdk"), e)
      BY DEF v, NumOf
    <3>2. QED  BY <1>1, <2>2, <2>5, <2>6, <3>1, Opening
  <2>8. InitInv'
    BY <1>1, <1>2, <1>5, <2>7 DEF InitInv
  <2>9. TypeInv'
    BY <1>2, <2>2, <2>5, <2>7, Functions DEF TypeInv, stream
  <2>10. StreamInv'
    BY <1>2, <2>5 DEF StreamInv, stream
  <2>11. QED  BY <1>4, <2>7, <2>8, <2>9, <2>10 DEF IInv
<1>8. QED  BY <1>6, <1>7

LEMMA BlazeSendStep ==
  ASSUME IInv, NEW h \in ToSet(hubs), NEW e \in BlazeExchanges, BlazeSend(h, e)
  PROVE  IInv'
<1> DEFINE key == e.id - Commanded[e.to].first
           lay == LynxLayout(key)
           p == Renumber(NewFull(lay, h.first + key, Parse(lay.fields, e.req), h.addr, 0, 0, 0), BlazeNum)
           l == h.line
           v == RequestOf(BlazeNum, e)
<1>1. /\ running /\ asked["blaze"] = << >> /\ h.addr = e.to
      /\ asked' = [asked EXCEPT !["blaze"] = << e >>]
      /\ down' = Push(down, l, Wire(l, p))
      /\ UNCHANGED << java, setup, up, regular, sdkReceive, lost, stream >>
  BY DEF BlazeSend, Put, Push
<1>2. TypeInv /\ StreamInv /\ PlanInv /\ InitInv
  BY DEF IInv
<1>3. vm /\ hubs' = hubs /\ LineOf(Ex)' = LineOf(Ex)
  BY <1>1, <1>2 DEF InitInv, hubs, LineOf, java, setup
<1>4. h.first = Commanded[e.to].first /\ l = LineOf(e.to) /\ Known(hubs, e.to) # {}
  BY <1>1, <1>2, HubsAre
<1>5. l = LineFor(ex, e.to) /\ l \in Line
  BY <1>4 DEF LineOf, LineFor, Line
<1>6. Wire(l, p) = v
  BY <1>1, <1>4, CommandSent DEF RequestOf
<1> HIDE DEF p, lay, key, l, v
<1>7. /\ asked' = [asked EXCEPT !["blaze"] = << e >>] /\ down' = Push(down, l, v)
      /\ UNCHANGED << ex, init, tokens, running, up, regular, sdkReceive, Hearing, stream >>
  BY <1>1, <1>6 DEF java, setup, stream, Hearing
<1>8. Where' = Push(Where, Spot("down", l), v)
  <2>1. Func(down) /\ Func(up) /\ Func(regular) /\ Func(sdkReceive) /\ Func(Hearing)
    BY <1>2, Functions DEF TypeInv, Hearing
  <2>2. QED  BY <1>5, <1>7, <2>1, ViewMoves DEF Where
<1>9. /\ (TokenInv /\ Carried(Where, Opened, ex))'
      /\ asked'["blaze"] = << e >> /\ \A u \in {"sdk", "blaze"} \ {"blaze"} : asked'[u] = asked[u]
      /\ asked' = [u \in {"sdk", "blaze"} |-> asked'[u]]
      /\ asked'["sdk"] # << >> => \E d \in SdkExchanges : asked'["sdk"] = << d >>
      /\ asked'["blaze"] # << >> => \E d \in BlazeExchanges : asked'["blaze"] = << d >>
  <2>1. v = RequestOf(NumOf("blaze"), e)
    BY DEF v, NumOf
  <2>2. QED  BY <1>1, <1>5, <1>7, <1>8, <2>1, Opening
<1>10. PlanInv'
  BY <1>1, <1>2 DEF PlanInv, Reached, java, setup
<1>11. InitInv'
  BY <1>1, <1>2, <1>3, <1>4, <1>9 DEF InitInv, HubInv, java, setup
<1>12. TypeInv'
  BY <1>2, <1>5, <1>7, <1>9, Functions DEF TypeInv, stream
<1>13. StreamInv'
  BY <1>2, <1>7 DEF StreamInv, stream
<1>14. QED  BY <1>9, <1>10, <1>11, <1>12, <1>13 DEF IInv

\* What a read takes of the bytes and what it leaves are the bytes.
LEMMA Split ==
  ASSUME NEW S, NEW s \in Seq(S), s # << >>, NEW n \in Nat \ {0}
  PROVE  LET a == SubSeq(s, 1, IF n < Len(s) THEN n ELSE Len(s))
             b == SubSeq(s, n + 1, Len(s))
         IN a \in Seq(S) /\ b \in Seq(S) /\ a # << >> /\ a \o b = s
<1> DEFINE k == Len(s)
           m == IF n < k THEN n ELSE k
           a == SubSeq(s, 1, m)
           b == SubSeq(s, n + 1, k)
<1>1. k \in Nat /\ k >= 1 /\ \A i \in 1 .. k : s[i] \in S
  OBVIOUS
<1>2. m \in Nat /\ m >= 1 /\ m <= k /\ m <= n
  BY <1>1
<1> HIDE DEF k
<1>3. a \in Seq(S) /\ Len(a) = m /\ \A i \in 1 .. m : a[i] = s[i]
  <2> HIDE DEF m
  <2>1. \A i \in 1 .. m : s[i] \in S
    BY <1>1, <1>2
  <2>2. /\ a \in Seq(S)
        /\ Len(a) = IF 1 <= m THEN m - 1 + 1 ELSE 0
        /\ \A i \in 1 .. m - 1 + 1 : a[i] = s[1 + i - 1]
    <3>1. m \in Int /\ s \in Seq(S)  BY <1>2
    <3>2. QED  BY ONLY <2>1, <3>1, SubSeqProperties DEF a
  <2> HIDE DEF a
  <2>3. QED  BY <1>2, <2>2
<1>4. b \in Seq(S) /\ Len(b) = k - m /\ \A i \in 1 .. k - m : b[i] = s[m + i]
  <2>1. \A i \in n + 1 .. k : s[i] \in S
    BY <1>1
  <2>2. /\ b \in Seq(S)
        /\ Len(b) = IF n + 1 <= k THEN k - (n + 1) + 1 ELSE 0
        /\ \A i \in 1 .. k - (n + 1) + 1 : b[i] = s[n + 1 + i - 1]
    <3>1. n + 1 \in Int /\ k \in Int /\ s \in Seq(S)  BY <1>1
    <3>2. QED  BY ONLY <2>1, <3>1, SubSeqProperties DEF b
  <2> HIDE DEF b
  <2>3. QED  BY <1>1, <2>2
<1> HIDE DEF a, b, m
<1>5. a \o b = s
  <2> DEFINE q == a \o b
  <2>1. /\ q \in Seq(S) /\ Len(q) = Len(a) + Len(b)
        /\ \A i \in 1 .. Len(a) + Len(b) : q[i] = IF i <= Len(a) THEN a[i] ELSE b[i - Len(a)]
    BY <1>3, <1>4, ConcatProperties
  <2> HIDE DEF q
  <2>2. Len(q) = k /\ \A i \in 1 .. k : q[i] = s[i]
    <3>1. m + (k - m) = k
      BY <1>1, <1>2
    <3>2. Len(q) = k /\ \A i \in 1 .. k : q[i] = IF i <= m THEN a[i] ELSE b[i - m]
      BY <1>3, <1>4, <2>1, <3>1
    <3>3. ASSUME NEW i \in 1 .. k PROVE q[i] = s[i]
      <4>1. CASE i <= m
        BY <1>2, <1>3, <3>2, <4>1
      <4>2. CASE ~ (i <= m)
        <5>1. i - m \in 1 .. k - m /\ m + (i - m) = i
          BY <1>1, <1>2, <4>2
        <5>2. QED  BY <1>4, <3>2, <4>2, <5>1
      <4>3. QED  BY <4>1, <4>2
    <3>4. QED  BY <3>2, <3>3
  <2>3. q = s
    BY <2>1, <2>2, SeqEqual DEF k
  <2>4. QED  BY <2>3 DEF q
<1>6. a # << >>
  BY <1>2, <1>3
<1>7. QED  BY <1>3, <1>4, <1>5, <1>6 DEF a, b, m, k

\* The place where a reader of the SDK begins with an answer of n bytes.
LEMMA Begun ==
  ASSUME NEW r \in Readers
  PROVE  r.asks \in Nat \ {0} /\ r.had \in 0 .. 4
         /\ r.had = CASE r.asks = 1 -> 0 [] r.asks # 1 /\ r.asks = 2 -> 2 [] OTHER -> 4
BY ReaderAssumption

LEMMA DroppedIs ==
  ASSUME NEW l, NEW n
  PROVE  /\ received[l] => Dropped(l, n) = 0
         /\ ~ received[l] => Dropped(l, n) = CASE n = 1 -> 0 [] n # 1 /\ n = 2 -> 2 [] OTHER -> 4
BY DEF Dropped

\* Proxy::read gives the SDK the next bytes of the answer it is in, or the first of the next
\* one, from where its reader is.
LEMMA TakeStep ==
  ASSUME IInv, NEW l \in Line, NEW n \in Nat \ {0}, NEW k, Take(l, n),
         received[l] => k = had[l], ~ received[l] => k = Dropped(l, n) /\ k \in 0 .. 4,
         buffer[l] # << >> \/ sdkReceive[l] # << >>,
         Func(had'), had'[l] = k, \A m \in Line : m # l => had'[m] = had[m],
         UNCHANGED << java, setup, down, up, regular, asked, lost >>
  PROVE  IInv'
<1> DEFINE bytes == IF buffer[l] = << >> THEN IntoBytes(Head(sdkReceive[l])) ELSE buffer[l]
           left  == SubSeq(bytes, Dropped(l, n) + 1, Len(bytes))
           a     == SubSeq(left, 1, IF n < Len(left) THEN n ELSE Len(left))
           b     == SubSeq(left, n + 1, Len(left))
           c     == Spot("sdk", l)
           d     == Spot("heard", l)
<1>1. /\ IF buffer[l] = << >> THEN sdkReceive' = Pop(sdkReceive, l) ELSE UNCHANGED sdkReceive
      /\ heard' = [heard EXCEPT ![l] = @ \o a] /\ buffer' = [buffer EXCEPT ![l] = b]
      /\ received' = [received EXCEPT ![l] = TRUE]
  BY DEF Take, Drop, Pop
<1>2. /\ TypeInv /\ StreamInv /\ PlanInv /\ InitInv /\ TokenInv /\ Carried(Where, Opened, ex)
      /\ heard[l] \in Seq(Byte) /\ buffer[l] \in Seq(Byte)
      /\ c \in Places /\ d \in Places /\ Where[c] = sdkReceive[l] /\ Where[d] = Hearing[l]
  BY NumAt, WhereAt DEF IInv, TypeInv
<1> HIDE DEF c, d
<1>3. /\ left \in Seq(Byte) /\ left # << >>
      /\ buffer[l] # << >> => left = buffer[l] /\ k = had[l] /\ heard[l] # << >>
      /\ buffer[l] = << >> => /\ heard[l] = << >>
                             /\ Right(Opened[ProxyNum], ex, d, << k, left >>)
  <2>1. CASE buffer[l] # << >>
    <3>1. heard[l] # << >> /\ received[l]
      BY <1>2, <2>1 DEF StreamInv
    <3>2. Dropped(l, n) = 0 /\ bytes = buffer[l]
      BY <2>1, <3>1, DroppedIs
    <3>3. left = SubSeq(buffer[l], 1, Len(buffer[l]))
      BY <3>2
    <3>4. left = buffer[l]
      BY <1>2, <3>3, SubSeqFull
    <3> HIDE DEF left
    <3>5. QED  BY <1>2, <2>1, <3>1, <3>4
  <2>2. CASE buffer[l] = << >>
    <3> DEFINE x == Head(sdkReceive[l])
               e == Opened[ProxyNum][1]
               s == ToSdk(e)
    <3>1. sdkReceive[l] # << >> /\ bytes = IntoBytes(x)
      BY <2>2
    <3>2. Right(Opened[ProxyNum], ex, c, x) /\ In(Where, c, ProxyNum)
      <4>1. Num(c, x) = ProxyNum
        BY NumAt DEF c
      <4>2. QED  BY <1>2, <3>1, <4>1, Removed
    <3>3. Opened[ProxyNum] # << >> /\ l = LineFor(ex, e.to) /\ IntoBytes(x) = s
      <4>1. Right(Opened[ProxyNum], ex, Spot("sdk", l), x) <=>
              Opened[ProxyNum] # << >> /\ l = LineFor(ex, e.to) /\ IntoBytes(x) = s
        BY RightSdk
      <4>2. QED  BY <3>2, <4>1 DEF c
    <3>4. heard[l] = << >>
      <4> SUFFICES ASSUME heard[l] # << >> PROVE FALSE
        OBVIOUS
      <4>1. Hearing[l] = << << had[l], heard[l] \o buffer[l] >> >>
        BY HearingNow
      <4>2. 1 \in DOMAIN Hearing[l]
        BY <4>1
      <4>3. In(Where, d, ProxyNum)
        BY <1>2, <4>2, NumAt DEF In, d
      <4>4. c # d
        BY DEF c, d, Spot
      <4>5. QED  BY <1>2, <3>2, <4>3, <4>4 DEF Carried, Unique, In
    <3>5. had[l] = 0
      BY <1>2, <3>4 DEF StreamInv
    <3>6. Dropped(l, n) = k /\ k \in 0 .. 4
      BY <3>5, DroppedIs
    <3>7. ProxyNum \in Nums
      BY DEF Nums
    <3>8. s \in Seq(Byte) /\ Len(s) >= 11
      BY <1>2, <3>3, <3>7, OpenExchange, PacketParts
    <3>9. left = SubSeq(s, k + 1, Len(s))
      BY <3>1, <3>3, <3>6
    <3> HIDE DEF left, s, x, e
    <3>10. left \in Seq(Byte) /\ left # << >>
      <4> DEFINE j == Len(s)
      <4>1. k \in Nat /\ k + 1 <= j /\ j \in Nat /\ \A i \in 1 .. j : s[i] \in Byte
        BY <3>6, <3>8
      <4> HIDE DEF j
      <4>2. \A i \in k + 1 .. j : s[i] \in Byte
        BY <4>1
      <4>3. /\ SubSeq(s, k + 1, j) \in Seq(Byte)
            /\ Len(SubSeq(s, k + 1, j)) = IF k + 1 <= j THEN j - (k + 1) + 1 ELSE 0
        <5>1. k + 1 \in Int /\ j \in Int
          BY <4>1
        <5>2. QED  BY ONLY <4>2, <5>1, SubSeqProperties
      <4>4. left \in Seq(Byte) /\ Len(left) > 0
        BY <3>9, <4>1, <4>3 DEF j
      <4>5. QED  BY <4>4
    <3>11. Right(Opened[ProxyNum], ex, d, << k, left >>)
      <4> DEFINE v == << k, left >>
      <4>1. v[1] = k /\ v[2] = left
        BY Pair
      <4> DEFINE o == Opened[ProxyNum]
      <4>2. o # << >> /\ l = LineFor(ex, o[1].to) /\ left = SubSeq(ToSdk(o[1]), k + 1, Len(ToSdk(o[1])))
        BY <3>3, <3>9 DEF e, s
      <4> HIDE DEF v, o
      <4>3. Right(o, ex, Spot("heard", l), v) <=>
              /\ o # << >> /\ l = LineFor(ex, o[1].to)
              /\ v[2] = SubSeq(ToSdk(o[1]), v[1] + 1, Len(ToSdk(o[1])))
        BY RightHeard
      <4>4. Right(o, ex, Spot("heard", l), v)
        BY <4>1, <4>2, <4>3
      <4>5. QED  BY <4>4 DEF d, v, o
    <3>12. QED  BY <2>2, <3>4, <3>10, <3>11
  <2>3. QED  BY <2>1, <2>2
<1> HIDE DEF left
<1>4. a \in Seq(Byte) /\ b \in Seq(Byte) /\ a # << >> /\ a \o b = left
  BY <1>3, Split
<1> HIDE DEF a, b
<1>5. /\ heard'[l] = heard[l] \o a /\ buffer'[l] = b /\ received'[l]
      /\ \A m \in Line : m # l => /\ heard'[m] = heard[m] /\ buffer'[m] = buffer[m]
                                /\ received'[m] = received[m]
      /\ Func(received')
  BY <1>1, <1>2 DEF TypeInv, Func
<1>6. heard'[l] \in Seq(Byte) /\ heard'[l] # << >> /\ heard'[l] \o buffer'[l] = heard[l] \o left
  <2>1. heard[l] \o a \in Seq(Byte) /\ Len(heard[l] \o a) = Len(heard[l]) + Len(a)
    BY <1>2, <1>4, ConcatProperties
  <2>2. Len(a) # 0 /\ Len(a) \in Nat /\ Len(heard[l]) \in Nat
    BY <1>2, <1>4
  <2>3. heard[l] \o a # << >>
    BY <2>1, <2>2
  <2>4. (heard[l] \o a) \o b = heard[l] \o (a \o b)
    <3> DEFINE h == heard[l]
    <3>1. h \in Seq(Byte) /\ a \in Seq(Byte) /\ b \in Seq(Byte)
      BY <1>2, <1>4
    <3> DEFINE S == Byte
    <3> HIDE DEF h, S
    <3>2. (h \o a) \o b = h \o (a \o b)
      BY ONLY <3>1, ConcatAssociative DEF S
    <3>3. QED  BY <3>2 DEF h
  <2>5. QED  BY <1>4, <1>5, <2>1, <2>3, <2>4
<1>7. TypeInv'
  <2>1. heard' \in [Line -> Seq(Byte)] /\ buffer' \in [Line -> Seq(Byte)]
    BY <1>1, <1>2, <1>4, <1>5, <1>6 DEF TypeInv
  <2>2. Func(sdkReceive')
    <3>1. Func(sdkReceive) /\ Func(Pop(sdkReceive, l))
      BY <1>2, Functions DEF TypeInv
    <3>2. sdkReceive' \in {sdkReceive, Pop(sdkReceive, l)}
      BY <1>1
    <3>3. QED  BY <3>1, <3>2
  <2>3. QED  BY <1>2, <1>5, <2>1, <2>2 DEF TypeInv, setup
<1>8. StreamInv'
  BY <1>2, <1>5, <1>6 DEF StreamInv
<1>9. Hearing'[l] = << << k, heard[l] \o left >> >> /\ \A m \in Line : m # l => Hearing'[m] = Hearing[m]
  <2>1. Hearing'[l] = << << k, heard[l] \o left >> >>
    <3>1. Hearing'[l] = << << had'[l], heard'[l] \o buffer'[l] >> >>
      BY <1>6, HearingNext
    <3>2. QED  BY <1>6, <3>1
  <2>2. ASSUME NEW m \in Line, m # l PROVE Hearing'[m] = Hearing[m]
    BY <1>5, <2>2, HearingKept
  <2>3. QED  BY <2>1, <2>2
<1>10. Func(Hearing) /\ Func(Hearing')
  BY Functions DEF Hearing
<1>11. Opened' = Opened /\ ex' = ex
  BY DEF Opened, setup, java
<1>12. (TokenInv /\ Carried(Where, Opened, ex))'
  <2>1. CASE buffer[l] # << >>
    <3>1. Hearing[l] = << << k, heard[l] \o left >> >>
      BY <1>3, <2>1, HearingNow
    <3>2. \A m \in Line : Hearing'[m] = Hearing[m]
      BY <1>9, <3>1
    <3>3. Hearing' = Hearing
      BY <1>10, <3>2, SameFunc
    <3>4. Where' = Where
      BY <1>1, <2>1, <3>3 DEF Where
    <3>5. TokenInv'
      BY <1>2, <3>4, TokenKept DEF setup
    <3>6. QED  BY <1>2, <1>11, <3>4, <3>5
  <2>2. CASE buffer[l] = << >>
    <3> DEFINE v == << k, left >>
    <3>1. heard[l] = << >> /\ << >> \o left = left
      BY <1>3, <2>2, ConcatEmptySeq
    <3>2. Hearing[l] = << >> /\ Hearing'[l] = << v >>
      BY <1>9, <3>1, HearingNow
    <3>3. Right(Opened[ProxyNum], ex, d, v)
      BY <1>3, <2>2
    <3> HIDE DEF v
    <3>4. Hearing' = Push(Hearing, l, v)
      <4>1. Push(Hearing, l, v)[l] = << v >> /\ \A m \in Line : m # l => Push(Hearing, l, v)[m] = Hearing[m]
        BY <1>10, <3>2 DEF Push, Func
      <4>2. \A m \in Line : Hearing'[m] = Push(Hearing, l, v)[m]
        BY <1>9, <3>2, <4>1
      <4>3. Func(Push(Hearing, l, v))
        BY <1>10, Functions
      <4>4. QED  BY <1>10, <4>2, <4>3, SameFunc
    <3>5. Where' = Push(Pop(Where, c), d, v)
      <4> DEFINE s == Pop(sdkReceive, l)
      <4>1. Func(down) /\ Func(up) /\ Func(regular) /\ Func(sdkReceive) /\ Func(Hearing) /\ Func(s)
        BY <1>2, <1>10, Functions DEF TypeInv
      <4>2. View(down, up, regular, s, Hearing) = Pop(Where, c)
        BY <4>1, ViewMoves DEF Where, c
      <4>3. sdkReceive' = s /\ UNCHANGED << down, up, regular >>
        BY <1>1, <2>2
      <4> HIDE DEF s
      <4>4. View(down, up, regular, s, Push(Hearing, l, v)) = Push(Pop(Where, c), d, v)
        BY <4>1, <4>2, ViewMoves DEF d
      <4>5. QED  BY <3>4, <4>3, <4>4 DEF Where
    <3>6. /\ Carried(Where', Opened, ex)
          /\ \A f \in Places : \A m : m # ProxyNum /\ In(Where, f, m) => In(Where', f, m)
      <4>1. sdkReceive[l] # << >> /\ Num(c, Head(sdkReceive[l])) = ProxyNum /\ Num(d, v) = ProxyNum
        BY <2>2, NumAt DEF c, d
      <4>2. QED  BY <1>2, <3>3, <3>5, <4>1, MovedOn
    <3>7. TokenInv'
      <4>1. ProxyNum # 0
        BY OpenedAt
      <4>2. QED  BY <1>2, <3>6, <4>1, TokenKept DEF setup
    <3>8. QED  BY <1>11, <3>6, <3>7
  <2>3. QED  BY <2>1, <2>2
<1>13. PlanInv'
  BY <1>2 DEF PlanInv, Reached, java, setup
<1>14. InitInv'
  <2>1. hubs' = hubs /\ LineOf(Ex)' = LineOf(Ex)
    BY DEF hubs, LineOf, java, setup
  <2>2. QED  BY <1>2, <2>1 DEF InitInv, HubInv, java, setup
<1>15. QED  BY <1>7, <1>8, <1>12, <1>13, <1>14 DEF IInv

LEMMA SdkReadStep ==
  ASSUME IInv, NEW connection, SdkRead(connection)
  PROVE  IInv'
<1>1. TypeInv /\ StreamInv /\ InitInv /\ hub0 # << >>
  BY DEF IInv, SdkRead
<1>2. ReadLine(connection) \in Line
  <2>1. CASE Routed(connection)
    <3>1. ReadLine(connection) = LineOf(connection)
      BY <1>1, <2>1, HubsAre DEF ReadLine, Routed
    <3>2. QED  BY <3>1 DEF LineOf, Line
  <2>2. CASE ~ Routed(connection)
    <3>1. hub0 = << CtrlHub >>
      BY <1>1 DEF InitInv
    <3>2. ReadLine(connection) = "serial"
      BY <2>2, <3>1 DEF ReadLine, CtrlHub
    <3>3. QED  BY <3>2 DEF Line
  <2>3. QED  BY <2>1, <2>2
<1>3. PICK l \in Line : l = ReadLine(connection)
  BY <1>2
<1>4. /\ buffer[l] # << >> \/ sdkReceive[l] # << >>
      /\ \/ received[l] /\ Take(l, Asks(l)) /\ UNCHANGED had
         \/ /\ ~ received[l]
            /\ \E r \in Readers : Take(l, r.asks) /\ had' = [had EXCEPT ![l] = r.had]
      /\ UNCHANGED << java, setup, down, up, regular, asked, lost >>
  BY <1>3 DEF SdkRead, Take
<1>5. \E n \in Nat \ {0} : \E k :
                              /\ Take(l, n)
                              /\ received[l] => k = had[l]
                              /\ ~ received[l] => k = Dropped(l, n) /\ k \in 0 .. 4
                              /\ Func(had') /\ had'[l] = k
                              /\ \A m \in Line : m # l => had'[m] = had[m]
  <2>1. CASE received[l] /\ Take(l, Asks(l)) /\ UNCHANGED had
    <3>1. Asks(l) \in Nat \ {0}
      BY StartupAssumption DEF Asks
    <3>2. QED  BY <1>1, <2>1, <3>1 DEF TypeInv
  <2>2. CASE ~ received[l] /\ \E r \in Readers : Take(l, r.asks) /\ had' = [had EXCEPT ![l] = r.had]
    <3>1. PICK r \in Readers : Take(l, r.asks) /\ had' = [had EXCEPT ![l] = r.had]
      BY <2>2
    <3>2. r.asks \in Nat \ {0} /\ r.had \in 0 .. 4 /\ r.had = Dropped(l, r.asks)
      BY <2>2, Begun, DroppedIs
    <3>3. Func(had') /\ had'[l] = r.had /\ \A m \in Line : m # l => had'[m] = had[m]
      BY <1>1, <3>1 DEF TypeInv, Func
    <3>4. QED  BY <2>2, <3>1, <3>2, <3>3
  <2>3. QED  BY <1>4, <2>1, <2>2
<1>6. QED  BY <1>4, <1>5, TakeStep

\* What the query's token says.
LEMMA TokenSays ==
  ASSUME IInv, running
  PROVE  /\ init = "none" => tokens = 0
         /\ \A k \in {"down", "up", "regular"}, l \in Line :
              In(Where, Spot(k, l), 0) =>
                init # "none" /\ l = Waiting /\ tokens = IF k = "regular" THEN 0 ELSE 1
<1>1. TypeInv /\ Carried(Where, Opened, ex) /\ TokenInv
  BY DEF IInv
<1>2. ASSUME NEW k \in {"down", "up", "regular"}, NEW l \in Line, In(Where, Spot(k, l), 0)
      PROVE  init # "none" /\ l = Waiting /\ tokens = IF k = "regular" THEN 0 ELSE 1
  <2>1. Spot(k, l) \in Places
    BY NumAt
  <2>2. init # "none"
    <3>1. 0 \in Nums /\ Opened[0] # << >>
      BY <1>1, <1>2, <2>1, NotOpen DEF Nums
    <3>2. QED  BY <1>1, <3>1, OpenExchange
  <2>3. PICK j \in {"down", "up", "regular"} :
          In(Where, Spot(j, Waiting), 0) /\ tokens = IF j = "regular" THEN 0 ELSE 1
    BY <1>1, <2>2 DEF TokenInv
  <2>4. Waiting \in Line
    BY DEF Waiting, Line
  <2>5. Spot(j, Waiting) \in Places
    BY <2>4, NumAt
  <2>6. Spot(j, Waiting) = Spot(k, l)
    BY <1>1, <1>2, <2>1, <2>3, <2>5 DEF Carried, Unique, In
  <2>7. j = k /\ Waiting = l
    BY <2>6 DEF Spot
  <2>8. QED  BY <2>2, <2>3, <2>7
<1>3. QED  BY <1>1, <1>2 DEF TokenInv

\* What the read thread makes of an answer, by its number.
LEMMA ReadStep ==
  ASSUME IInv, NEW l \in Line, ReadThread(l)
  PROVE  IInv'
<1> DEFINE c == Spot("up", l)
           bytes == Head(up[l])
           n == bytes[7]
           e == Opened[n][1]
           p == FromData(hubs, bytes)
           fine == Decodes(hubs, bytes) /\ (hub1 # << >> => hub0 # << >>)
<1>1. /\ running /\ up[l] # << >> /\ up' = Pop(up, l) /\ running' = fine
      /\ IF fine /\ Valid(bytes) THEN ReadProxy(l, p)
         ELSE UNCHANGED << tokens, regular, sdkReceive >>
      /\ UNCHANGED << java, init, hub0, hub1, threads, down, asked, lost, stream >>
  BY DEF ReadThread, Drop, Pop
<1>2. /\ TypeInv /\ StreamInv /\ PlanInv /\ InitInv /\ TokenInv /\ Carried(Where, Opened, ex)
      /\ c \in Places /\ Where[c] = up[l] /\ Num(c, bytes) = n
  BY NumAt, WhereAt DEF IInv
<1>3. In(Where, c, n) /\ n \in Nums /\ Opened[n] # << >> /\ l = LineFor(ex, e.to) /\ bytes = AnswerOf(n, e)
  <2>1. Right(Opened[n], ex, c, bytes) /\ In(Where, c, n)
    BY <1>1, <1>2, Removed
  <2>2. QED  BY <2>1, RightUp
<1>4. Exchanged(e) /\ Valid(bytes) /\ vm /\ hubs \in Stages
  BY <1>1, <1>2, <1>3, OpenExchange, PacketParts, HubsAre DEF InitInv
<1>5. PlanInv' /\ StreamInv'
  BY <1>1, <1>2 DEF PlanInv, Reached, StreamInv, java, stream
<1>6. InitInv'
  <2>1. hubs' = hubs /\ LineOf(Ex)' = LineOf(Ex) /\ vm'
    BY <1>1, <1>4 DEF hubs, LineOf, java
  <2>2. QED  BY <1>1, <1>2, <2>1 DEF InitInv, HubInv, java
<1>7. /\ Hearing' = Hearing /\ Opened' = Opened /\ down' = down /\ ex' = ex
      /\ Func(down) /\ Func(up) /\ Func(regular) /\ Func(sdkReceive) /\ Func(Hearing)
      /\ Func(Pop(up, l))
  BY <1>1, <1>2, Functions DEF Hearing, Opened, TypeInv, java, stream
<1>8. View(down, up', regular, sdkReceive, Hearing) = Pop(Where, c)
  BY <1>1, <1>7, ViewMoves DEF Where
<1>9. /\ fine /\ p.id = QueryInterfaceResponse /\ tokens > 0 =>
           tokens' = tokens - 1 /\ regular' = Push(regular, l, p) /\ sdkReceive' = sdkReceive
      /\ fine /\ ~ (p.id = QueryInterfaceResponse /\ tokens > 0) /\ p.ref = ProxyNum =>
           /\ sdkReceive' = Push(sdkReceive, l, [p EXCEPT !.msg = SdkNum, !.ref = SdkNum])
           /\ tokens' = tokens /\ regular' = regular
      /\ fine /\ ~ (p.id = QueryInterfaceResponse /\ tokens > 0) /\ p.ref # ProxyNum =>
           regular' = Push(regular, l, p) /\ tokens' = tokens /\ sdkReceive' = sdkReceive
  <2>1. fine => ReadProxy(l, p)
    BY <1>1, <1>4
  <2> HIDE DEF fine, p
  <2>2. QED  BY <2>1 DEF ReadProxy, IsResponseData, Put, Push
<1>10. CASE ~ fine
  <2>1. Where' = Pop(Where, c) /\ UNCHANGED << tokens, regular, sdkReceive >> /\ ~ running'
    BY <1>1, <1>7, <1>8, <1>10 DEF Where
  <2>2. Carried(Where', Opened, ex)
    BY <1>1, <1>2, <2>1, Removed
  <2>3. TypeInv'
    BY <1>1, <1>2, <1>7, <2>1 DEF TypeInv, stream
  <2>4. TokenInv'
    BY <2>1 DEF TokenInv
  <2>5. QED  BY <1>5, <1>6, <1>7, <2>2, <2>3, <2>4 DEF IInv
<1>11. CASE fine /\ n = 0
  <2> DEFINE d == Spot("regular", l)
  <2>1. e = QueryOf(Target(init)) /\ Target(init) \in Hubs /\ init # "none"
    BY <1>2, <1>3, <1>11, OpenExchange
  <2>2. e.to = Target(init) /\ e.rid = QueryInterfaceResponse /\ e.rsp = RangeOf(e.to)
    BY <2>1, QueryIsExchange
  <2>3. bytes = Frame(0, e.to, 0, 0, QueryInterfaceResponse, RangeOf(e.to))
    BY <1>3, <1>11, <2>2 DEF AnswerOf
  <2>4. /\ p.id = QueryInterfaceResponse /\ p.ref = 0
        /\ p.values = << Commanded[e.to].first, Commanded[e.to].count >>
    BY <2>1, <2>2, <2>3, QueryAnswerRead
  <2>5. l = Waiting /\ tokens = 1
    BY <1>1, <1>3, <1>11, TokenSays
  <2> HIDE DEF p, n, e, bytes, c, fine
  <2>6. tokens' = 0 /\ regular' = Push(regular, l, p) /\ sdkReceive' = sdkReceive
    BY <1>11, <1>9, <2>4, <2>5
  <2>7. d \in Places /\ Num(d, p) = 0 /\ Right(Opened[n], ex, d, p)
    <3>1. Right(Opened[n], ex, Spot("regular", l), p) <=>
            /\ p.ref \in Nums \ {ProxyNum} /\ Opened[n] # << >> /\ l = LineFor(ex, Opened[n][1].to)
            /\ p.id = Opened[n][1].rid
            /\ p.ref = 0 => p.values = << Commanded[Opened[n][1].to].first, Commanded[Opened[n][1].to].count >>
            /\ p.ref = BlazeNum => CommandAnswer(p, Opened[n][1])
      BY RightRegular
    <3>2. 0 \in Nums \ {ProxyNum} /\ 0 # BlazeNum
      BY OpenedAt
    <3>3. QED  BY <1>3, <2>2, <2>4, <3>1, <3>2, NumAt DEF e
  <2> HIDE DEF d
  <2>8. Where' = Push(Pop(Where, c), d, p)
    BY <1>1, <1>7, <1>8, <2>6, ViewMoves DEF Where, d
  <2>9. Carried(Where', Opened, ex) /\ In(Where', d, 0)
    BY <1>1, <1>2, <1>11, <2>7, <2>8, MovedOn DEF bytes
  <2>10. TokenInv'
    <3>1. init' = init /\ Waiting' = l
      BY <1>1, <2>5 DEF Waiting
    <3>2. QED  BY <2>1, <2>6, <2>9, <3>1 DEF TokenInv, d
  <2>11. TypeInv'
    BY <1>1, <1>2, <1>7, <2>6, Functions DEF TypeInv, stream
  <2>12. QED  BY <1>5, <1>6, <1>7, <2>9, <2>10, <2>11 DEF IInv
<1>12. CASE fine /\ n = ProxyNum
  <2> DEFINE d == Spot("sdk", l)
             q == [p EXCEPT !.msg = SdkNum, !.ref = SdkNum]
  <2>1. e \in SdkExchanges /\ Opened[n] = asked["sdk"] /\ e = asked["sdk"][1] /\ asked["sdk"] # << >>
    BY <1>2, <1>3, <1>12, OpenExchange
  <2>2. bytes = Frame(0, e.to, ProxyNum, ProxyNum, e.rid, e.rsp)
    BY <1>3, <1>12 DEF AnswerOf
  <2>3. p.id = e.rid /\ p.ref = ProxyNum /\ IntoBytes(q) = ToSdk(e)
    BY <1>4, <1>12, <2>1, <2>2, AnswerRead DEF ToSdk
  <2>4. ~ (p.id = QueryInterfaceResponse /\ tokens > 0)
    <3>1. CASE init = "none"
      BY <1>1, <3>1, TokenSays
    <3>2. CASE init # "none"
      <4>1. e.id # QueryInterface
        BY <1>2, <2>1, <3>2 DEF InitInv
      <4>2. e.rid # QueryInterfaceResponse
        BY <2>1, <4>1, ExchangeAssumption
      <4>3. QED  BY <2>3, <4>2
    <3>3. QED  BY <3>1, <3>2
  <2> HIDE DEF n, e, bytes, c, fine, p, q
  <2>5. sdkReceive' = Push(sdkReceive, l, q) /\ tokens' = tokens /\ regular' = regular
    BY <1>12, <1>9, <2>3, <2>4 DEF q
  <2>6. d \in Places /\ Num(d, q) = n /\ Right(Opened[n], ex, d, q)
    <3>1. Right(Opened[n], ex, Spot("sdk", l), q) <=>
            Opened[n] # << >> /\ l = LineFor(ex, Opened[n][1].to) /\ IntoBytes(q) = ToSdk(Opened[n][1])
      BY RightSdk
    <3>2. QED  BY <1>3, <1>12, <2>3, <3>1, NumAt DEF e
  <2> HIDE DEF d
  <2>7. Where' = Push(Pop(Where, c), d, q)
    BY <1>1, <1>7, <1>8, <2>5, ViewMoves DEF Where, d
  <2>8. /\ Carried(Where', Opened, ex)
        /\ \A f \in Places : \A m : m # n /\ In(Where, f, m) => In(Where', f, m)
    BY <1>1, <1>2, <2>6, <2>7, MovedOn DEF bytes
  <2>9. TokenInv'
    <3>1. n # 0
      BY <1>12, OpenedAt
    <3>2. QED  BY <1>1, <1>2, <2>5, <2>8, <3>1, TokenKept
  <2>10. TypeInv'
    BY <1>1, <1>2, <1>7, <2>5, Functions DEF TypeInv, stream
  <2>11. QED  BY <1>5, <1>6, <1>7, <2>8, <2>9, <2>10 DEF IInv
<1>13. CASE fine /\ n = BlazeNum
  <2> DEFINE d == Spot("regular", l)
  <2>1. e \in BlazeExchanges /\ Opened[n] = asked["blaze"] /\ e = asked["blaze"][1] /\ asked["blaze"] # << >>
    BY <1>2, <1>3, <1>13, OpenExchange
  <2>2. bytes = Frame(0, e.to, BlazeNum, BlazeNum, e.rid, e.rsp)
    BY <1>3, <1>13 DEF AnswerOf
  <2>3. Known(hubs, e.to) # {}
    BY <1>2, <2>1 DEF InitInv
  <2>4. p.id = e.rid /\ p.ref = BlazeNum /\ CommandAnswer(p, e)
    <3> HIDE DEF e, n, fine
    <3> DEFINE r   == FromData(hubs, Frame(0, e.to, BlazeNum, BlazeNum, e.rid, e.rsp))
               lay == LayoutOf(<< [addr |-> e.to, first |-> Commanded[e.to].first,
                                   count |-> Commanded[e.to].count] >>,
                               [dest |-> 0, src |-> e.to, id |-> e.rid])
    <3>1. r.id = e.rid /\ r.ref = BlazeNum /\ r.layout = lay /\ r.values = Parse(lay.fields, e.rsp)
      BY <1>4, <2>1, <2>3, CommandAnswerRead
    <3>2. p = r
      BY <2>2
    <3> HIDE DEF p, r
    <3>3. QED  BY <3>1, <3>2 DEF CommandAnswer
  <2>5. p.id # QueryInterfaceResponse
    BY <2>1, <2>4, ExchangeAssumption
  <2> HIDE DEF n, e, bytes, c, fine, p
  <2>6. regular' = Push(regular, l, p) /\ tokens' = tokens /\ sdkReceive' = sdkReceive
    <3>1. p.ref # ProxyNum
      BY <2>4, OpenedAt
    <3>2. QED  BY <1>13, <1>9, <2>5, <3>1
  <2>7. d \in Places /\ Num(d, p) = n /\ Right(Opened[n], ex, d, p)
    <3>1. Right(Opened[n], ex, Spot("regular", l), p) <=>
            /\ p.ref \in Nums \ {ProxyNum} /\ Opened[n] # << >> /\ l = LineFor(ex, Opened[n][1].to)
            /\ p.id = Opened[n][1].rid
            /\ p.ref = 0 => p.values = << Commanded[Opened[n][1].to].first, Commanded[Opened[n][1].to].count >>
            /\ p.ref = BlazeNum => CommandAnswer(p, Opened[n][1])
      BY RightRegular
    <3>2. BlazeNum \in Nums \ {ProxyNum} /\ 0 # BlazeNum
      BY OpenedAt
    <3>3. QED  BY <1>3, <1>13, <2>4, <3>1, <3>2, NumAt DEF e
  <2> HIDE DEF d
  <2>8. Where' = Push(Pop(Where, c), d, p)
    BY <1>1, <1>7, <1>8, <2>6, ViewMoves DEF Where, d
  <2>9. /\ Carried(Where', Opened, ex)
        /\ \A f \in Places : \A m : m # n /\ In(Where, f, m) => In(Where', f, m)
    BY <1>1, <1>2, <2>7, <2>8, MovedOn DEF bytes
  <2>10. TokenInv'
    <3>1. n # 0
      BY <1>13, OpenedAt
    <3>2. QED  BY <1>1, <1>2, <2>6, <2>9, <3>1, TokenKept
  <2>11. TypeInv'
    BY <1>1, <1>2, <1>7, <2>6, Functions DEF TypeInv, stream
  <2>12. QED  BY <1>5, <1>6, <1>7, <2>9, <2>10, <2>11 DEF IInv
<1>14. QED  BY <1>3, <1>10, <1>11, <1>12, <1>13 DEF Nums

\* What generate_module sends.
QueryPacket(h) == NewFull(StandardLayout(QueryInterface), QueryInterface, << Deka >>, h, 0, 0, 0)

LEMMA QueryPut ==
  ASSUME NEW h \in Hubs, NEW l \in Line, NEW i, i # "none", Target(i) = h, NEW x, l = LineFor(x, h),
         NEW a, NEW V, Carried(V, OpenedAs("none", a), x)
  PROVE  LET W == Push(V, Spot("down", l), Wire(l, QueryPacket(h)))
         IN /\ Carried(W, OpenedAs(i, a), x) /\ In(W, Spot("down", l), 0)
            /\ \A d \in Places : \A m : In(V, d, m) => In(W, d, m)
<1> DEFINE e == QueryOf(h)
           v == Wire(l, QueryPacket(h))
           c == Spot("down", l)
           O == OpenedAs("none", a)
           P == OpenedAs(i, a)
<1>1. Exchanged(e) /\ e.to = h /\ e.id = QueryInterface /\ e.req = Deka
  BY QueryIsExchange
<1>2. v = RequestOf(0, e)
  BY <1>1, QuerySent DEF QueryPacket, RequestOf
<1>3. O[0] = << >> /\ P[0] = << e >> /\ Others(O, P, 0) /\ 0 \in Nums
  BY OpenedAt, OthersKept
<1> HIDE DEF e, v, O, P
<1>4. v[7] = 0
  BY <1>1, <1>2, <1>3, PacketParts
<1>5. c \in Places /\ Num(c, v) = 0
  BY <1>4, NumAt
<1>6. Right(P[0], x, c, v)
  <2>1. Right(P[0], x, Spot("down", l), v) <=>
          /\ v[7] \in Nums /\ P[0] # << >> /\ l = LineFor(x, P[0][1].to)
          /\ v = RequestOf(v[7], P[0][1])
    BY RightDown
  <2>2. P[0] # << >> /\ P[0][1] = e
    BY <1>3
  <2>3. QED  BY <1>1, <1>2, <1>3, <1>4, <2>1, <2>2
<1> HIDE DEF c
<1>7. Carried(V, O, x)
  BY DEF O
<1>8. LET W == Push(V, c, v)
      IN /\ Carried(W, P, x) /\ In(W, c, Num(c, v))
         /\ \A d \in Places : \A m : In(V, d, m) => In(W, d, m)
  BY <1>3, <1>5, <1>6, <1>7, OpenedBy DEF Others
<1>9. QED  BY <1>5, <1>8 DEF c, v, P

LEMMA KnownIs ==
  ASSUME NEW x, NEW f \in {<< >>, << CtrlHub >>}, NEW g \in {<< >>, << ExHub(x) >>},
         g # << >> => f # << >>
  PROVE  \A a : Known(f \o g, a) # {} <=> (a = Ctrl /\ f # << >>) \/ (a = Ex /\ g # << >>)
<1>1. CtrlHub.addr = Ctrl /\ ExHub(x).addr = Ex
  BY DEF CtrlHub, ExHub
<1>2. CASE f = << >>
  <2>1. f \o g = << >>
    BY <1>2, Two
  <2>2. \A a : Known(f \o g, a) = {}
    BY <2>1 DEF Known
  <2>3. QED  BY <1>2, <2>2
<1>3. CASE f = << CtrlHub >> /\ g = << >>
  <2>1. f \o g = << CtrlHub >>
    BY <1>3, Two
  <2>2. \A a : Known(f \o g, a) # {} <=> a = Ctrl
    BY <1>1, <2>1 DEF Known
  <2>3. QED  BY <1>3, <2>2
<1>4. CASE f = << CtrlHub >> /\ g = << ExHub(x) >>
  <2> DEFINE u == CtrlHub
             w == ExHub(x)
             s == << u, w >>
  <2>1. f \o g = s
    BY <1>4, Two
  <2> HIDE DEF u, w
  <2>2. DOMAIN s = {1, 2} /\ s[1] = u /\ s[2] = w
    OBVIOUS
  <2>3. u.addr = Ctrl /\ w.addr = Ex
    BY <1>1 DEF u, w
  <2> HIDE DEF s
  <2>4. \A a : Known(s, a) # {} <=> a = Ctrl \/ a = Ex
    BY <2>2, <2>3 DEF Known
  <2>5. f # << >> /\ g # << >>
    BY <1>4
  <2>6. QED  BY <2>1, <2>4, <2>5
<1>5. QED  BY <1>2, <1>3, <1>4

\* No hub that was known is forgotten.
LEMMA KnownKept ==
  ASSUME InitInv, LineOf(Ex)' = LineOf(Ex), hub0' \in {hub0, << CtrlHub >>},
         hub1' = hub1 \/ (hub1' = << ExHub(LineOf(Ex)) >> /\ hub0 # << >>)
  PROVE  /\ hub0' \in {<< >>, << CtrlHub >>} /\ hub1' \in {<< >>, << ExHub(LineOf(Ex)) >>}
         /\ hub1' # << >> => hub0' # << >>
         /\ \A a : Known(hubs, a) # {} => Known(hubs', a) # {}
<1>1. /\ hub0 \in {<< >>, << CtrlHub >>} /\ hub1 \in {<< >>, << ExHub(LineOf(Ex)) >>}
      /\ hub1 # << >> => hub0 # << >>
  BY DEF InitInv, HubInv
<1>2. /\ hub0' \in {<< >>, << CtrlHub >>} /\ hub1' \in {<< >>, << ExHub(LineOf(Ex)) >>}
      /\ hub1' # << >> => hub0' # << >>
      /\ hub0 # << >> => hub0' # << >>
      /\ hub1 # << >> => hub1' # << >>
  BY <1>1
<1>3. hubs = hub0 \o hub1 /\ hubs' = hub0' \o hub1'
  BY DEF hubs
<1>4. \A a : Known(hubs, a) # {} <=> (a = Ctrl /\ hub0 # << >>) \/ (a = Ex /\ hub1 # << >>)
  BY <1>1, <1>3, KnownIs
<1>5. \A a : Known(hubs', a) # {} <=> (a = Ctrl /\ hub0' # << >>) \/ (a = Ex /\ hub1' # << >>)
  BY <1>2, <1>3, KnownIs
<1>6. QED  BY <1>2, <1>4, <1>5

\* initialize, the first time.
LEMMA MostHwStep ==
  ASSUME IInv, InitializeMostHw
  PROVE  IInv'
<1> DEFINE c == Head(todo)
           v == Wire("serial", QueryPacket(Ctrl))
<1>1. /\ Call("initialize") /\ ~ vm /\ vm' = TRUE
      /\ servoHubs' = IF servoHubs = << >> THEN << servoInit >> ELSE servoHubs
      /\ UNCHANGED << ex, ctrlInit, exInit, servoInit, hub0, hub1, up, regular, sdkReceive, asked,
                      lost, stream >>
  BY DEF InitializeMostHw
<1>2. /\ TypeInv /\ StreamInv /\ PlanInv /\ InitInv /\ TokenInv /\ Carried(Where, Opened, ex)
  BY DEF IInv
<1>3. init = "none" /\ ~ Told(c, Ctrl, TRUE)
  <2>1. c.call = "initialize" /\ init = "none"
    BY <1>1, <1>2, CallAllowed
  <2> HIDE DEF c
  <2>2. QED  BY <2>1 DEF Told
<1>4. ~ running /\ tokens = 0 /\ asked["sdk"] = << >> /\ asked["blaze"] = << >>
  BY <1>1, <1>2 DEF InitInv
<1>5. (\E p \in Plants : \E k \in 0 .. Len(p.calls) : Reached(p, k))'
  BY <1>1, <1>2, <1>3, CallMade
<1>6. servoHubs' # << >> /\ servoHubs'[1] \in Seq(Servos)
  <2>1. CASE servoHubs = << >>
    <3>1. servoHubs' = << servoInit >>
      BY <1>1, <2>1
    <3>2. QED  BY <1>2, <3>1 DEF PlanInv
  <2>2. CASE servoHubs # << >>
    BY <1>1, <1>2, <2>2 DEF PlanInv
  <2>3. QED  BY <2>1, <2>2
<1>7. PlanInv'
  <2>1. ctrlInit' \in {<< >>, << Ctrl >>} /\ servoInit' \in Seq(Servos)
    BY <1>1, <1>2 DEF PlanInv
  <2>2. exInit' # << >> =>
          \/ ex' = "usb" /\ exInit' = << [loc |-> "usb", addr |-> Ex] >>
          \/ ex' # "usb" /\ exInit' = << [loc |-> "rs485", addr |-> Ex] >>
    <3>1. ex' = ex /\ exInit' = exInit
      BY <1>1
    <3>2. exInit # << >> =>
            \/ ex = "usb" /\ exInit = << [loc |-> "usb", addr |-> Ex] >>
            \/ ex # "usb" /\ exInit = << [loc |-> "rs485", addr |-> Ex] >>
      BY <1>1, <1>2 DEF PlanInv
    <3>3. QED  BY <3>1, <3>2
  <2>3. QED  BY <1>5, <1>6, <2>1, <2>2 DEF PlanInv
<1>8. Hearing' = Hearing /\ ex' = ex /\ asked' = asked /\ LineOf(Ex)' = LineOf(Ex) /\ hubs' = hubs
  BY <1>1 DEF Hearing, stream, LineOf, hubs
<1>9. /\ hub0 \in {<< >>, << CtrlHub >>} /\ hub1 \in {<< >>, << ExHub(LineOf(Ex)) >>}
      /\ hub1 # << >> => hub0 # << >>
  BY <1>2 DEF InitInv, HubInv
<1>10. CASE UNCHANGED << running, threads, init, tokens, down >>
  <2>1. (TypeInv /\ StreamInv /\ TokenInv /\ Carried(Where, Opened, ex))'
    BY <1>1, <1>10, LinesIdle DEF lines
  <2>2. InitInv'
    BY <1>1, <1>3, <1>4, <1>6, <1>8, <1>9, <1>10 DEF InitInv, HubInv
  <2>3. QED  BY <1>7, <2>1, <2>2 DEF IInv
<1>11. CASE /\ ctrlInit # << >>
            /\ running' = TRUE
            /\ threads' = [threads EXCEPT !["serial"] = @ + 1]
            /\ Query(ctrlInit[1], "serial", "ctrl")
  <2>1. ctrlInit = << Ctrl >> /\ ctrlInit[1] = Ctrl
    BY <1>2, <1>11 DEF PlanInv
  <2>2. init' = "ctrl" /\ tokens' = 1 /\ down' = Push(down, "serial", v)
    <3>1. /\ init' = "ctrl" /\ tokens' = tokens + 1
          /\ down' = Push(down, "serial", Wire("serial", QueryPacket(ctrlInit[1])))
      BY <1>11 DEF Query, QueryPacket, Put, Push
    <3>2. QED  BY <1>4, <2>1, <3>1
  <2> HIDE DEF v, c
  <2>3. Where' = Push(Where, Spot("down", "serial"), v)
    <3>1. Func(down) /\ Func(up) /\ Func(regular) /\ Func(sdkReceive) /\ Func(Hearing)
      BY <1>2, Functions DEF TypeInv, Hearing
    <3>2. UNCHANGED << up, regular, sdkReceive >> /\ "serial" \in Line
      BY <1>1 DEF Line
    <3>3. QED  BY <1>8, <2>2, <3>1, <3>2, ViewMoves DEF Where
  <2>4. Opened = OpenedAs("none", asked) /\ Opened' = OpenedAs("ctrl", asked)
    BY <1>3, <1>8, <2>2 DEF Opened
  <2>5. /\ Carried(Where', Opened', ex)
        /\ In(Where', Spot("down", "serial"), 0)
    <3>1. Ctrl \in Hubs /\ "serial" \in Line /\ Target("ctrl") = Ctrl /\ "serial" = LineFor(ex, Ctrl)
      BY Addresses DEF Line, Target, LineFor, HubOf
    <3> DEFINE h == Ctrl
               l == "serial"
               i == "ctrl"
    <3>2. h \in Hubs /\ l \in Line /\ Target(i) = h /\ l = LineFor(ex, h) /\ i # "none"
      BY <3>1
    <3>3. /\ Carried(Where, OpenedAs("none", asked), ex)
          /\ Where' = Push(Where, Spot("down", l), Wire(l, QueryPacket(h)))
      BY <1>2, <2>3, <2>4 DEF v
    <3> HIDE DEF h, l, i
    <3>4. Carried(Where', OpenedAs(i, asked), ex) /\ In(Where', Spot("down", l), 0)
      BY <3>2, <3>3, QueryPut
    <3>5. QED  BY <2>4, <3>4 DEF i, l
  <2>6. TokenInv'
    <3>1. Waiting' = "serial"
      BY <2>2 DEF Waiting
    <3>2. QED  BY <2>2, <2>5, <3>1 DEF TokenInv
  <2>7. TypeInv'
    <3>1. Func(down')
      BY <1>2, <2>2, Functions DEF TypeInv
    <3>2. QED  BY <1>1, <1>2, <2>2, <3>1 DEF TypeInv, stream
  <2>8. StreamInv'
    BY <1>1, <1>2 DEF StreamInv, stream
  <2>9. InitInv'
    BY <1>1, <1>3, <1>4, <1>6, <1>8, <1>9, <1>11, <2>1, <2>2 DEF InitInv, HubInv
  <2>10. QED  BY <1>7, <1>8, <2>5, <2>6, <2>7, <2>8, <2>9 DEF IInv
<1>12. QED  BY <1>10, <1>11 DEF InitializeMostHw

\* And again for a hub on USB.
LEMMA UsbExhubStep ==
  ASSUME IInv, Alone, InitializeUsbExhub
  PROVE  IInv'
<1> DEFINE c == Head(todo)
           v == Wire("usb", QueryPacket(Ex))
<1>1. /\ Call("initialize") /\ vm
      /\ c.usb /\ exInit # << >> /\ hub1 = << >>
      /\ \A i \in DOMAIN asked["sdk"] : asked["sdk"][i].id # QueryInterface
      /\ UNCHANGED << ex, ctrlInit, exInit, servoInit, servoHubs, vm, running, hub0, hub1, up,
                      regular, sdkReceive, asked, lost, stream >>
  BY DEF InitializeUsbExhub
<1>2. /\ TypeInv /\ StreamInv /\ PlanInv /\ InitInv /\ TokenInv /\ Carried(Where, Opened, ex)
  BY DEF IInv
<1>3. init = "none" /\ ~ Told(c, Ctrl, TRUE) /\ ex = "usb"
  <2>1. c.call = "initialize" /\ init = "none" /\ Allowed(c) /\ c.usb
    BY <1>1, <1>2, CallAllowed
  <2> HIDE DEF c
  <2>2. QED  BY <2>1 DEF Told, Allowed
<1>4. exInit = << [loc |-> "usb", addr |-> Ex] >> /\ exInit[1].addr = Ex
  BY <1>1, <1>2, <1>3 DEF PlanInv
<1>5. asked["sdk"] # << >> => asked["sdk"][1].id # QueryInterface
  <2> SUFFICES ASSUME asked["sdk"] # << >> PROVE asked["sdk"][1].id # QueryInterface
    OBVIOUS
  <2>1. 1 \in DOMAIN asked["sdk"]
    BY <1>2 DEF TypeInv
  <2>2. QED  BY <1>1, <2>1
<1>6. (\E p \in Plants : \E k \in 0 .. Len(p.calls) : Reached(p, k))'
  BY <1>1, <1>2, <1>3, CallMade
<1>7. PlanInv'
  <2>1. exInit' = << [loc |-> "usb", addr |-> Ex] >> /\ ex' = "usb"
    BY <1>1, <1>3, <1>4
  <2>2. /\ ctrlInit' \in {<< >>, << Ctrl >>} /\ servoInit' \in Seq(Servos)
        /\ servoHubs' # << >> => servoHubs'[1] \in Seq(Servos)
    BY <1>1, <1>2 DEF PlanInv
  <2>3. QED  BY <1>6, <2>1, <2>2 DEF PlanInv
<1>8. Hearing' = Hearing /\ ex' = ex /\ asked' = asked /\ LineOf(Ex)' = LineOf(Ex) /\ hubs' = hubs
  BY <1>1 DEF Hearing, stream, LineOf, hubs
<1>9. CASE ~ running /\ tokens' = tokens + 1 /\ UNCHANGED << init, down >>
  <2>1. tokens' \in Nat /\ ~ running'
    BY <1>1, <1>2, <1>9 DEF TypeInv
  <2>2. (TypeInv /\ StreamInv /\ TokenInv /\ Carried(Where, Opened, ex))'
    BY <1>1, <1>9, <2>1, LinesIdle DEF lines
  <2>3. InitInv'
    BY <1>1, <1>2, <1>3, <1>8, <1>9, <2>1 DEF InitInv, HubInv
  <2>4. QED  BY <1>7, <2>2, <2>3 DEF IInv
<1>10. CASE running /\ Query(exInit[1].addr, "usb", "usb")
  <2>1. tokens = 0 /\ hub0 # << >>
    BY <1>2, <1>3, <1>10 DEF TokenInv, InitInv, HubInv
  <2>2. init' = "usb" /\ tokens' = 1 /\ down' = Push(down, "usb", v)
    <3>1. /\ init' = "usb" /\ tokens' = tokens + 1
          /\ down' = Push(down, "usb", Wire("usb", QueryPacket(exInit[1].addr)))
      BY <1>10 DEF Query, QueryPacket, Put, Push
    <3>2. QED  BY <1>4, <2>1, <3>1
  <2> HIDE DEF v, c
  <2>3. Where' = Push(Where, Spot("down", "usb"), v)
    <3>1. Func(down) /\ Func(up) /\ Func(regular) /\ Func(sdkReceive) /\ Func(Hearing)
      BY <1>2, Functions DEF TypeInv, Hearing
    <3>2. UNCHANGED << up, regular, sdkReceive >> /\ "usb" \in Line
      BY <1>1 DEF Line
    <3>3. QED  BY <1>8, <2>2, <3>1, <3>2, ViewMoves DEF Where
  <2>4. Opened = OpenedAs("none", asked) /\ Opened' = OpenedAs("usb", asked)
    BY <1>3, <1>8, <2>2 DEF Opened
  <2>5. /\ Carried(Where', Opened', ex)
        /\ In(Where', Spot("down", "usb"), 0)
    <3>1. Ex \in Hubs /\ "usb" \in Line /\ Target("usb") = Ex /\ "usb" = LineFor(ex, Ex)
      BY <1>3, Addresses DEF Line, Target, LineFor, HubOf
    <3> DEFINE h == Ex
               l == "usb"
               i == "usb"
    <3>2. h \in Hubs /\ l \in Line /\ Target(i) = h /\ l = LineFor(ex, h) /\ i # "none"
      BY <3>1
    <3>3. /\ Carried(Where, OpenedAs("none", asked), ex)
          /\ Where' = Push(Where, Spot("down", l), Wire(l, QueryPacket(h)))
      BY <1>2, <2>3, <2>4 DEF v
    <3> HIDE DEF h, l, i
    <3>4. Carried(Where', OpenedAs(i, asked), ex) /\ In(Where', Spot("down", l), 0)
      BY <3>2, <3>3, QueryPut
    <3>5. QED  BY <2>4, <3>4 DEF i, l
  <2>6. TokenInv'
    <3>1. Waiting' = "usb"
      BY <2>2 DEF Waiting
    <3>2. QED  BY <2>2, <2>5, <3>1 DEF TokenInv
  <2>7. TypeInv'
    <3>1. Func(down')
      BY <1>2, <2>2, Functions DEF TypeInv
    <3>2. QED  BY <1>1, <1>2, <2>2, <3>1 DEF TypeInv, stream
  <2>8. StreamInv'
    BY <1>1, <1>2 DEF StreamInv, stream
  <2>9. InitInv'
    BY <1>1, <1>2, <1>4, <1>5, <1>8, <2>1, <2>2 DEF InitInv, HubInv
  <2>10. QED  BY <1>7, <1>8, <2>5, <2>6, <2>7, <2>8, <2>9 DEF IInv
<1>11. QED  BY <1>9, <1>10 DEF InitializeUsbExhub

\* What is left when initialize has taken a packet, and what it says if it is its answer.
LEMMA Taken ==
  ASSUME IInv, TryGetPacket, NEW l \in Line, l = Waiting
  PROVE  LET p == Head(regular[l])
             c == Spot("regular", l)
         IN /\ init # "none" /\ vm
            /\ UNCHANGED << java, running, threads, up, sdkReceive, asked, lost, stream >>
            /\ Where[c] # << >> /\ Num(c, Head(Where[c])) = p.ref /\ c \in Places
            /\ View(down, up, regular', sdkReceive, Hearing) = Pop(Where, c)
            /\ Func(regular')
            /\ p.ref = BlazeNum => UNCHANGED << init, tokens, down, hub0, hub1 >>
            /\ p.ref # BlazeNum =>
                 /\ p.ref = 0 /\ (CtrlHubReady(p) \/ ExHubReady(p))
                 /\ running => tokens = 0
                 /\ p.values = << Commanded[Target(init)].first, Commanded[Target(init)].count >>
                 /\ l = LineFor(ex, Target(init))
<1> DEFINE p == Head(regular[l])
           c == Spot("regular", l)
           n == p.ref
           e == Opened[n][1]
<1>1. /\ init # "none" /\ regular[l] # << >> /\ regular' = Pop(regular, l)
      /\ IF IsResponseData(p) THEN CtrlHubReady(p) \/ ExHubReady(p)
         ELSE UNCHANGED << init, tokens, down, hub0, hub1 >>
      /\ UNCHANGED << java, running, threads, up, sdkReceive, asked, lost, stream >>
  BY DEF TryGetPacket, Drop, Pop
<1>2. /\ TypeInv /\ InitInv /\ TokenInv /\ Carried(Where, Opened, ex)
      /\ c \in Places /\ Where[c] = regular[l] /\ Num(c, Head(regular[l])) = n
  BY NumAt, WhereAt DEF IInv
<1>3. /\ n \in Nums \ {ProxyNum} /\ Opened[n] # << >> /\ l = LineFor(ex, e.to) /\ p.id = e.rid
      /\ n = 0 => p.values = << Commanded[e.to].first, Commanded[e.to].count >>
      /\ In(Where, c, n)
  <2>1. Right(Opened[n], ex, c, p) /\ In(Where, c, n)
    BY <1>1, <1>2, Removed
  <2> HIDE DEF p, c, n, e
  <2>2. Right(Opened[n], ex, Spot("regular", l), p) <=>
          /\ p.ref \in Nums \ {ProxyNum} /\ Opened[n] # << >> /\ l = LineFor(ex, Opened[n][1].to)
          /\ p.id = Opened[n][1].rid
          /\ p.ref = 0 => p.values = << Commanded[Opened[n][1].to].first, Commanded[Opened[n][1].to].count >>
          /\ p.ref = BlazeNum => CommandAnswer(p, Opened[n][1])
    BY RightRegular
  <2>3. QED  BY <2>1, <2>2 DEF c, n, e
<1>4. /\ View(down, up, regular', sdkReceive, Hearing) = Pop(Where, c)
      /\ Func(regular')
  <2>1. Func(down) /\ Func(up) /\ Func(regular) /\ Func(sdkReceive) /\ Func(Hearing)
    BY <1>2, Functions DEF TypeInv, Hearing
  <2>2. QED  BY <1>1, <2>1, ViewMoves, Functions DEF Where
<1>5. ASSUME n = BlazeNum PROVE UNCHANGED << init, tokens, down, hub0, hub1 >>
  <2>1. e \in BlazeExchanges
    BY <1>2, <1>3, <1>5, OpenExchange
  <2>2. p.id # QueryInterfaceResponse
    BY <1>3, <2>1, ExchangeAssumption
  <2>3. QED  BY <1>1, <2>2 DEF IsResponseData
<1>6. ASSUME n # BlazeNum
      PROVE  /\ n = 0 /\ (CtrlHubReady(p) \/ ExHubReady(p))
             /\ running => tokens = 0
             /\ p.values = << Commanded[Target(init)].first, Commanded[Target(init)].count >>
             /\ l = LineFor(ex, Target(init))
  <2>1. n = 0
    BY <1>3, <1>6 DEF Nums
  <2>2. e = QueryOf(Target(init)) /\ Target(init) \in Hubs
    BY <1>2, <1>3, <2>1, OpenExchange
  <2>3. e.to = Target(init) /\ e.rid = QueryInterfaceResponse
    BY <2>2, QueryIsExchange
  <2>4. IsResponseData(p)
    BY <1>3, <2>3 DEF IsResponseData
  <2> HIDE DEF p, e
  <2>5. CtrlHubReady(p) \/ ExHubReady(p)
    BY <1>1, <2>4
  <2>6. running => tokens = 0
    <3>1. In(Where, Spot("regular", l), 0)
      BY <1>3, <2>1
    <3>2. QED  BY <1>1, <3>1, TokenSays
  <2>7. QED  BY <1>3, <2>1, <2>3, <2>5, <2>6
<1>7. vm
  BY <1>1, <1>2 DEF InitInv
<1>8. QED  BY <1>1, <1>2, <1>4, <1>5, <1>6, <1>7

\* Another's answer is dropped.
LEMMA StrangerStep ==
  ASSUME IInv, TryGetPacket, NEW l \in Line, l = Waiting, Head(regular[l]).ref = BlazeNum
  PROVE  IInv'
<1> DEFINE c == Spot("regular", l)
<1>1. /\ UNCHANGED << java, running, threads, up, sdkReceive, asked, lost, stream >>
      /\ UNCHANGED << init, tokens, down, hub0, hub1 >>
      /\ Where[c] # << >> /\ Num(c, Head(Where[c])) = BlazeNum /\ c \in Places
      /\ View(down, up, regular', sdkReceive, Hearing) = Pop(Where, c)
      /\ Func(regular')
  BY Taken
<1>2. /\ TypeInv /\ StreamInv /\ PlanInv /\ InitInv /\ TokenInv /\ Carried(Where, Opened, ex)
  BY DEF IInv
<1>3. Where' = Pop(Where, c) /\ Opened' = Opened /\ ex' = ex
  BY <1>1 DEF Where, Hearing, Opened, stream, java
<1> HIDE DEF c
<1>4. /\ Carried(Where', Opened', ex')
      /\ \A d \in Places : \A m : m # BlazeNum /\ In(Where, d, m) => In(Where', d, m)
  BY <1>1, <1>2, <1>3, Removed
<1>5. TokenInv'
  BY <1>1, <1>2, <1>4, OpenedAt, TokenKept
<1>6. TypeInv'
  BY <1>1, <1>2 DEF TypeInv, stream
<1>7. StreamInv'
  BY <1>1, <1>2 DEF StreamInv, stream
<1>8. PlanInv'
  BY <1>1, <1>2 DEF PlanInv, Reached, java
<1>9. InitInv'
  <2>1. hubs' = hubs /\ LineOf(Ex)' = LineOf(Ex)
    BY <1>1 DEF hubs, LineOf, java
  <2>2. QED  BY <1>1, <1>2, <2>1 DEF InitInv, HubInv, java
<1>10. QED  BY <1>4, <1>5, <1>6, <1>7, <1>8, <1>9 DEF IInv

\* A hub set and nothing more asked.
LEMMA SetUp ==
  ASSUME IInv, NEW l \in Line, NEW c \in Places, Where[c] # << >>,
         Num(c, Head(Where[c])) = 0,
         View(down, up, regular', sdkReceive, Hearing) = Pop(Where, c), Func(regular'),
         UNCHANGED << java, running, threads, up, sdkReceive, asked, lost, stream >>,
         UNCHANGED << tokens, down >>, init' = "none", running => tokens = 0, vm,
         hub0' \in {hub0, << CtrlHub >>}, hub0' # << >>,
         hub1' = hub1 \/ (hub1' = << ExHub(LineOf(Ex)) >> /\ hub0 # << >>)
  PROVE  IInv'
<1>1. /\ TypeInv /\ StreamInv /\ PlanInv /\ InitInv /\ TokenInv /\ Carried(Where, Opened, ex)
  BY DEF IInv
<1>2. Where' = Pop(Where, c) /\ ex' = ex
  BY DEF Where, Hearing, stream, java
<1>3. Others(Opened, Opened', 0)
  BY OthersKept DEF Opened
<1>4. Carried(Where', Opened', ex')
  BY <1>1, <1>2, <1>3, ClosedBy DEF Others
<1>5. TokenInv'
  BY DEF TokenInv
<1>6. TypeInv'
  BY <1>1 DEF TypeInv, stream
<1>7. StreamInv'
  BY <1>1 DEF StreamInv, stream
<1>8. PlanInv'
  BY <1>1 DEF PlanInv, Reached, java
<1>9. InitInv'
  <2>1. LineOf(Ex)' = LineOf(Ex)
    BY DEF LineOf, java
  <2>2. /\ hub0' \in {<< >>, << CtrlHub >>} /\ hub1' \in {<< >>, << ExHub(LineOf(Ex)) >>}
        /\ \A a : Known(hubs, a) # {} => Known(hubs', a) # {}
    BY <1>1, <2>1, KnownKept
  <2>3. asked' = asked
    OBVIOUS
  <2>4. asked'["blaze"] # << >> => Known(hubs', asked'["blaze"][1].to) # {}
    BY <1>1, <2>2, <2>3 DEF InitInv
  <2>5. HubInv'
    BY DEF HubInv
  <2>6. QED  BY <1>1, <2>1, <2>2, <2>4, <2>5 DEF InitInv, java
<1>10. QED  BY <1>4, <1>5, <1>6, <1>7, <1>8, <1>9 DEF IInv

\* The expansion hub's answer ends initialize.
LEMMA ExHubStep ==
  ASSUME IInv, TryGetPacket, NEW l \in Line, l = Waiting,
         Head(regular[l]).ref # BlazeNum, ExHubReady(Head(regular[l]))
  PROVE  IInv'
<1> DEFINE c == Spot("regular", l)
           p == Head(regular[l])
<1>1. /\ UNCHANGED << java, running, threads, up, sdkReceive, asked, lost, stream >>
      /\ Where[c] # << >> /\ Num(c, Head(Where[c])) = 0 /\ c \in Places
      /\ View(down, up, regular', sdkReceive, Hearing) = Pop(Where, c)
      /\ Func(regular') /\ vm
      /\ running => tokens = 0
      /\ p.values = << Commanded[Target(init)].first, Commanded[Target(init)].count >>
      /\ l = LineFor(ex, Target(init))
  BY Taken
<1>2. /\ init \in {"rs485", "usb"}
      /\ hub1' = NewHub(exInit[1].addr, p, l)
      /\ init' = "none"
      /\ UNCHANGED << tokens, down, hub0 >>
  BY DEF ExHubReady
<1>3. InitInv
  BY DEF IInv
<1>4. Target(init) = Ex /\ exInit[1].addr = Ex /\ hub0 \in {<< CtrlHub >>} /\ hub0 # << >>
  BY <1>2, <1>3 DEF InitInv, HubInv, Target
<1>5. hub1' = << ExHub(LineOf(Ex)) >>
  <2>1. l = LineOf(Ex)
    BY <1>1, <1>4 DEF LineOf, LineFor
  <2>2. p.values[1] = Commanded[Ex].first /\ p.values[2] = Commanded[Ex].count
    BY <1>1, <1>4
  <2> HIDE DEF p
  <2>3. QED  BY <1>2, <1>4, <2>1, <2>2 DEF NewHub, ExHub
<1> HIDE DEF c
<1>6. QED  BY <1>1, <1>2, <1>4, <1>5, SetUp

\* The control hub's answer, and the query of the hub behind it if there is one.
LEMMA CtrlHubStep ==
  ASSUME IInv, TryGetPacket, NEW l \in Line, l = Waiting,
         Head(regular[l]).ref # BlazeNum, CtrlHubReady(Head(regular[l]))
  PROVE  IInv'
<1> DEFINE c == Spot("regular", l)
           p == Head(regular[l])
<1>1. /\ UNCHANGED << java, running, threads, up, sdkReceive, asked, lost, stream >>
      /\ Where[c] # << >> /\ Num(c, Head(Where[c])) = 0 /\ c \in Places
      /\ View(down, up, regular', sdkReceive, Hearing) = Pop(Where, c)
      /\ Func(regular') /\ vm
      /\ running => tokens = 0
      /\ p.values = << Commanded[Target(init)].first, Commanded[Target(init)].count >>
      /\ l = LineFor(ex, Target(init))
  BY Taken
<1>2. /\ init = "ctrl" /\ hub1' = hub1
      /\ hub0' = NewHub(ctrlInit[1], p, "serial")
      /\ IF exInit # << >> /\ exInit[1].loc = "rs485"
         THEN Query(exInit[1].addr, "serial", "rs485")
         ELSE init' = "none" /\ UNCHANGED << tokens, down >>
  BY DEF CtrlHubReady
<1>3. TypeInv /\ StreamInv /\ PlanInv /\ InitInv /\ TokenInv /\ Carried(Where, Opened, ex)
  BY DEF IInv
<1>4. Target(init) = Ctrl /\ ctrlInit[1] = Ctrl
  BY <1>2, <1>3 DEF InitInv, Target
<1>5. hub0' = << CtrlHub >> /\ hub0' # << >>
  <2>1. p.values[1] = Commanded[Ctrl].first /\ p.values[2] = Commanded[Ctrl].count
    BY <1>1, <1>4
  <2> HIDE DEF p
  <2>2. QED  BY <1>2, <1>4, <2>1 DEF NewHub, CtrlHub
<1> HIDE DEF c, p
<1>6. CASE ~ (exInit # << >> /\ exInit[1].loc = "rs485")
  <2>1. init' = "none" /\ UNCHANGED << tokens, down >>
    BY <1>2, <1>6
  <2>2. QED  BY <1>1, <1>2, <1>5, <2>1, SetUp
<1>7. CASE exInit # << >> /\ exInit[1].loc = "rs485"
  <2> DEFINE h == Ex
             m == "serial"
             i == "rs485"
             v == Wire(m, QueryPacket(h))
             W == Pop(Where, c)
  <2>1. ex # "usb" /\ exInit = << [loc |-> "rs485", addr |-> Ex] >> /\ exInit[1].addr = Ex
    BY <1>2, <1>3, <1>7 DEF PlanInv
  <2>2. init' = i /\ tokens' = tokens + 1 /\ down' = Push(down, m, v)
    <3>1. Query(exInit[1].addr, "serial", "rs485")
      BY <1>2, <1>7
    <3>2. /\ init' = "rs485" /\ tokens' = tokens + 1
          /\ down' = Push(down, "serial", Wire("serial", QueryPacket(exInit[1].addr)))
      BY <3>1 DEF Query, QueryPacket, Put, Push
    <3>3. QED  BY <2>1, <3>2
  <2>3. /\ h \in Hubs /\ m \in Line /\ i # "none" /\ Target(i) = h /\ m = LineFor(ex, h)
        /\ m # "usb" /\ i \in {"none", "ctrl", "rs485", "usb"}
    BY <2>1, Addresses DEF Line, Target, LineFor
  <2>4. asked' = asked /\ Hearing' = Hearing /\ UNCHANGED << ex, up, sdkReceive >>
    BY <1>1 DEF Hearing, stream, java
  <2>5. Carried(W, OpenedAs("none", asked), ex)
    <3>1. Others(Opened, OpenedAs("none", asked), 0)
      BY OthersKept DEF Opened
    <3>2. QED  BY <1>1, <1>3, <3>1, ClosedBy DEF Others
  <2> HIDE DEF v, W
  <2>6. Where' = Push(W, Spot("down", m), v)
    <3>1. Func(down) /\ Func(up) /\ Func(regular') /\ Func(sdkReceive) /\ Func(Hearing)
      BY <1>1, <1>3, Functions DEF TypeInv, Hearing
    <3>2. PICK r : r = regular'
      OBVIOUS
    <3>3. View(Push(down, m, v), up, r, sdkReceive, Hearing)
            = Push(View(down, up, r, sdkReceive, Hearing), Spot("down", m), v)
      BY <2>3, <3>1, <3>2, ViewMoves
    <3>4. QED  BY <1>1, <2>2, <2>4, <3>2, <3>3 DEF Where, W
  <2>7. Opened' = OpenedAs(i, asked)
    BY <2>2, <2>4 DEF Opened
  <2> HIDE DEF h, m, i
  <2>8. Carried(Where', Opened', ex') /\ In(Where', Spot("down", m), 0)
    <3>1. Carried(Where', OpenedAs(i, asked), ex) /\ In(Where', Spot("down", m), 0)
      BY <2>3, <2>5, <2>6, QueryPut DEF v
    <3>2. QED  BY <2>4, <2>7, <3>1
  <2>9. TokenInv'
    <3>1. Waiting' = m
      BY <2>2, <2>3 DEF Waiting, m, i
    <3>2. running' => tokens' = 1
      BY <1>1, <2>2
    <3>3. QED  BY <2>2, <2>3, <2>8, <3>1, <3>2 DEF TokenInv
  <2>10. TypeInv'
    <3>1. Func(down') /\ tokens' \in Nat
      BY <1>3, <2>2, Functions DEF TypeInv
    <3>2. QED  BY <1>1, <1>3, <2>2, <2>3, <3>1 DEF TypeInv, stream
  <2>11. StreamInv'
    BY <1>1, <1>3 DEF StreamInv, stream
  <2>12. PlanInv'
    BY <1>1, <1>3, <2>2 DEF PlanInv, Reached, java, i
  <2>13. InitInv'
    <3>1. LineOf(Ex)' = LineOf(Ex)
      BY <1>1 DEF LineOf, java
    <3>2. /\ hub0' \in {<< >>, << CtrlHub >>} /\ hub1' \in {<< >>, << ExHub(LineOf(Ex)) >>}
          /\ \A a : Known(hubs, a) # {} => Known(hubs', a) # {}
      BY <1>2, <1>3, <1>5, <3>1, KnownKept
    <3>3. asked'["blaze"] # << >> => Known(hubs', asked'["blaze"][1].to) # {}
      BY <1>3, <2>4, <3>2 DEF InitInv
    <3>4. HubInv'
      BY <1>5 DEF HubInv
    <3>5. init' # "none" /\ asked'["sdk"] # << >> => asked'["sdk"][1].id # QueryInterface
      BY <1>2, <1>3, <2>4 DEF InitInv
    <3>6. QED  BY <1>1, <1>3, <2>1, <2>2, <3>1, <3>2, <3>3, <3>4, <3>5 DEF InitInv, java, i
  <2>14. QED  BY <2>8, <2>9, <2>10, <2>11, <2>12, <2>13 DEF IInv
<1>8. QED  BY <1>6, <1>7

LEMMA TryGetPacketStep ==
  ASSUME IInv, TryGetPacket
  PROVE  IInv'
<1>1. PICK l \in Line : l = Waiting
  BY DEF Waiting, Line
<1>2. CASE Head(regular[l]).ref = BlazeNum
  BY <1>1, <1>2, StrangerStep
<1>3. CASE Head(regular[l]).ref # BlazeNum
  <2>1. CtrlHubReady(Head(regular[l])) \/ ExHubReady(Head(regular[l]))
    BY <1>1, <1>3, Taken
  <2>2. QED  BY <1>1, <1>3, <2>1, ExHubStep, CtrlHubStep
<1>4. QED  BY <1>2, <1>3

\* Nothing is anywhere at first, and no step gives that up.
LEMMA IInvInit == Init => IInv
<1> SUFFICES ASSUME Init PROVE IInv
  OBVIOUS
<1>1. /\ init = "none" /\ tokens = 0 /\ ctrlInit = << >> /\ exInit = << >> /\ servoInit = << >>
      /\ servoHubs = << >> /\ vm = FALSE /\ running = FALSE /\ hub0 = << >> /\ hub1 = << >>
      /\ down = [l \in Line |-> << >>] /\ up = [l \in Line |-> << >>]
      /\ regular = [l \in Line |-> << >>] /\ sdkReceive = [l \in Line |-> << >>]
      /\ asked = [w \in {"sdk", "blaze"} |-> << >>]
      /\ buffer = [l \in Line |-> << >>] /\ received = [l \in Line |-> FALSE]
      /\ had = [l \in Line |-> 0] /\ heard = [l \in Line |-> << >>]
      /\ \E p \in Plants : ex = p.ex /\ todo = p.calls
  BY DEF Init
<1>2. TypeInv
  BY <1>1 DEF TypeInv, Func
<1>3. StreamInv
  BY <1>1 DEF StreamInv
<1>4. PlanInv
  <2>1. PICK p \in Plants : ex = p.ex /\ todo = p.calls
    BY <1>1
  <2>2. p.calls \in Seq(ToSet(p.calls))
    BY PlantAssumption
  <2>3. 0 \in 0 .. Len(p.calls) /\ todo = SubSeq(p.calls, 0 + 1, Len(p.calls))
    BY <2>1, <2>2
  <2>4. \A j \in 1 .. 0 : FALSE
    OBVIOUS
  <2>5. Reached(p, 0)
    BY <1>1, <2>1, <2>3, <2>4 DEF Reached
  <2>6. \E q \in Plants : \E k \in 0 .. Len(q.calls) : Reached(q, k)
    BY <2>3, <2>5
  <2>7. servoInit \in Seq(Servos)
    BY <1>1
  <2>8. QED  BY <1>1, <2>6, <2>7 DEF PlanInv
<1>5. InitInv
  BY <1>1 DEF InitInv, HubInv
<1>6. TokenInv
  BY <1>1 DEF TokenInv
<1>7. Carried(Where, Opened, ex)
  <2>1. \A c \in Places : Where[c] = << >>
    <3>1. \A l \in Line : /\ Where[Spot("down", l)] = << >> /\ Where[Spot("up", l)] = << >>
                          /\ Where[Spot("regular", l)] = << >> /\ Where[Spot("sdk", l)] = << >>
                          /\ Where[Spot("heard", l)] = << >>
      BY <1>1, WhereAt, HearingNow
    <3>2. \A c \in Places : \E k \in {"down", "up", "regular", "sdk", "heard"}, m \in Line : c = Spot(k, m)
      BY DEF Places, Spot
    <3>3. QED  BY <3>1, <3>2
  <2>2. Where = [c \in Places |-> Where[c]]
    BY ViewAt DEF At, Where
  <2>3. \A c \in Places : DOMAIN Where[c] = {} /\ Where[c] \in Seq(ToSet(Where[c]))
    <3>1. \A S : << >> \in Seq(S)
      OBVIOUS
    <3>2. DOMAIN << >> = {}
      OBVIOUS
    <3> TAKE c \in Places
    <3>3. Where[c] = << >>
      BY <2>1
    <3>4. Where[c] \in Seq(ToSet(Where[c]))
      BY <3>1, <3>3
    <3>5. QED  BY <3>2, <3>3, <3>4
  <2>4. QED  BY <2>2, <2>3 DEF Carried, Unique
<1>8. QED  BY <1>2, <1>3, <1>4, <1>5, <1>6, <1>7 DEF IInv

LEMMA IInvNext ==
  ASSUME Alone, IInv, [Next]_vars
  PROVE  IInv'
<1>1. CASE Java
  BY <1>1, ModuleStep, ServoStep, MostHwStep, UsbExhubStep, AgainStep DEF Java
<1>2. CASE TryGetPacket
  BY <1>2, TryGetPacketStep
<1>3. ASSUME NEW e \in SdkExchanges, SdkWrite(e) PROVE IInv'
  BY <1>3, SdkWriteStep
<1>4. ASSUME NEW h \in ToSet(hubs), NEW e \in BlazeExchanges, BlazeSend(h, e) PROVE IInv'
  BY <1>4, BlazeSendStep
<1>5. ASSUME NEW c \in Hubs, SdkRead(c) PROVE IInv'
  BY <1>5, SdkReadStep
<1>6. ASSUME NEW l \in Line, SdkDone(l) \/ BlazeRead(l) \/ HubAnswer(l) \/ ReadThread(l)
      PROVE  IInv'
  BY <1>6, SdkDoneStep, BlazeReadStep, HubAnswerStep, ReadStep
<1>7. ASSUME NEW l \in Line, NEW w \in {"sdk", "blaze"}, LoseAnswer(l, w) PROVE IInv'
  BY <1>7, LoseStep
<1>8. CASE UNCHANGED vars
  <2>1. UNCHANGED << ex, todo, ctrlInit, exInit, servoInit, servoHubs, vm, init, running, hub0, hub1,
                     tokens, asked, lines, stream >>
    BY <1>8 DEF vars, java, setup, lines
  <2>2. (TypeInv /\ StreamInv /\ TokenInv /\ Carried(Where, Opened, ex))'
    BY <2>1, LinesIdle
  <2>3. PlanInv'
    BY <2>1 DEF IInv, PlanInv, Reached
  <2>4. InitInv'
    BY <2>1 DEF IInv, InitInv, HubInv, LineOf, hubs
  <2>5. QED  BY <2>2, <2>3, <2>4 DEF IInv
<1>9. QED  BY <1>1, <1>2, <1>3, <1>4, <1>5, <1>6, <1>7, <1>8 DEF Next

\* So it always holds, if the SDK has no query of its own open while initialize waits.  (If
\* it has, each may be given the other's answer, as one counter stands for both.)
THEOREM StartupInvariance ==
  ASSUME Alone
  PROVE  Spec => []IInv
<1>1. IInv /\ [Next]_vars => IInv'
  BY IInvNext
<1>2. QED  BY IInvInit, <1>1, PTL DEF Spec

\* HUB_0 is the control hub, HUB_1 the expansion hub and never without the other, and each
\* has its own range of commands and its line.
LEMMA HubsKnownIs == IInv => HubsKnown
<1> SUFFICES ASSUME IInv PROVE HubsKnown
  OBVIOUS
<1>1. InitInv
  BY DEF IInv
<1>2. /\ hub0 \in {<< >>, << CtrlHub >>} /\ hub1 \in {<< >>, << ExHub(LineOf(Ex)) >>}
      /\ hub1 # << >> => hub0 # << >>
  BY <1>1 DEF InitInv, HubInv
<1>3. CtrlHub.addr = Ctrl /\ ExHub(LineOf(Ex)).addr = Ex /\ Ctrl # Ex
  BY Addresses DEF CtrlHub, ExHub
<1>4. hub0 # << >> => hub0[1].addr = Ctrl
  BY <1>2, <1>3
<1>5. hub1 # << >> => hub0 # << >> /\ hub1[1].addr = Ex
  BY <1>2, <1>3
<1>6. \A i \in DOMAIN hubs : hubs[i] \in ToSet(hubs)
  BY DEF ToSet
<1>7. \A i \in DOMAIN hubs : /\ hubs[i].first = Commanded[hubs[i].addr].first
                             /\ hubs[i].count = Commanded[hubs[i].addr].count
                             /\ hubs[i].line = LineOf(hubs[i].addr)
  BY <1>1, <1>6, HubsAre
<1>8. QED  BY <1>3, <1>4, <1>5, <1>7 DEF HubsKnown

\* How many packets of a place have a number.
Numbered(V, c, n) == {i \in DOMAIN V[c] : Num(c, V[c][i]) = n}

LEMMA OneAtMost ==
  ASSUME NEW V, NEW O, NEW x, Carried(V, O, x), NEW c \in Places, NEW n
  PROVE  Cardinality(Numbered(V, c, n)) = IF In(V, c, n) THEN 1 ELSE 0
<1>1. CASE In(V, c, n)
  <2>1. PICK i \in DOMAIN V[c] : Num(c, V[c][i]) = n
    BY <1>1 DEF In
  <2>2. Numbered(V, c, n) = {i}
    BY <2>1 DEF Numbered, Carried, Unique
  <2>3. QED  BY <1>1, <2>2, FS_Singleton
<1>2. CASE ~ In(V, c, n)
  <2>1. Numbered(V, c, n) = {}
    BY <1>2 DEF Numbered, In
  <2>2. QED  BY <1>2, <2>1, FS_EmptySet
<1>3. QED  BY <1>1, <1>2

\* While initialize waits, for as long as the threads run, one token and one query or answer
\* say so.
LEMMA AnswerKeptIs == IInv => AnswerKept
<1> SUFFICES ASSUME IInv, running PROVE AnswerKept
  BY DEF AnswerKept
<1> DEFINE At0(k, l) == In(Where, Spot(k, l), 0)
           N(k, l)   == IF At0(k, l) THEN 1 ELSE 0
<1>1. TypeInv /\ TokenInv /\ Carried(Where, Opened, ex)
  BY DEF IInv
<1>2. \A k \in {"down", "up", "regular"}, l \in Line : Spot(k, l) \in Places
  BY NumAt
<1>3. ASSUME NEW l \in Line
      PROVE  /\ Cardinality(Queries(down[l])) = N("down", l)
             /\ Cardinality(Queries(up[l])) = N("up", l)
             /\ Cardinality(Answers(regular[l])) = N("regular", l)
  <2>1. Queries(down[l]) = Numbered(Where, Spot("down", l), 0)
    BY WhereAt, NumAt DEF Queries, Numbered
  <2>2. Queries(up[l]) = Numbered(Where, Spot("up", l), 0)
    BY WhereAt, NumAt DEF Queries, Numbered
  <2>3. Answers(regular[l]) = Numbered(Where, Spot("regular", l), 0)
    <3>1. ASSUME NEW i \in DOMAIN regular[l]
          PROVE  regular[l][i].id = QueryInterfaceResponse <=> regular[l][i].ref = 0
      <4> DEFINE v == regular[l][i]
                 c == Spot("regular", l)
                 e == Opened[v.ref][1]
      <4>1. c \in Places /\ Where[c] = regular[l] /\ Num(c, v) = v.ref
        BY WhereAt, NumAt
      <4>2. Opened[v.ref] # << >> /\ Right(Opened[v.ref], ex, c, v)
        <5>1. i \in DOMAIN Where[c] /\ Where[c][i] = v
          BY <4>1
        <5> HIDE DEF v, c
        <5>2. QED  BY <1>1, <4>1, <5>1, HeldIsRight
      <4> HIDE DEF v
      <4>3. Right(Opened[v.ref], ex, Spot("regular", l), v) <=>
              /\ v.ref \in Nums \ {ProxyNum} /\ Opened[v.ref] # << >> /\ l = LineFor(ex, Opened[v.ref][1].to)
              /\ v.id = Opened[v.ref][1].rid
              /\ v.ref = 0 => v.values = << Commanded[Opened[v.ref][1].to].first, Commanded[Opened[v.ref][1].to].count >>
              /\ v.ref = BlazeNum => CommandAnswer(v, Opened[v.ref][1])
        BY RightRegular
      <4>4. v.ref \in Nums \ {ProxyNum} /\ v.id = e.rid
        BY <4>2, <4>3
      <4>5. CASE v.ref = 0
        <5>1. e = QueryOf(Target(init)) /\ Target(init) \in Hubs
          BY <1>1, <4>2, <4>4, <4>5, OpenExchange
        <5>2. e.rid = QueryInterfaceResponse
          BY <5>1, QueryIsExchange
        <5>3. QED  BY <4>4, <4>5, <5>2 DEF v
      <4>6. CASE v.ref = BlazeNum
        <5>1. e \in BlazeExchanges
          BY <1>1, <4>2, <4>4, <4>6, OpenExchange
        <5>2. e.rid # QueryInterfaceResponse /\ BlazeNum # 0
          BY <5>1, ExchangeAssumption, OpenedAt
        <5>3. QED  BY <4>4, <4>6, <5>2 DEF v
      <4>7. QED  BY <4>4, <4>5, <4>6 DEF Nums
    <3>2. Where[Spot("regular", l)] = regular[l] /\ \A v : Num(Spot("regular", l), v) = v.ref
      BY WhereAt, NumAt
    <3>3. QED  BY <3>1, <3>2 DEF Answers, Numbered, IsResponseData
  <2>4. QED  BY <1>1, <1>2, <2>1, <2>2, <2>3, OneAtMost
<1>4. Waiting \in Line
  BY DEF Waiting, Line
<1>5. /\ OnLine("serial") = N("down", "serial") + N("up", "serial")
      /\ OnLine("usb") = N("down", "usb") + N("up", "usb")
      /\ OnLine(Waiting) = N("down", Waiting) + N("up", Waiting)
      /\ Cardinality(Answers(regular[Waiting])) = N("regular", Waiting)
  <2>1. \A l \in Line : OnLine(l) = N("down", l) + N("up", l)
    BY <1>3 DEF OnLine
  <2>2. QED  BY <1>3, <1>4, <2>1 DEF Line
<1>6. CASE init = "none"
  <2>1. tokens = 0
    BY <1>1, <1>6 DEF TokenInv
  <2>2. \A k \in {"down", "up", "regular"}, l \in Line : ~ At0(k, l)
    <3>1. Opened[0] = << >>
      BY <1>6, OpenedAt DEF Opened
    <3>2. QED  BY <1>1, <1>2, <3>1, NotOpen
  <2> HIDE DEF At0
  <2>3. QED  BY <1>4, <1>5, <1>6, <2>1, <2>2 DEF AnswerKept, Line
<1>7. CASE init # "none"
  <2>1. PICK j \in {"down", "up", "regular"} :
          At0(j, Waiting) /\ tokens = IF j = "regular" THEN 0 ELSE 1
    BY <1>1, <1>7 DEF TokenInv
  <2>2. ASSUME NEW k \in {"down", "up", "regular"}, NEW l \in Line, At0(k, l)
        PROVE  k = j /\ l = Waiting
    <3>1. Spot(k, l) = Spot(j, Waiting)
      BY <1>1, <1>2, <1>4, <2>1, <2>2 DEF Carried, Unique, In
    <3>2. QED  BY <3>1 DEF Spot
  <2> HIDE DEF At0
  <2>3. QED  BY <1>4, <1>5, <1>7, <2>1, <2>2 DEF AnswerKept, Line
<1>8. QED  BY <1>6, <1>7

\* What reaches a line is what was meant for a module on it.
LEMMA AsMeantIs == IInv => AsMeant
<1> SUFFICES ASSUME IInv, NEW l \in Line, NEW i \in DOMAIN down[l]
             PROVE  LineOf(down[l][i][5]) = l /\ (down[l][i][7] # 0 => Meant(down[l][i]))
  BY DEF AsMeant
<1> DEFINE v == down[l][i]
           n == v[7]
           c == Spot("down", l)
           e == Opened[n][1]
<1>1. TypeInv /\ Carried(Where, Opened, ex)
  BY DEF IInv
<1>2. c \in Places /\ Where[c] = down[l] /\ Num(c, v) = n
  BY WhereAt, NumAt
<1>3. Opened[n] # << >> /\ Right(Opened[n], ex, c, v)
  <2>1. i \in DOMAIN Where[c] /\ Where[c][i] = v
    BY <1>2
  <2> HIDE DEF v, c, n
  <2>2. QED  BY <1>1, <1>2, <2>1, HeldIsRight
<1> HIDE DEF v
<1>4. Right(Opened[n], ex, Spot("down", l), v) <=>
        /\ v[7] \in Nums /\ Opened[n] # << >> /\ l = LineFor(ex, Opened[n][1].to)
        /\ v = RequestOf(v[7], Opened[n][1])
  BY RightDown
<1>5. n \in Nums /\ l = LineFor(ex, e.to) /\ v = RequestOf(n, e)
  BY <1>3, <1>4
<1>6. v[5] = e.to
  BY <1>1, <1>3, <1>5, OpenExchange, PacketParts
<1>7. LineOf(v[5]) = l
  BY <1>5, <1>6 DEF LineOf, LineFor
<1>8. ASSUME n # 0 PROVE Meant(v)
  <2>1. n = ProxyNum => Opened[n] = asked["sdk"]
    BY <1>1, <1>3, <1>5, OpenExchange
  <2>2. n # ProxyNum => Opened[n] = asked["blaze"]
    BY <1>1, <1>3, <1>5, <1>8, OpenExchange DEF Nums
  <2>3. Opened[n] = asked[IF n = ProxyNum THEN "sdk" ELSE "blaze"]
    BY <2>1, <2>2
  <2>4. v = Frame(e.to, 0, n, n, e.id, e.req)
    BY <1>5 DEF RequestOf
  <2>5. QED  BY <2>3, <2>4 DEF Meant
<1>9. QED  BY <1>7, <1>8 DEF v

\* What the SDK reads is what its hub answered.
LEMMA AsAnsweredIs == IInv => AsAnswered
<1> SUFFICES ASSUME IInv, NEW l \in Line
             PROVE  /\ \A i \in DOMAIN sdkReceive[l] : IntoBytes(sdkReceive[l][i]) = Answer
                    /\ heard[l] # << >> =>
                         heard[l] \o buffer[l] = SubSeq(Answer, had[l] + 1, Len(Answer))
  BY DEF AsAnswered
<1> DEFINE o == Opened[ProxyNum]
<1>1. TypeInv /\ Carried(Where, Opened, ex)
  BY DEF IInv
<1>2. o = asked["sdk"] /\ Answer = ToSdk(o[1])
  BY OpenedAt DEF Opened, Answer, ToSdk
<1>3. ASSUME NEW i \in DOMAIN sdkReceive[l]
      PROVE  IntoBytes(sdkReceive[l][i]) = Answer
  <2> DEFINE v == sdkReceive[l][i]
             c == Spot("sdk", l)
  <2>1. c \in Places /\ Where[c] = sdkReceive[l] /\ Num(c, v) = ProxyNum
    BY WhereAt, NumAt
  <2>2. i \in DOMAIN Where[c] /\ Where[c][i] = v
    BY <2>1
  <2> HIDE DEF v, c
  <2>3. Right(o, ex, c, v)
    BY <1>1, <2>1, <2>2, HeldIsRight
  <2> HIDE DEF o
  <2>4. Right(o, ex, Spot("sdk", l), v) <=>
          o # << >> /\ l = LineFor(ex, o[1].to) /\ IntoBytes(v) = ToSdk(o[1])
    BY RightSdk
  <2>5. QED  BY <1>2, <2>3, <2>4 DEF v, c
<1>4. ASSUME heard[l] # << >>
      PROVE  heard[l] \o buffer[l] = SubSeq(Answer, had[l] + 1, Len(Answer))
  <2> DEFINE w == heard[l] \o buffer[l]
             v == << had[l], w >>
             c == Spot("heard", l)
  <2>1. c \in Places /\ Where[c] = << v >> /\ Num(c, v) = ProxyNum
    <3>1. Hearing[l] = << v >>
      BY <1>4, HearingNow
    <3> HIDE DEF v
    <3>2. QED  BY <3>1, WhereAt, NumAt
  <2>2. v[1] = had[l] /\ v[2] = w
    BY Pair
  <2> HIDE DEF v, c, w
  <2>3. 1 \in DOMAIN Where[c] /\ Where[c][1] = v
    BY <2>1
  <2>4. Right(o, ex, c, v)
    BY <1>1, <2>1, <2>3, HeldIsRight
  <2> HIDE DEF o
  <2>5. Right(o, ex, Spot("heard", l), v) <=>
          /\ o # << >> /\ l = LineFor(ex, o[1].to)
          /\ v[2] = SubSeq(ToSdk(o[1]), v[1] + 1, Len(ToSdk(o[1])))
    BY RightHeard
  <2>6. QED  BY <1>2, <2>2, <2>4, <2>5 DEF w, c
<1>5. QED  BY <1>3, <1>4

\* Blaze's handlers are given the answer as the command it is.
LEMMA RecognisedIs == IInv => Recognised
<1> SUFFICES ASSUME IInv, NEW l \in Line, NEW i \in DOMAIN regular[l], regular[l][i].ref = BlazeNum
             PROVE  CommandAnswer(regular[l][i], asked["blaze"][1])
  BY DEF Recognised, CommandAnswer
<1> DEFINE v == regular[l][i]
           c == Spot("regular", l)
           o == Opened[BlazeNum]
<1>1. TypeInv /\ Carried(Where, Opened, ex)
  BY DEF IInv
<1>2. c \in Places /\ Where[c] = regular[l] /\ Num(c, v) = BlazeNum
  BY WhereAt, NumAt
<1>3. i \in DOMAIN Where[c] /\ Where[c][i] = v
  BY <1>2
<1>4. o = asked["blaze"]
  BY OpenedAt DEF Opened
<1> HIDE DEF v, c
<1>5. Right(o, ex, c, v)
  BY <1>1, <1>2, <1>3, HeldIsRight
<1> HIDE DEF o
<1>6. Right(o, ex, Spot("regular", l), v) <=>
        /\ v.ref \in Nums \ {ProxyNum} /\ o # << >> /\ l = LineFor(ex, o[1].to) /\ v.id = o[1].rid
        /\ v.ref = 0 => v.values = << Commanded[o[1].to].first, Commanded[o[1].to].count >>
        /\ v.ref = BlazeNum => CommandAnswer(v, o[1])
  BY RightRegular
<1>7. v.ref = BlazeNum
  BY DEF v
<1>8. QED  BY <1>4, <1>5, <1>6, <1>7 DEF v, c

\* HUB_0 is the control hub and HUB_1 the expansion hub, each with its own range of commands
\* and on its own line, although initialize takes any module's answer for the one it waits
\* for (hardware.rs, lib.rs): there is no other to take.
THEOREM HubsKnownAlways == ASSUME Alone PROVE Spec => []HubsKnown
BY StartupInvariance, HubsKnownIs, PTL

\* The answer that initialize waits for, without a timeout, is not given to anyone else: its
\* one query, or the answer, is where it listens, with one token until it is handed over.
THEOREM AnswerKeptAlways == ASSUME Alone PROVE Spec => []AnswerKept
BY StartupInvariance, AnswerKeptIs, PTL

\* A packet reaches the line of the module it is for as the bytes the SDK wrote or a
\* handler of Blaze meant but for the numbers, for every payload the codec keeps.
THEOREM AsMeantAlways == ASSUME Alone PROVE Spec => []AsMeant
BY StartupInvariance, AsMeantIs, PTL

\* The SDK reads byte for byte what its hub answered, in its own numbers, wherever its
\* reader was in a frame when the streams were changed under it.
THEOREM AsAnsweredAlways == ASSUME Alone PROVE Spec => []AsAnswered
BY StartupInvariance, AsAnsweredIs, PTL

\* Blaze's handlers are given an answer as the command it is of the hub they asked.
THEOREM RecognisedAlways == ASSUME Alone PROVE Spec => []Recognised
BY StartupInvariance, RecognisedIs, PTL

=============================================================================
