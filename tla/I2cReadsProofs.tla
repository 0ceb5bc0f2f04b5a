--------------------------- MODULE I2cReadsProofs ---------------------------
(***************************************************************************)
(* What a device may rely on, for any number of devices and of message     *)
(* numbers and any rates that TimeAssumption allows: whatever is lost, the *)
(* types and a chain that does not split; on one line, whatever is lost,   *)
(* that there are no more strange numbers in the lists than answers were   *)
(* lost or early; and, as long as nothing is lost there, that a list has   *)
(* exactly the numbers of the packets under way, from which the rest       *)
(* follows.  With more lines a device may take the answer to another's     *)
(* query (i2c_device.rs:70).                                               *)
(***************************************************************************)
EXTENDS I2cReads, FiniteSetTheorems, WellFoundedInduction, TLAPS

OneLink == \A k, l \in Link : k = l

-----------------------------------------------------------------------------
(* The parts of the inductive invariant.                                   *)

\* A packet goes to its device's hub, and its clock shows how far it has come.
PacketInv ==
  \A p \in packets :
    /\ p.from = Other <=> p.what \in {"command", "bulk"}
    /\ p.from # Other => p.from \in onRobot /\ p.link = LinkOf[p.from]
    /\ IF p.sent THEN p.clock <= AnswerTime
                 ELSE p.what = "query" /\ Timed(p.from) /\ p.clock <= Delay

\* A number is in use once on a line; the one about to be listed is its write-read's.
NumberInv ==
  /\ \A p, q \in packets : p.link = q.link /\ p.num = q.num => p = q
  /\ adding # Nobody =>
       /\ adding.dev \in scheduled /\ ~ Timed(adding.dev)
       /\ \A p \in packets : p.link = LinkOf[adding.dev] /\ p.num = adding.num
                               => p.from = adding.dev /\ p.what = "write"

StartInv == \A d \in Device \ onRobot : \A n \in Num : pif[d][n] = 0

ChainInv == \A d \in Device \ scheduled : OneListed(d)

\* The parts that hold as long as nothing is lost.

Awaits(p, d, n) == p.from = d /\ p.num = n /\ Listed(p)
Awaited(d, n) == \E p \in packets : Awaits(p, d, n)

\* lists has once the numbers of the packets ps, but for the one about to be listed.
Match(lists, ps) ==
  \A d \in Device, n \in Num :
    /\ lists[d][n] \in {0, 1}
    /\ lists[d][n] = 1 <=> /\ [dev |-> d, num |-> n] # adding
                           /\ \E p \in ps : Awaits(p, d, n)

ListInv == Match(pif, packets)

AddInv == adding # Nobody => Awaited(adding.dev, adding.num)

GoesOn == \A d \in onRobot \ (scheduled \cup quiet) : \E n \in Num : Awaited(d, n)

SoleInv == \A d \in scheduled : \A m, n \in Num : Awaited(d, m) /\ Awaited(d, n) => m = n

\* How long ago, at most, the turn was that the packet comes from.
Begun(p) ==
  IF ~ p.sent THEN Delay - p.clock
  ELSE IF p.what = "write" THEN p.clock
  ELSE p.clock + (IF Timed(p.from) THEN Delay ELSE AnswerTime)

\* While a packet of a scheduled device is under way, it is not yet time for the next turn,
\* or the order pauses for longer than the packet's answer can take.
InTime(p) ==
  \/ since[p.from] <= Begun(p)
  \/ p.what = "query" /\ p.sent /\ Heard(p.from) + p.clock >= PauseTime

TimeInv == \A p \in packets : p.from \in scheduled /\ Listed(p) => InTime(p)

SafeInv == TypeOK /\ PacketInv /\ NumberInv /\ StartInv /\ ChainInv
CleanInv == ListInv /\ AddInv /\ GoesOn /\ SoleInv /\ TimeInv /\ ~ strange
IInv == SafeInv /\ (Clean => CleanInv)

-----------------------------------------------------------------------------
(* Lemmas about packets and lists.                                         *)

LEMMA Times ==
  /\ AnswerTime \in Nat /\ AnswerTime > 0 /\ PauseTime \in Nat /\ Rate \in Nat
  /\ AnswerTime < PauseTime
  /\ Delay \in Int
  /\ \A d \in Device : /\ Timed(d) => Delay \in Nat /\ AnswerTime + Delay < Rate
                       /\ ~ Timed(d) => AnswerTime + AnswerTime < Rate
                       /\ AnswerTime < Rate
<1>1. Delay \in Nat \cup {-1} BY DeviceAssumption DEF NoDelay
<1>2. ASSUME NEW d \in Device
      PROVE  /\ Timed(d) => Delay \in Nat /\ AnswerTime + Delay < Rate
             /\ ~ Timed(d) => AnswerTime + AnswerTime < Rate
  <2>1. Timed(d) => Delay \in Nat BY <1>1 DEF Timed, NoDelay
  <2>2. AnswerTime + (IF Timed(d) THEN Delay ELSE AnswerTime) < Rate BY TimeAssumption
  <2> QED BY <2>1, <2>2
<1> QED BY <1>1, <1>2, TimeAssumption

LEMMA OfDevice ==
  ASSUME NEW d \in Device
  PROVE  /\ LinkOf[d] \in Link /\ d # Other
         /\ ~ Timed(Other)
BY DeviceAssumption DEF Timed

LEMMA WriteReadIs ==
  ASSUME NEW d \in Device, NEW n \in Num
  PROVE  LET p == WriteRead(d, n) IN
           /\ p \in PacketType
           /\ p.link = LinkOf[d] /\ p.num = n /\ p.from = d /\ p.what = "write"
           /\ p.sent /\ p.clock = 0
           /\ Listed(p) <=> ~ Timed(d)
BY OfDevice DEF WriteRead, Packet, PacketType, Listed

LEMMA QueryIs ==
  ASSUME NEW d \in Device, NEW n \in Num, NEW wait \in Nat
  PROVE  LET p == Query(d, n, wait) IN
           /\ p \in PacketType
           /\ p.link = LinkOf[d] /\ p.num = n /\ p.from = d /\ p.what = "query"
           /\ p.sent <=> wait = 0
           /\ p.clock = wait
           /\ Listed(p)
BY OfDevice DEF Query, Packet, PacketType, Listed

\* What is sent uses numbers that no packet of the line has, nor the one about to be listed.
LEMMA FreshIs ==
  ASSUME NEW ps, NEW l, NEW n \in Fresh(ps, l)
  PROVE  /\ n \in Num
         /\ \A p \in ps : p.link = l => p.num # n
         /\ adding # Nobody /\ LinkOf[adding.dev] = l => adding.num # n
<1>1. n \in Num /\ n \notin {p.num : p \in {q \in ps : q.link = l}}
      /\ (adding # Nobody /\ LinkOf[adding.dev] = l => n \notin {adding.num})
  BY DEF Fresh, Busy
<1>2. \A p \in ps : p.link = l => p.num # n
  <2> SUFFICES ASSUME NEW p \in ps, p.link = l PROVE p.num # n OBVIOUS
  <2>1. p \in {q \in ps : q.link = l} OBVIOUS
  <2> QED BY <1>1, <2>1
<1> QED BY <1>1, <1>2

LEMMA WithIs ==
  ASSUME NEW lists \in [Device -> [Num -> Nat]], NEW d \in Device, NEW n \in Num
  PROVE  LET new == With(lists, d, n) IN
           /\ new \in [Device -> [Num -> Nat]]
           /\ new[d][n] = lists[d][n] + 1
           /\ \A m \in Num \ {n} : new[d][m] = lists[d][m]
           /\ \A e \in Device \ {d} : new[e] = lists[e]
BY DEF With

LEMMA WithoutIs ==
  ASSUME NEW lists \in [Device -> [Num -> Nat]], NEW d \in Device, NEW n \in Num
  PROVE  LET new == Without(lists, d, n) IN
           /\ new \in [Device -> [Num -> Nat]]
           /\ lists[d][n] > 0 => new[d][n] = lists[d][n] - 1
           /\ lists[d][n] = 0 => new[d][n] = 0
           /\ \A m \in Num \ {n} : new[d][m] = lists[d][m]
           /\ \A e \in Device \ {d} : new[e] = lists[e]
<1> DEFINE x == IF lists[d][n] > 0 THEN lists[d][n] - 1 ELSE 0
<1>1. x \in Nat OBVIOUS
<1>2. Without(lists, d, n) = [lists EXCEPT ![d] = [lists[d] EXCEPT ![n] = x]]
  BY DEF Without
<1>3. [lists[d] EXCEPT ![n] = x] \in [Num -> Nat] BY <1>1
<1> QED BY <1>2, <1>3

\* S is sent for device d beside the packets ps, and n is the number that goes to its list.
Sends(d, S, ps, n) ==
  /\ S \subseteq PacketType
  /\ \A s \in S : /\ s.from = d /\ s.link = LinkOf[d] /\ s.num \in Fresh(ps, LinkOf[d])
                  /\ s.what \in {"write", "query"}
                  /\ IF s.sent THEN s.clock = 0
                               ELSE s.what = "query" /\ Timed(d) /\ s.clock = Delay
                  /\ Listed(s) <=> s.num = n
  /\ \A s, t \in S : s.num = t.num => s = t
  /\ \E s \in S : s.num = n
  /\ n \in Num

LEMMA ReadSends ==
  ASSUME NEW d \in Device, NEW ps, NEW r \in Reads(d, ps)
  PROVE  /\ Sends(d, r.sends, ps, r.lists)
         /\ r.lists \in Fresh(ps, LinkOf[d])
         /\ ~ Timed(d) => r.sends = {WriteRead(d, r.lists)}
<1>1. CASE Timed(d)
  <2>1. PICK m \in Fresh(ps, LinkOf[d]), n \in Fresh(ps, LinkOf[d]) :
          n # m /\ r = [sends |-> {WriteRead(d, m), Query(d, n, Delay)}, lists |-> n]
    BY <1>1 DEF Reads
  <2>2. m \in Num /\ n \in Num BY <2>1, FreshIs
  <2>3. Delay \in Nat BY <1>1, Times
  <2> DEFINE w == WriteRead(d, m)
             q == Query(d, n, Delay)
  <2>4. /\ w \in PacketType /\ w.link = LinkOf[d] /\ w.num = m /\ w.from = d /\ w.what = "write"
        /\ w.sent /\ w.clock = 0 /\ ~ Listed(w)
    BY <1>1, <2>2, WriteReadIs
  <2>5. /\ q \in PacketType /\ q.link = LinkOf[d] /\ q.num = n /\ q.from = d /\ q.what = "query"
        /\ q.sent <=> Delay = 0
        /\ q.clock = Delay /\ Listed(q)
    BY <2>2, <2>3, QueryIs
  <2> HIDE DEF w, q
  <2>6. r.sends = {w, q} /\ r.lists = n BY <2>1 DEF w, q
  <2> QED BY <1>1, <2>1, <2>2, <2>4, <2>5, <2>6 DEF Sends
<1>2. CASE ~ Timed(d)
  <2>1. PICK n \in Fresh(ps, LinkOf[d]) : r = [sends |-> {WriteRead(d, n)}, lists |-> n]
    BY <1>2 DEF Reads
  <2>2. n \in Num BY <2>1, FreshIs
  <2> DEFINE w == WriteRead(d, n)
  <2>3. /\ w \in PacketType /\ w.link = LinkOf[d] /\ w.num = n /\ w.from = d /\ w.what = "write"
        /\ w.sent /\ w.clock = 0 /\ Listed(w)
    BY <1>2, <2>2, WriteReadIs
  <2> HIDE DEF w
  <2>4. r.sends = {w} /\ r.lists = n BY <2>1 DEF w
  <2> QED BY <1>2, <2>1, <2>2, <2>3, <2>4 DEF Sends, w
<1> QED BY <1>1, <1>2

LEMMA QuerySends ==
  ASSUME NEW d \in Device, NEW ps, NEW n \in Fresh(ps, LinkOf[d])
  PROVE  Sends(d, {Query(d, n, 0)}, ps, n)
<1> DEFINE q == Query(d, n, 0)
<1>1. n \in Num BY FreshIs
<1>2. /\ q \in PacketType /\ q.link = LinkOf[d] /\ q.num = n /\ q.from = d /\ q.what = "query"
      /\ q.sent /\ q.clock = 0 /\ Listed(q)
  BY <1>1, QueryIs
<1> HIDE DEF q
<1>3. Sends(d, {q}, ps, n) BY <1>1, <1>2 DEF Sends
<1> QED BY <1>3 DEF q

\* A device sends, and lists the number: a read, or a query again after an answer.
Fires(d, ps, lists) ==
  \E S, n : Sends(d, S, ps, n) /\ packets' = ps \cup S /\ pif' = With(lists, d, n)

LEMMA FireReadFires ==
  ASSUME NEW d \in Device, NEW ps, NEW lists, FireRead(d, ps, lists)
  PROVE  Fires(d, ps, lists)
BY ReadSends DEF FireRead, Fires

LEMMA RequeryFires ==
  ASSUME NEW d \in Device, NEW p, Requery(d, p)
  PROVE  Fires(d, packets \ {p}, Without(pif, d, p.num))
BY QuerySends DEF Requery, Fires

-----------------------------------------------------------------------------
(* Type correctness.                                                       *)

LEMMA TypeOfFires ==
  ASSUME TypeOK, NEW d \in Device, NEW ps \in SUBSET PacketType,
         NEW lists \in [Device -> [Num -> Nat]], Fires(d, ps, lists)
  PROVE  packets' \subseteq PacketType /\ pif' \in [Device -> [Num -> Nat]]
<1>1. PICK S, n : Sends(d, S, ps, n) /\ packets' = ps \cup S /\ pif' = With(lists, d, n)
  BY DEF Fires
<1> QED BY <1>1, WithIs DEF Sends

\* What an answer is, and the numbers left when its device has taken it.
LEMMA OfAnswer ==
  ASSUME TypeOK, NEW d \in Device, NEW p \in packets
  PROVE  /\ packets \ {p} \in SUBSET PacketType
         /\ p.num \in Num
         /\ Without(pif, d, p.num) \in [Device -> [Num -> Nat]]
<1>1. p \in PacketType /\ p.num \in Num BY DEF TypeOK, PacketType
<1> QED BY <1>1, WithoutIs DEF TypeOK

LEMMA TypeInit == Init => TypeOK
<1> SUFFICES ASSUME Init PROVE TypeOK OBVIOUS
<1>1. pif \in [Device -> [Num -> Nat]] BY DEF Init
<1>2. since \in [Device -> 0 .. Rate] /\ told \in [Device -> 0 .. PauseTime]
      /\ silent \in [Device -> -1 .. PauseTime]
  BY Times DEF Init
<1> QED BY <1>1, <1>2 DEF Init, TypeOK

LEMMA TypeTurn ==
  ASSUME TypeOK, NEW d \in Device, Turn(d)
  PROVE  TypeOK'
<1>1. since' \in [Device -> 0 .. Rate] /\ told' \in [Device -> 0 .. PauseTime]
  BY Times DEF Turn, TypeOK
<1>2. Heard(d) \in -1 .. PauseTime BY Times DEF Heard, TypeOK
<1>3. CASE TurnSilent(d)
  BY <1>1, <1>2, <1>3, Times DEF Turn, TurnSilent, TypeOK, ghosts
<1>4. CASE TurnRead(d)
  <2>1. silent' \in [Device -> -1 .. PauseTime] BY <1>4, Times DEF TurnRead, TypeOK
  <2>2. CASE Timed(d)
    <3>1. packets' \subseteq PacketType /\ pif' \in [Device -> [Num -> Nat]] /\ adding' = adding
      BY <1>4, <2>2, FireReadFires, TypeOfFires DEF TurnRead, TypeOK
    <3> QED BY <1>1, <2>1, <3>1 DEF Turn, TypeOK, ghosts
  <2>3. CASE ~ Timed(d)
    <3>1. PICK r \in Reads(d, packets) :
            packets' = packets \cup r.sends /\ adding' = [dev |-> d, num |-> r.lists] /\ pif' = pif
      BY <1>4, <2>3 DEF TurnRead
    <3>2. r.sends \subseteq PacketType /\ r.lists \in Num BY ReadSends DEF Sends
    <3> QED BY <1>1, <2>1, <3>1, <3>2 DEF Turn, TypeOK, ghosts
  <2> QED BY <2>2, <2>3
<1> QED BY <1>3, <1>4 DEF Turn

LEMMA TypeAnswer ==
  ASSUME TypeOK, NEW d \in Device, NEW p \in packets, Handle(d, p)
  PROVE  TypeOK'
<1>1. stray' \in Nat BY DEF Handle, Ack, Nack, Data, Answered, TypeOK
<1>2. told' \in [Device -> 0 .. PauseTime]
  BY Times DEF Handle, Ack, Nack, Data, TypeOK, timing
<1>3. packets' \subseteq PacketType /\ pif' \in [Device -> [Num -> Nat]]
  <2>1. CASE Requery(d, p) BY <2>1, OfAnswer, RequeryFires, TypeOfFires
  <2>2. CASE FireRead(d, packets \ {p}, Without(pif, d, p.num))
    BY <2>2, OfAnswer, FireReadFires, TypeOfFires
  <2>3. CASE packets' = packets \ {p} /\ pif' = Without(pif, d, p.num) BY <2>3, OfAnswer
  <2> QED BY <2>1, <2>2, <2>3 DEF Handle, Ack, Nack, Data
<1> QED BY <1>1, <1>2, <1>3 DEF Handle, Ack, Nack, Data, TypeOK, timing

LEMMA TypePassOn ==
  ASSUME TypeOK, NEW p \in packets, PassOn(p)
  PROVE  TypeOK'
<1>1. stray' \in Nat BY DEF PassOn, Answered, TypeOK
<1>2. \A e \in Device : Without(pif, e, p.num)[e] \in [Num -> Nat] BY OfAnswer
<1>3. pif' \in [Device -> [Num -> Nat]] BY <1>2 DEF PassOn
<1> QED BY <1>1, <1>3 DEF PassOn, TypeOK, timing

LEMMA TypeTick ==
  ASSUME TypeOK, Tick
  PROVE  TypeOK'
<1>1. packets' \subseteq PacketType
  <2> SUFFICES ASSUME NEW p \in packets
               PROVE [p EXCEPT !.clock = IF p.sent THEN @ + 1 ELSE @ - 1] \in PacketType
    BY DEF Tick
  <2>1. p \in PacketType /\ p.clock \in Nat /\ (~ p.sent => p.clock > 0)
    BY DEF Tick, TypeOK, PacketType
  <2> QED BY <2>1 DEF PacketType
<1>2. since' \in [Device -> 0 .. Rate] BY Times DEF Tick, TypeOK
<1>3. told' \in [Device -> 0 .. PauseTime] /\ silent' \in [Device -> -1 .. PauseTime]
  BY Times DEF Tick, TypeOK, Down
<1> QED BY <1>1, <1>2, <1>3 DEF Tick, TypeOK, ghosts

LEMMA TypeStep ==
  ASSUME TypeOK, [Next]_vars
  PROVE  TypeOK'
<1>1. ASSUME NEW d \in Device, PutOnRobot(d) PROVE TypeOK'
  <2>1. CASE FireRead(d, packets, pif)
    <3>1. packets' \subseteq PacketType /\ pif' \in [Device -> [Num -> Nat]]
      BY <2>1, FireReadFires, TypeOfFires DEF TypeOK
    <3> QED BY <1>1, <3>1 DEF PutOnRobot, TypeOK, timing, ghosts
  <2>2. CASE UNCHANGED << packets, pif >> BY <1>1, <2>2 DEF PutOnRobot, TypeOK, timing, ghosts
  <2> QED BY <1>1, <2>1, <2>2 DEF PutOnRobot
<1>2. ASSUME NEW d \in Device, Hush(d) PROVE TypeOK'
  BY <1>2 DEF Hush, TypeOK, timing, ghosts
<1>3. CASE AddPif
  <2>1. adding.dev \in Device /\ adding.num \in Num BY <1>3 DEF AddPif, TypeOK
  <2> QED BY <1>3, <2>1, WithIs DEF AddPif, TypeOK, timing, ghosts
<1>4. ASSUME NEW p \in packets, SendDeferred(p) PROVE TypeOK'
  <2>1. [p EXCEPT !.sent = TRUE] \in PacketType BY DEF TypeOK, PacketType
  <2> QED BY <1>4, <2>1 DEF SendDeferred, TypeOK, timing, ghosts
<1>5. ASSUME NEW p \in packets, Lose(p) PROVE TypeOK'
  BY <1>5 DEF Lose, TypeOK, timing
<1>6. ASSUME NEW l \in Link, SendOther(l) PROVE TypeOK'
  <2>1. \A n \in Fresh(packets, l), what \in {"command", "bulk"} :
          Packet(l, n, Other, what, 0) \in PacketType
    BY FreshIs DEF Packet, PacketType
  <2> QED BY <1>6, <2>1 DEF SendOther, TypeOK, timing, ghosts
<1>7. CASE UNCHANGED vars BY <1>7 DEF vars, timing, ghosts, TypeOK
<1> QED BY <1>1, <1>2, <1>3, <1>4, <1>5, <1>6, <1>7, TypeTurn, TypeAnswer, TypePassOn, TypeTick DEF Next
-----------------------------------------------------------------------------
(* Packets and their numbers.                                              *)

\* A device is not put aside while a packet is under way.
Grows == onRobot \subseteq onRobot' /\ scheduled \subseteq scheduled'

LEMMA KeptByLess ==
  ASSUME PacketInv, NumberInv, Grows, packets' \subseteq packets, adding' \in {adding, Nobody}
  PROVE  PacketInv' /\ NumberInv'
BY DEF PacketInv, NumberInv, Grows, Listed

LEMMA KeptByFires ==
  ASSUME TypeOK, PacketInv, NumberInv, Grows, UNCHANGED adding,
         NEW d \in Device, d \in onRobot', NEW ps \in SUBSET packets, NEW lists, Fires(d, ps, lists)
  PROVE  PacketInv' /\ NumberInv'
<1>1. PICK S, n : Sends(d, S, ps, n) /\ packets' = ps \cup S BY DEF Fires
<1>2. ASSUME NEW s \in S
      PROVE  /\ s.num \in Num /\ \A p \in ps : p.link = LinkOf[d] => p.num # s.num
             /\ adding # Nobody /\ LinkOf[adding.dev] = LinkOf[d] => adding.num # s.num
  BY <1>1, FreshIs DEF Sends
<1>3. PacketInv'
  <2>1. ASSUME NEW p \in ps
        PROVE  /\ p.from = Other <=> p.what \in {"command", "bulk"}
               /\ p.from # Other => p.from \in onRobot' /\ p.link = LinkOf[p.from]
               /\ IF p.sent THEN p.clock <= AnswerTime
                            ELSE p.what = "query" /\ Timed(p.from) /\ p.clock <= Delay
    BY DEF PacketInv, Grows
  <2>2. ASSUME NEW p \in S
        PROVE  /\ p.from = Other <=> p.what \in {"command", "bulk"}
               /\ p.from # Other => p.from \in onRobot' /\ p.link = LinkOf[p.from]
               /\ IF p.sent THEN p.clock <= AnswerTime
                            ELSE p.what = "query" /\ Timed(p.from) /\ p.clock <= Delay
    <3>1. p.clock <= Delay \/ p.sent BY <1>1, Times DEF Sends
    <3> QED BY <1>1, <3>1, OfDevice, Times DEF Sends
  <2> QED BY <1>1, <2>1, <2>2 DEF PacketInv
<1>4. \A p, q \in packets' : p.link = q.link /\ p.num = q.num => p = q
  BY <1>1, <1>2 DEF NumberInv, Sends
<1>5. ASSUME adding # Nobody
      PROVE  \A p \in packets' : p.link = LinkOf[adding.dev] /\ p.num = adding.num
                                   => p.from = adding.dev /\ p.what = "write"
  BY <1>1, <1>2, <1>5 DEF NumberInv, Sends
<1> QED BY <1>3, <1>4, <1>5 DEF NumberInv, Grows

LEMMA KeptByTurn ==
  ASSUME TypeOK, PacketInv, NumberInv, NEW d \in Device, Turn(d)
  PROVE  PacketInv' /\ NumberInv'
<1>1. Grows /\ d \in scheduled /\ d \in onRobot /\ d \in onRobot' /\ scheduled' = scheduled
      /\ onRobot' = onRobot /\ adding = Nobody
  BY DEF Turn, Grows, TypeOK
<1>2. CASE TurnSilent(d) BY <1>1, <1>2, KeptByLess DEF TurnSilent
<1>3. CASE TurnRead(d) /\ Timed(d)
  BY <1>1, <1>3, FireReadFires, KeptByFires DEF TurnRead
<1>4. CASE TurnRead(d) /\ ~ Timed(d)
  <2>1. PICK r \in Reads(d, packets) :
          packets' = packets \cup r.sends /\ adding' = [dev |-> d, num |-> r.lists]
    BY <1>4 DEF TurnRead
  <2> DEFINE w == WriteRead(d, r.lists)
  <2>2. r.lists \in Fresh(packets, LinkOf[d]) /\ packets' = packets \cup {w} BY <1>4, <2>1, ReadSends
  <2>3. r.lists \in Num /\ \A p \in packets : p.link = LinkOf[d] => p.num # r.lists
    BY <2>2, FreshIs
  <2>4. w.link = LinkOf[d] /\ w.num = r.lists /\ w.from = d /\ w.what = "write" /\ w.sent
        /\ w.clock = 0
    BY <2>3, WriteReadIs
  <2> HIDE DEF w
  <2>5. d # Other BY OfDevice
  <2>6. PacketInv' BY <1>1, <2>2, <2>4, <2>5, Times DEF PacketInv
  <2>7. adding'.dev = d /\ adding'.num = r.lists BY <2>1
  <2>8. NumberInv' BY <1>1, <1>4, <2>2, <2>3, <2>4, <2>7 DEF NumberInv
  <2> QED BY <2>6, <2>8
<1> QED BY <1>2, <1>3, <1>4 DEF Turn

\* What a device does with an answer: it loses the number, and may send again.
LEMMA OfHandle ==
  ASSUME NEW d \in Device, NEW p \in packets, Handle(d, p)
  PROVE  /\ Grows /\ UNCHANGED << onRobot, scheduled, adding, quiet, since, silent >>
         /\ p.sent /\ p.what \in {"write", "command", "query"} /\ pif[d][p.num] > 0
         /\ \/ packets' = packets \ {p} /\ pif' = Without(pif, d, p.num) /\ d \in scheduled \cup quiet
               /\ p.what = "query"
            \/ Fires(d, packets \ {p}, Without(pif, d, p.num))
BY RequeryFires, FireReadFires
   DEF Handle, Ack, Nack, Data, Acks, Nacks, TakenBy, IsPif, Answered, Grows, timing

LEMMA OnRobot ==
  ASSUME StartInv, NEW d \in Device, NEW n \in Num, pif[d][n] > 0
  PROVE  d \in onRobot
BY DEF StartInv

LEMMA KeptByTick ==
  ASSUME TypeOK, PacketInv, NumberInv, Tick
  PROVE  PacketInv' /\ NumberInv'
<1> DEFINE Later(p) == [p EXCEPT !.clock = IF p.sent THEN @ + 1 ELSE @ - 1]
<1>1. packets' = {Later(p) : p \in packets} BY DEF Tick
<1>2. ASSUME NEW p \in packets
      PROVE  LET q == Later(p) IN
               /\ q.link = p.link /\ q.num = p.num /\ q.from = p.from /\ q.what = p.what
               /\ q.sent = p.sent
               /\ p.sent => q.clock = p.clock + 1
               /\ ~ p.sent => q.clock = p.clock - 1
  BY DEF TypeOK, PacketType
<1>3. ASSUME NEW p \in packets
      PROVE  p.clock \in Nat /\ IF p.sent THEN p.clock < AnswerTime ELSE p.clock > 0
  BY DEF Tick, TypeOK, PacketType
<1> HIDE DEF Later
<1>4. PacketInv'
  <2> SUFFICES ASSUME NEW p \in packets
      PROVE /\ Later(p).from = Other <=> Later(p).what \in {"command", "bulk"}
            /\ Later(p).from # Other =>
                 Later(p).from \in onRobot /\ Later(p).link = LinkOf[Later(p).from]
            /\ IF Later(p).sent THEN Later(p).clock <= AnswerTime
               ELSE /\ Later(p).what = "query" /\ Timed(Later(p).from)
                    /\ Later(p).clock <= Delay
    BY <1>1 DEF PacketInv, Tick
  <2> QED BY <1>2, <1>3, Times DEF PacketInv
<1>5. NumberInv' BY <1>1, <1>2 DEF NumberInv, Tick
<1> QED BY <1>4, <1>5

LEMMA KeptByDeferred ==
  ASSUME TypeOK, PacketInv, NumberInv, NEW p \in packets, SendDeferred(p)
  PROVE  PacketInv' /\ NumberInv'
<1> DEFINE s == [p EXCEPT !.sent = TRUE]
<1>1. /\ s.link = p.link /\ s.num = p.num /\ s.from = p.from /\ s.what = p.what
      /\ s.sent /\ s.clock = 0
  BY DEF SendDeferred, TypeOK, PacketType
<1>2. packets' = (packets \ {p}) \cup {s} /\ UNCHANGED << onRobot, scheduled, adding >>
  BY DEF SendDeferred
<1> HIDE DEF s
<1>3. PacketInv' BY <1>1, <1>2, Times DEF PacketInv
<1>4. NumberInv' BY <1>1, <1>2 DEF NumberInv
<1> QED BY <1>3, <1>4

LEMMA KeptByOther ==
  ASSUME TypeOK, PacketInv, NumberInv, NEW l \in Link, SendOther(l)
  PROVE  PacketInv' /\ NumberInv'
<1>1. PICK n \in Fresh(packets, l), what \in {"command", "bulk"} :
        packets' = packets \cup {Packet(l, n, Other, what, 0)}
  BY DEF SendOther
<1> DEFINE s == Packet(l, n, Other, what, 0)
<1>2. s.link = l /\ s.num = n /\ s.from = Other /\ s.what = what /\ s.sent /\ s.clock = 0
  BY DEF Packet
<1>3. packets' = packets \cup {s} /\ UNCHANGED << onRobot, scheduled, adding >>
  BY <1>1 DEF SendOther
<1> HIDE DEF s
<1>4. PacketInv' BY <1>2, <1>3, Times DEF PacketInv
<1>5. \A p \in packets : p.link = l => p.num # n BY FreshIs
<1>6. adding # Nobody /\ LinkOf[adding.dev] = l => adding.num # n BY FreshIs
<1>7. NumberInv' BY <1>2, <1>3, <1>5, <1>6 DEF NumberInv
<1> QED BY <1>4, <1>7

-----------------------------------------------------------------------------
(* Lists, whatever is lost.                                                *)

Empty(f) == \A n \in Num : f[n] = 0
One(f) == \A n \in Num : f[n] > 0 => f[n] = 1 /\ \A m \in Num \ {n} : f[m] = 0
ListsInv == StartInv /\ ChainInv

LEMMA ListsAre ==
  ListsInv <=> /\ \A d \in Device \ onRobot : Empty(pif[d])
               /\ \A d \in Device \ scheduled : One(pif[d])
BY DEF ListsInv, StartInv, ChainInv, OneListed, Empty, One

LEMMA EmptyThenOne ==
  ASSUME NEW lists \in [Device -> [Num -> Nat]], NEW d \in Device, NEW n \in Num, Empty(lists[d])
  PROVE  One(With(lists, d, n)[d])
<1> DEFINE new == With(lists, d, n)
<1>1. new[d][n] = lists[d][n] + 1 /\ \A m \in Num \ {n} : new[d][m] = lists[d][m] BY WithIs
<1> HIDE DEF new
<1>2. One(new[d]) BY <1>1 DEF Empty, One
<1> QED BY <1>2 DEF new

LEMMA OneThenEmpty ==
  ASSUME NEW lists \in [Device -> [Num -> Nat]], NEW d \in Device, NEW n \in Num,
         One(lists[d]), lists[d][n] > 0
  PROVE  Empty(Without(lists, d, n)[d])
<1> DEFINE new == Without(lists, d, n)
<1>1. new[d][n] = lists[d][n] - 1 /\ \A m \in Num \ {n} : new[d][m] = lists[d][m] BY WithoutIs
<1> HIDE DEF new
<1>2. Empty(new[d]) BY <1>1 DEF Empty, One
<1> QED BY <1>2 DEF new

LEMMA ListsByFires ==
  ASSUME TypeOK, ListsInv, Grows, NEW d \in Device, d \in onRobot',
         NEW ps, NEW lists \in [Device -> [Num -> Nat]], Fires(d, ps, lists),
         \A e \in Device \ {d} : lists[e] = pif[e],
         d \in scheduled \/ Empty(lists[d])
  PROVE  ListsInv'
<1>1. PICK n \in Num : pif' = With(lists, d, n) BY DEF Fires, Sends
<1>2. \A e \in Device \ {d} : pif'[e] = pif[e] BY <1>1, WithIs
<1>3. d \notin scheduled' => One(pif'[d]) BY <1>1, EmptyThenOne DEF Grows
<1> QED BY <1>2, <1>3, ListsAre DEF Grows, ListsInv, StartInv, ChainInv, OneListed, Empty, One

LEMMA ListsStep ==
  ASSUME TypeOK, NumberInv, ListsInv, [Next]_vars
  PROVE  ListsInv'
<1>1. ASSUME NEW d \in Device, PutOnRobot(d) PROVE ListsInv'
  <2>1. Grows /\ d \in onRobot' BY <1>1 DEF PutOnRobot, Grows
  <2>2. CASE FireRead(d, packets, pif)
    <3>1. Empty(pif[d]) BY <1>1, ListsAre DEF PutOnRobot
    <3> QED BY <2>1, <2>2, <3>1, FireReadFires, ListsByFires DEF TypeOK
  <2>3. CASE UNCHANGED << packets, pif >>
    BY <2>1, <2>3 DEF ListsInv, StartInv, ChainInv, OneListed, Grows
  <2> QED BY <1>1, <2>2, <2>3 DEF PutOnRobot
<1>2. ASSUME NEW d \in Device, Turn(d) PROVE ListsInv'
  <2>1. Grows /\ d \in onRobot' /\ d \in scheduled BY <1>2 DEF Turn, Grows, TypeOK
  <2>2. CASE FireRead(d, packets, pif)
    BY <2>1, <2>2, FireReadFires, ListsByFires DEF TypeOK
  <2>3. CASE pif' = pif BY <2>1, <2>3 DEF ListsInv, StartInv, ChainInv, OneListed, Grows
  <2> QED BY <1>2, <2>2, <2>3 DEF Turn, TurnSilent, TurnRead
<1>3. ASSUME NEW d \in Device, NEW p \in packets, Handle(d, p) PROVE ListsInv'
  <2> DEFINE lists == Without(pif, d, p.num)
  <2>1. p.num \in Num /\ lists \in [Device -> [Num -> Nat]] BY OfAnswer
  <2>2. pif[d][p.num] > 0 /\ Grows BY <1>3, OfHandle
  <2>3. d \in onRobot /\ d \in onRobot' BY <2>1, <2>2, OnRobot DEF ListsInv, Grows
  <2>4. \A e \in Device \ {d} : lists[e] = pif[e] BY <2>1, WithoutIs DEF TypeOK
  <2>5. d \in scheduled \/ Empty(lists[d]) BY <2>1, <2>2, ListsAre, OneThenEmpty DEF TypeOK
  <2> HIDE DEF lists
  <2>6. CASE Fires(d, packets \ {p}, lists)
    BY <2>1, <2>2, <2>3, <2>4, <2>5, <2>6, ListsByFires
  <2>7. CASE pif' = lists
    BY <2>2, <2>3, <2>4, <2>5, <2>7, ListsAre
       DEF Grows, ListsInv, StartInv, ChainInv, OneListed, Empty, One
  <2> QED BY <1>3, <2>6, <2>7, OfHandle DEF lists
<1>4. CASE AddPif
  <2>1. adding.dev \in Device /\ adding.num \in Num /\ adding.dev \in scheduled
    BY <1>4 DEF AddPif, TypeOK, NumberInv
  <2>2. pif' = With(pif, adding.dev, adding.num) /\ UNCHANGED << onRobot, scheduled >>
    BY <1>4 DEF AddPif
  <2>3. \A e \in Device \ {adding.dev} : pif'[e] = pif[e] BY <2>1, <2>2, WithIs DEF TypeOK
  <2>4. adding.dev \in onRobot BY <2>1 DEF TypeOK
  <2> QED BY <2>1, <2>2, <2>3, <2>4 DEF ListsInv, StartInv, ChainInv, OneListed
<1>5. ASSUME NEW p \in packets, PassOn(p) PROVE ListsInv'
  <2>1. p.num \in Num BY DEF TypeOK, PacketType
  <2>2. \A e \in Device : pif'[e] = Without(pif, e, p.num)[e] BY <1>5 DEF PassOn
  <2>3. ASSUME NEW e \in Device, NEW n \in Num
        PROVE  \/ pif'[e][n] = pif[e][n]
               \/ pif'[e][n] = 0
               \/ pif[e][n] > 0 /\ pif'[e][n] = pif[e][n] - 1
    <3> DEFINE new == Without(pif, e, p.num)
    <3>1. pif \in [Device -> [Num -> Nat]] /\ pif[e][p.num] \in Nat BY <2>1 DEF TypeOK
    <3>2. /\ pif[e][p.num] > 0 => new[e][p.num] = pif[e][p.num] - 1
          /\ pif[e][p.num] = 0 => new[e][p.num] = 0
          /\ \A m \in Num \ {p.num} : new[e][m] = pif[e][m]
      BY <2>1, <3>1, WithoutIs
    <3>3. pif'[e] = new[e] BY <2>2
    <3> HIDE DEF new
    <3>4. CASE n = p.num BY <3>1, <3>2, <3>3, <3>4
    <3>5. CASE n # p.num BY <3>2, <3>3, <3>5
    <3> QED BY <3>4, <3>5
  <2>4. \A e \in Device, n \in Num : pif[e][n] \in Nat BY DEF TypeOK
  <2>5. UNCHANGED << onRobot, scheduled >> BY <1>5 DEF PassOn
  <2>6. StartInv' BY <2>3, <2>4, <2>5 DEF ListsInv, StartInv
  <2>7. ChainInv' BY <2>3, <2>4, <2>5 DEF ListsInv, ChainInv, OneListed
  <2> QED BY <2>6, <2>7 DEF ListsInv
<1>6. CASE pif' = pif /\ Grows BY <1>6 DEF ListsInv, StartInv, ChainInv, OneListed, Grows
<1>7. \A d \in Device : Hush(d) => pif' = pif /\ Grows BY DEF Hush, Grows
<1>8. \A p \in packets : SendDeferred(p) \/ Lose(p) => pif' = pif /\ Grows
  BY DEF SendDeferred, Lose, Grows
<1>9. \A l \in Link : SendOther(l) => pif' = pif /\ Grows BY DEF SendOther, Grows
<1>10. Tick \/ UNCHANGED vars => pif' = pif /\ Grows BY DEF Tick, vars, Grows
<1> QED BY <1>1, <1>2, <1>3, <1>4, <1>5, <1>6, <1>7, <1>8, <1>9, <1>10 DEF Next

LEMMA PacketsStep ==
  ASSUME TypeOK, PacketInv, NumberInv, ListsInv, [Next]_vars
  PROVE  PacketInv' /\ NumberInv'
<1>1. ASSUME NEW d \in Device, PutOnRobot(d) PROVE PacketInv' /\ NumberInv'
  <2>1. Grows /\ d \in onRobot' /\ adding' = adding BY <1>1 DEF PutOnRobot, Grows
  <2>2. CASE FireRead(d, packets, pif) BY <2>1, <2>2, FireReadFires, KeptByFires
  <2>3. CASE packets' = packets BY <2>1, <2>3, KeptByLess
  <2> QED BY <1>1, <2>2, <2>3 DEF PutOnRobot
<1>2. ASSUME NEW d \in Device, NEW p \in packets, Handle(d, p) PROVE PacketInv' /\ NumberInv'
  <2>1. p.num \in Num /\ pif[d][p.num] > 0 /\ Grows /\ adding' = adding BY <1>2, OfHandle, OfAnswer
  <2>2. d \in onRobot' BY <2>1, OnRobot DEF ListsInv, Grows
  <2>3. CASE Fires(d, packets \ {p}, Without(pif, d, p.num)) BY <2>1, <2>2, <2>3, KeptByFires
  <2>4. CASE packets' = packets \ {p} BY <2>1, <2>4, KeptByLess
  <2> QED BY <1>2, <2>3, <2>4, OfHandle
<1>3. CASE Grows /\ packets' \subseteq packets /\ adding' \in {adding, Nobody} BY <1>3, KeptByLess
<1>4. \A d \in Device : Hush(d) => Grows /\ packets' \subseteq packets /\ adding' \in {adding, Nobody}
  BY DEF Hush, Grows
<1>5. \A p \in packets : PassOn(p) \/ Lose(p)
        => Grows /\ packets' \subseteq packets /\ adding' \in {adding, Nobody}
  BY DEF PassOn, Lose, Grows
<1>6. AddPif \/ UNCHANGED vars => Grows /\ packets' \subseteq packets /\ adding' \in {adding, Nobody}
  BY DEF AddPif, vars, Grows
<1> QED
  BY <1>1, <1>2, <1>3, <1>4, <1>5, <1>6, KeptByTurn, KeptByDeferred, KeptByOther, KeptByTick DEF Next

-----------------------------------------------------------------------------
(* Lists, as long as nothing is lost.                                      *)

LEMMA CleanBefore ==
  ASSUME TypeOK, [Next]_vars, Clean'
  PROVE  Clean
<1>1. stray' \in {stray, stray + 1}
  BY DEF Next, PutOnRobot, Turn, Hush, Handle, Ack, Nack, Data, PassOn, Answered, SendDeferred,
         Lose, SendOther, AddPif, Tick, vars, ghosts
<1> QED BY <1>1 DEF Clean, TypeOK

\* On one line, an answer is its taker's own.
LEMMA OneNumber ==
  ASSUME OneLink, TypeOK, NumberInv, NEW p \in packets, NEW q \in packets, p.num = q.num
  PROVE  p = q
BY DEF OneLink, TypeOK, PacketType, NumberInv

LEMMA Mine ==
  ASSUME OneLink, TypeOK, NumberInv, ListInv,
         NEW d \in Device, NEW p \in packets, pif[d][p.num] > 0
  PROVE  p.from = d /\ Listed(p) /\ [dev |-> d, num |-> p.num] # adding
<1>1. p.num \in Num BY DEF TypeOK, PacketType
<1>2. pif[d][p.num] \in {0, 1} /\ (pif[d][p.num] = 1 => [dev |-> d, num |-> p.num] # adding
                                        /\ \E q \in packets : Awaits(q, d, p.num))
  BY <1>1 DEF ListInv, Match
<1>3. PICK q \in packets : Awaits(q, d, p.num) /\ [dev |-> d, num |-> p.num] # adding BY <1>2
<1> QED BY <1>3, OneNumber DEF Awaits

LEMMA MatchFires ==
  ASSUME OneLink, TypeOK, NumberInv, NEW ps \in SUBSET packets, NEW d \in Device,
         NEW lists \in [Device -> [Num -> Nat]], Match(lists, ps), Fires(d, ps, lists),
         UNCHANGED adding
  PROVE  /\ ListInv'
         /\ \E n \in Num : \A e \in Device, m \in Num :
              Awaited(e, m)' <=> (e = d /\ m = n) \/ \E p \in ps : Awaits(p, e, m)
<1>1. PICK S, n : Sends(d, S, ps, n) /\ packets' = ps \cup S /\ pif' = With(lists, d, n)
  BY DEF Fires
<1>2. /\ n \in Num /\ n \in Fresh(ps, LinkOf[d])
      /\ \A e \in Device, m \in Num : (\E s \in S : Awaits(s, e, m)) <=> e = d /\ m = n
  BY <1>1 DEF Sends, Awaits
<1>3. \A e \in Device, m \in Num :
        Awaited(e, m)' <=> (e = d /\ m = n) \/ \E p \in ps : Awaits(p, e, m)
  BY <1>1, <1>2 DEF Awaited
<1>4. \A p \in ps : p.num # n
  BY <1>2, FreshIs, OfDevice DEF OneLink, TypeOK, PacketType
<1>5. [dev |-> d, num |-> n] # adding
  BY <1>2, FreshIs, OfDevice DEF Nobody
<1>6. lists[d][n] = 0 BY <1>2, <1>4 DEF Match, Awaits
<1>7. ASSUME NEW e \in Device, NEW m \in Num
      PROVE  /\ pif'[e][m] \in {0, 1}
             /\ pif'[e][m] = 1 <=> [dev |-> e, num |-> m] # adding' /\ Awaited(e, m)'
  <2>1. CASE e = d /\ m = n
    <3>1. pif'[d][n] = 1 BY <1>1, <1>2, <1>6, WithIs
    <3> QED BY <2>1, <3>1, <1>3, <1>5
  <2>2. CASE ~ (e = d /\ m = n)
    <3>1. pif'[e][m] = lists[e][m] BY <2>2, <1>1, <1>2, WithIs
    <3> QED BY <2>2, <3>1, <1>3 DEF Match
  <2> QED BY <2>1, <2>2
<1> QED BY <1>2, <1>3, <1>7 DEF ListInv, Match, Awaited

\* When its device has taken an answer, the lists match the packets that are left.
LEMMA MatchTaken ==
  ASSUME OneLink, TypeOK, NumberInv, ListInv,
         NEW d \in Device, NEW p \in packets, pif[d][p.num] > 0
  PROVE  /\ Match(Without(pif, d, p.num), packets \ {p})
         /\ \A e \in Device, m \in Num :
              (\E q \in packets \ {p} : Awaits(q, e, m)) <=> Awaited(e, m) /\ ~ (e = d /\ m = p.num)
<1> DEFINE lists == Without(pif, d, p.num)
<1>1. p.num \in Num /\ pif \in [Device -> [Num -> Nat]] BY OfAnswer DEF TypeOK
<1>2. p.from = d /\ Listed(p) BY Mine
<1>3. ASSUME NEW e \in Device, NEW m \in Num
      PROVE  (\E q \in packets \ {p} : Awaits(q, e, m)) <=> Awaited(e, m) /\ ~ (e = d /\ m = p.num)
  BY <1>2, OneNumber DEF Awaits, Awaited
<1>4. pif[d][p.num] = 1 BY <1>1 DEF ListInv, Match
<1>5. /\ lists[d][p.num] = pif[d][p.num] - 1
      /\ \A m \in Num \ {p.num} : lists[d][m] = pif[d][m]
      /\ \A e \in Device \ {d} : lists[e] = pif[e]
  BY <1>1, WithoutIs
<1> HIDE DEF lists
<1>6. ASSUME NEW e \in Device, NEW m \in Num
      PROVE  /\ lists[e][m] \in {0, 1}
             /\ lists[e][m] = 1 <=> /\ [dev |-> e, num |-> m] # adding
                                    /\ \E q \in packets \ {p} : Awaits(q, e, m)
  <2>1. CASE e = d /\ m = p.num BY <2>1, <1>3, <1>4, <1>5
  <2>2. CASE ~ (e = d /\ m = p.num)
    <3>1. lists[e][m] = pif[e][m] BY <2>2, <1>5
    <3> QED BY <2>2, <3>1, <1>3 DEF ListInv, Match, Awaited
  <2> QED BY <2>1, <2>2
<1> QED BY <1>3, <1>6 DEF Match, lists


ReadInv == ListInv /\ AddInv /\ GoesOn /\ SoleInv

\* A step that neither begins nor ends a read.
LEMMA ReadsByOther ==
  ASSUME ReadInv, \A d \in Device, n \in Num : Awaited(d, n)' <=> Awaited(d, n),
         UNCHANGED << pif, adding >>, TypeOK, TypeOK', 
         onRobot' \ (scheduled' \cup quiet') \subseteq onRobot \ (scheduled \cup quiet),
         \A d \in scheduled' \ scheduled : \A n \in Num : ~ Awaited(d, n)
  PROVE  ReadInv'
<1>1. ListInv' BY DEF ReadInv, ListInv, Match, Awaited
<1>2. AddInv' BY DEF ReadInv, AddInv, TypeOK
<1>3. GoesOn' BY DEF ReadInv, GoesOn, TypeOK
<1>4. SoleInv' BY DEF ReadInv, SoleInv, TypeOK
<1> QED BY <1>1, <1>2, <1>3, <1>4 DEF ReadInv

\* Without a packet that is on no list, or with another, the same numbers are awaited.
LEMMA SameAwaited ==
  ASSUME \/ \E p : ~ Listed(p) /\ (packets' = packets \ {p} \/ packets' = packets \cup {p})
         \/ packets' = packets
  PROVE  \A d \in Device, n \in Num : Awaited(d, n)' <=> Awaited(d, n)
BY DEF Awaited, Awaits

\* A device that is not on the robot has nothing under way.
LEMMA NoneYet ==
  ASSUME PacketInv, NEW d \in Device, d \notin onRobot, NEW n \in Num
  PROVE  ~ Awaited(d, n)
BY OfDevice DEF PacketInv, Awaited, Awaits

LEMMA ReadsByPut ==
  ASSUME OneLink, TypeOK, TypeOK', PacketInv, NumberInv, ReadInv, NEW d \in Device, PutOnRobot(d)
  PROVE  ReadInv'
<1>1. d \notin onRobot /\ onRobot' = onRobot \cup {d} /\ UNCHANGED << adding, quiet >>
  BY DEF PutOnRobot
<1>2. \A n \in Num : ~ Awaited(d, n) BY <1>1, NoneYet
<1>3. CASE scheduled' = scheduled \cup {d} /\ UNCHANGED << packets, pif >>
  BY <1>1, <1>2, <1>3, SameAwaited, ReadsByOther
<1>4. CASE FireRead(d, packets, pif) /\ scheduled' = scheduled
  <2>1. ListInv' /\ \E n \in Num : \A e \in Device, m \in Num :
                      Awaited(e, m)' <=> (e = d /\ m = n) \/ Awaited(e, m)
    BY <1>1, <1>4, FireReadFires, MatchFires DEF TypeOK, ReadInv, ListInv, Awaited
  <2>2. PICK n \in Num : \A e \in Device, m \in Num :
                      Awaited(e, m)' <=> (e = d /\ m = n) \/ Awaited(e, m)
    BY <2>1
  <2>3. AddInv' BY <1>1, <2>2 DEF ReadInv, AddInv, TypeOK
  <2>4. GoesOn' BY <1>1, <1>4, <2>2 DEF ReadInv, GoesOn, TypeOK
  <2>5. d \notin scheduled BY <1>1 DEF TypeOK
  <2>6. SoleInv' BY <1>4, <2>2, <2>5 DEF ReadInv, SoleInv, TypeOK
  <2> QED BY <2>1, <2>3, <2>4, <2>6 DEF ReadInv
<1> QED BY <1>3, <1>4 DEF PutOnRobot

\* When a scheduled device's turn has come and its order does not pause, nothing of it is
\* under way.
LEMMA NoneLeft ==
  ASSUME TypeOK, PacketInv, TimeInv, NEW d \in scheduled, since[d] = Rate, Heard(d) < 0
  PROVE  /\ \A p \in packets : p.from = d => ~ Listed(p)
         /\ \A n \in Num : ~ Awaited(d, n)
<1>1. d \in Device /\ d # Other BY OfDevice DEF TypeOK
<1>2. ASSUME NEW p \in packets, p.from = d, Listed(p) PROVE FALSE
  <2>1. /\ p.clock \in Nat /\ p.what \in {"write", "query"}
        /\ IF p.sent THEN p.clock <= AnswerTime ELSE Timed(d)
        /\ p.what = "write" => p.sent
    BY <1>2 DEF TypeOK, PacketType, PacketInv, Listed
  <2>2. Begun(p) < Rate BY <1>1, <1>2, <2>1, Times DEF Begun
  <2>3. Begun(p) \in Int BY <1>1, <1>2, <2>1, Times DEF Begun
  <2>4. ~ since[d] <= Begun(p) BY <2>2, <2>3, Times
  <2>5. Heard(d) \in Int BY <1>1 DEF Heard, TypeOK
  <2>6. ~ (p.sent /\ Heard(d) + p.clock >= PauseTime) BY <2>1, <2>5, Times
  <2> QED BY <1>2, <2>4, <2>6 DEF TimeInv, InTime
<1>3. \A p \in packets : p.from = d => ~ Listed(p) BY <1>2
<1> QED BY <1>3 DEF Awaited, Awaits

LEMMA ReadsByTurn ==
  ASSUME OneLink, TypeOK, TypeOK', PacketInv, NumberInv, ReadInv, TimeInv,
         NEW d \in Device, Turn(d)
  PROVE  ReadInv'
<1>1. /\ d \in scheduled /\ since[d] = Rate /\ adding = Nobody
      /\ UNCHANGED << onRobot, scheduled, quiet >>
  BY DEF Turn
<1>2. CASE TurnSilent(d) BY <1>1, <1>2, SameAwaited, ReadsByOther DEF TurnSilent
<1>3. CASE TurnRead(d)
  <2>1. \A n \in Num : ~ Awaited(d, n) BY <1>1, <1>3, NoneLeft DEF TurnRead
  <2>2. ListInv' /\ AddInv' /\ \E n \in Num : \A e \in Device, m \in Num :
                                 Awaited(e, m)' <=> (e = d /\ m = n) \/ Awaited(e, m)
    <3>1. CASE Timed(d)
      <4>1. FireRead(d, packets, pif) /\ adding' = adding BY <1>3, <3>1 DEF TurnRead
      <4>2. AddInv' BY <1>1, <4>1 DEF AddInv
      <4> QED BY <4>1, <4>2, FireReadFires, MatchFires DEF TypeOK, ReadInv, ListInv, Awaited
    <3>2. CASE ~ Timed(d)
      <4>1. PICK r \in Reads(d, packets) :
              packets' = packets \cup r.sends /\ adding' = [dev |-> d, num |-> r.lists] /\ pif' = pif
        BY <1>3, <3>2 DEF TurnRead
      <4> DEFINE n == r.lists
                 w == WriteRead(d, n)
      <4>2. n \in Fresh(packets, LinkOf[d]) /\ packets' = packets \cup {w}
        BY <3>2, <4>1, ReadSends
      <4>3. n \in Num /\ \A p \in packets : p.num # n
        BY <4>2, FreshIs, OfDevice DEF OneLink, TypeOK, PacketType
      <4>4. Awaits(w, d, n) /\ w.from = d /\ w.num = n BY <3>2, <4>3, WriteReadIs DEF Awaits
      <4> HIDE DEF w, n
      <4>5. \A e \in Device, m \in Num : Awaited(e, m)' <=> (e = d /\ m = n) \/ Awaited(e, m)
        BY <4>2, <4>4 DEF Awaited, Awaits
      <4>6. adding' = [dev |-> d, num |-> n] BY <4>1 DEF n
      <4>7. ListInv'
        <5> SUFFICES ASSUME NEW e \in Device, NEW m \in Num
              PROVE  /\ pif'[e][m] \in {0, 1}
                     /\ pif'[e][m] = 1 <=> [dev |-> e, num |-> m] # adding' /\ Awaited(e, m)'
          BY DEF ListInv, Match, Awaited
        <5>1. /\ pif[e][m] \in {0, 1}
              /\ pif[e][m] = 1 <=> [dev |-> e, num |-> m] # adding /\ Awaited(e, m)
          BY DEF ReadInv, ListInv, Match, Awaited
        <5>2. e # Other /\ [dev |-> e, num |-> m] # Nobody BY OfDevice DEF Nobody
        <5>3. ~ Awaited(d, n) BY <4>3, <2>1
        <5>4. [dev |-> e, num |-> m] = adding' <=> e = d /\ m = n BY <4>6
        <5> QED BY <1>1, <4>1, <4>5, <5>1, <5>2, <5>3, <5>4
      <4>8. AddInv' BY <4>3, <4>5, <4>6 DEF AddInv
      <4> QED BY <4>3, <4>5, <4>7, <4>8
    <3> QED BY <3>1, <3>2
  <2>3. PICK n \in Num : \A e \in Device, m \in Num :
                      Awaited(e, m)' <=> (e = d /\ m = n) \/ Awaited(e, m)
    BY <2>2
  <2>4. GoesOn' BY <1>1, <2>3 DEF ReadInv, GoesOn, TypeOK
  <2>5. SoleInv' BY <1>1, <2>1, <2>3 DEF ReadInv, SoleInv, TypeOK
  <2> QED BY <2>2, <2>4, <2>5 DEF ReadInv
<1> QED BY <1>2, <1>3 DEF Turn

LEMMA ReadsByHandle ==
  ASSUME OneLink, TypeOK, TypeOK', NumberInv, ReadInv,
         NEW d \in Device, NEW p \in packets, Handle(d, p)
  PROVE  /\ ReadInv'
         /\ p.from = d /\ Listed(p)
         /\ \A q \in packets \ {p} : q.from = d /\ Listed(q) => d \notin scheduled
<1> DEFINE lists == Without(pif, d, p.num)
           ps == packets \ {p}
<1>1. /\ UNCHANGED << onRobot, scheduled, adding, quiet >>
      /\ pif[d][p.num] > 0
      /\ \/ packets' = ps /\ pif' = lists /\ d \in scheduled \cup quiet
         \/ Fires(d, ps, lists)
  BY OfHandle
<1>2. lists \in [Device -> [Num -> Nat]] /\ p.num \in Num BY OfAnswer
<1>3. p.from = d /\ Listed(p) /\ [dev |-> d, num |-> p.num] # adding
  BY <1>1, Mine DEF ReadInv
<1>4. /\ Match(lists, ps)
      /\ \A e \in Device, m \in Num :
           (\E q \in ps : Awaits(q, e, m)) <=> Awaited(e, m) /\ ~ (e = d /\ m = p.num)
  BY <1>1, MatchTaken DEF ReadInv
<1>5. d \in scheduled => \A m \in Num \ {p.num} : ~ Awaited(d, m)
  <2>1. Awaited(d, p.num) BY <1>3 DEF Awaited, Awaits
  <2> QED BY <1>2, <2>1 DEF ReadInv, SoleInv
<1>6. \A q \in ps : q.from = d /\ Listed(q) => d \notin scheduled
  <2> SUFFICES ASSUME NEW q \in ps, q.from = d, Listed(q) PROVE d \notin scheduled OBVIOUS
  <2>1. q.num \in Num /\ q.num # p.num BY OneNumber DEF TypeOK, PacketType
  <2>2. Awaited(d, q.num) BY DEF Awaited, Awaits
  <2> QED BY <1>5, <2>1, <2>2
<1> HIDE DEF lists, ps
<1>7. ReadInv'
  <2>1. CASE packets' = ps /\ pif' = lists /\ d \in scheduled \cup quiet
    <3>1. \A e \in Device, m \in Num : Awaited(e, m)' <=> Awaited(e, m) /\ ~ (e = d /\ m = p.num)
      BY <1>4, <2>1 DEF Awaited
    <3>2. ListInv' BY <1>1, <1>4, <2>1 DEF ListInv, Match
    <3>3. AddInv' BY <1>1, <1>3, <3>1 DEF ReadInv, AddInv, TypeOK
    <3>4. GoesOn' BY <1>1, <2>1, <3>1 DEF ReadInv, GoesOn, TypeOK
    <3>5. SoleInv' BY <1>1, <3>1 DEF ReadInv, SoleInv, TypeOK
    <3> QED BY <3>2, <3>3, <3>4, <3>5 DEF ReadInv
  <2>2. CASE Fires(d, ps, lists)
    <3>1. ListInv' /\ \E n \in Num : \A e \in Device, m \in Num :
            Awaited(e, m)' <=> (e = d /\ m = n) \/ \E q \in ps : Awaits(q, e, m)
      BY <1>1, <1>2, <1>4, <2>2, MatchFires DEF ps
    <3>2. PICK n \in Num : \A e \in Device, m \in Num :
            Awaited(e, m)' <=> (e = d /\ m = n) \/ (Awaited(e, m) /\ ~ (e = d /\ m = p.num))
      BY <1>4, <3>1
    <3>3. AddInv' BY <1>1, <1>3, <3>2 DEF ReadInv, AddInv, TypeOK
    <3>4. GoesOn' BY <1>1, <3>2 DEF ReadInv, GoesOn, TypeOK
    <3>5. SoleInv' BY <1>1, <1>2, <1>5, <3>2 DEF ReadInv, SoleInv, TypeOK
    <3> QED BY <3>1, <3>3, <3>4, <3>5 DEF ReadInv
  <2> QED BY <1>1, <2>1, <2>2
<1> QED BY <1>3, <1>6, <1>7 DEF ps

LEMMA ReadsByAdd ==
  ASSUME OneLink, TypeOK, TypeOK', ReadInv, AddPif
  PROVE  ReadInv'
<1> DEFINE d == adding.dev
           n == adding.num
<1>1. /\ pif' = With(pif, d, n) /\ adding' = Nobody /\ adding # Nobody
      /\ UNCHANGED << onRobot, scheduled, packets, quiet >>
  BY DEF AddPif
<1>2. /\ d \in Device /\ n \in Num /\ adding = [dev |-> d, num |-> n]
      /\ pif \in [Device -> [Num -> Nat]]
  BY <1>1 DEF TypeOK
<1>3. \A e \in Device, m \in Num : [dev |-> e, num |-> m] # Nobody BY OfDevice DEF Nobody
<1>4. Awaited(d, n) BY <1>1 DEF ReadInv, AddInv
<1> HIDE DEF d, n
<1>5. ListInv'
  <2> SUFFICES ASSUME NEW e \in Device, NEW m \in Num
        PROVE  /\ pif'[e][m] \in {0, 1}
               /\ pif'[e][m] = 1 <=> Awaited(e, m)
    BY <1>1, <1>3 DEF ListInv, Match, Awaited
  <2>1. /\ pif[e][m] \in {0, 1}
        /\ pif[e][m] = 1 <=> [dev |-> e, num |-> m] # adding /\ Awaited(e, m)
    BY DEF ReadInv, ListInv, Match, Awaited
  <2>2. [dev |-> e, num |-> m] = adding <=> e = d /\ m = n BY <1>2
  <2>3. CASE e = d /\ m = n
    <3>1. pif'[d][n] = pif[d][n] + 1 BY <1>1, <1>2, WithIs
    <3> QED BY <1>4, <2>1, <2>2, <2>3, <3>1
  <2>4. CASE ~ (e = d /\ m = n)
    <3>1. pif'[e][m] = pif[e][m] BY <2>4, <1>1, <1>2, WithIs
    <3> QED BY <2>1, <2>2, <2>4, <3>1
  <2> QED BY <2>3, <2>4
<1>6. AddInv' /\ GoesOn' /\ SoleInv' BY <1>1 DEF ReadInv, AddInv, GoesOn, SoleInv, Awaited
<1> QED BY <1>5, <1>6 DEF ReadInv

\* What no device takes, and was not lost before it could be listed, is on no list.
LEMMA OfPassOn ==
  ASSUME OneLink, TypeOK, PacketInv, NumberInv, ReadInv, NEW p \in packets, PassOn(p),
         Clean, Clean'
  PROVE  pif' = pif /\ ~ Listed(p)
<1>1. /\ ~ (adding # Nobody /\ p.from = adding.dev /\ p.num = adding.num)
      /\ Untaken(p.num) \/ p.what = "bulk"
      /\ pif' = [d \in Device |-> Without(pif, d, p.num)[d]]
  BY DEF PassOn, Answered, Clean
<1>2. p.num \in Num /\ p.from \in Device \cup {Other} /\ pif \in [Device -> [Num -> Nat]]
  BY DEF TypeOK, PacketType
<1>3. ASSUME NEW d \in Device PROVE pif[d][p.num] = 0
  <2>1. CASE Untaken(p.num) BY <1>2, <2>1 DEF Untaken, IsPif
  <2>2. CASE p.what = "bulk"
    <3>1. ~ Listed(p) BY <2>2 DEF Listed
    <3> QED BY <1>2, <3>1, Mine DEF ReadInv
  <2> QED BY <1>1, <2>1, <2>2
<1>4. ASSUME NEW d \in Device PROVE pif'[d] = pif[d]
  <2> DEFINE new == Without(pif, d, p.num)
  <2>1. /\ new \in [Device -> [Num -> Nat]] /\ new[d][p.num] = 0
        /\ \A m \in Num \ {p.num} : new[d][m] = pif[d][m]
    BY <1>2, <1>3, WithoutIs
  <2>2. pif'[d] = new[d] BY <1>1
  <2> HIDE DEF new
  <2>3. \A m \in Num : new[d][m] = pif[d][m] BY <1>3, <2>1
  <2>4. new[d] \in [Num -> Nat] /\ pif[d] \in [Num -> Nat] BY <1>2, <2>1
  <2> QED BY <2>2, <2>3, <2>4
<1>5. pif' = pif BY <1>1, <1>2, <1>4
<1>6. ~ Listed(p)
  <2> SUFFICES ASSUME Listed(p) PROVE FALSE OBVIOUS
  <2>1. p.from \in Device BY <1>2 DEF PacketInv, Listed
  <2>2. Awaited(p.from, p.num) BY DEF Awaited, Awaits
  <2>3. [dev |-> p.from, num |-> p.num] = adding
    BY <1>2, <1>3, <2>1, <2>2 DEF ReadInv, ListInv, Match, Awaited
  <2>4. adding # Nobody BY <2>1, <2>3, OfDevice DEF Nobody
  <2> QED BY <1>1, <2>3, <2>4
<1> QED BY <1>5, <1>6

LEMMA OfLose ==
  ASSUME NEW p \in packets, Lose(p), Clean, Clean'
  PROVE  ~ Listed(p)
BY DEF Lose, Clean

\* A packet that is sent, or grows older, stays the answer to the same query.
LEMMA AwaitedByClock ==
  ASSUME TypeOK, Tick \/ \E p \in packets : SendDeferred(p)
  PROVE  \A d \in Device, n \in Num : Awaited(d, n)' <=> Awaited(d, n)
<1>1. CASE Tick
  <2> DEFINE Later(p) == [p EXCEPT !.clock = IF p.sent THEN @ + 1 ELSE @ - 1]
  <2>1. packets' = {Later(p) : p \in packets} BY <1>1 DEF Tick
  <2>2. ASSUME NEW p \in packets
        PROVE  \A d, n : Awaits(Later(p), d, n) <=> Awaits(p, d, n)
    <3>1. LET q == Later(p) IN q.num = p.num /\ q.from = p.from /\ q.what = p.what
      BY DEF TypeOK, PacketType
    <3> HIDE DEF Later
    <3> QED BY <3>1 DEF Awaits, Listed
  <2> HIDE DEF Later
  <2> QED BY <2>1, <2>2 DEF Awaited
<1>2. ASSUME NEW p \in packets, SendDeferred(p)
      PROVE  \A d \in Device, n \in Num : Awaited(d, n)' <=> Awaited(d, n)
  <2> DEFINE q == [p EXCEPT !.sent = TRUE]
  <2>1. q.num = p.num /\ q.from = p.from /\ q.what = p.what BY DEF TypeOK, PacketType
  <2>2. packets' = (packets \ {p}) \cup {q} BY <1>2 DEF SendDeferred
  <2> HIDE DEF q
  <2>3. \A d, n : Awaits(q, d, n) <=> Awaits(p, d, n) BY <2>1 DEF Awaits, Listed
  <2> QED BY <2>2, <2>3 DEF Awaited
<1> QED BY <1>1, <1>2

LEMMA ReadsByClock ==
  ASSUME TypeOK, TypeOK', ReadInv, Tick \/ \E p \in packets : SendDeferred(p)
  PROVE  ReadInv'
<1>1. UNCHANGED << onRobot, scheduled, pif, adding, quiet >> BY DEF Tick, SendDeferred
<1>2. \A d \in Device, n \in Num : Awaited(d, n)' <=> Awaited(d, n) BY AwaitedByClock
<1> QED BY <1>1, <1>2, ReadsByOther

LEMMA ReadsStep ==
  ASSUME OneLink, SafeInv, TypeOK', ReadInv, TimeInv, [Next]_vars, Clean, Clean'
  PROVE  ReadInv'
<1> USE DEF SafeInv
<1>1. ASSUME packets' = packets, UNCHANGED << onRobot, scheduled, pif, adding >>, quiet \subseteq quiet'
      PROVE  ReadInv'
  BY <1>1, SameAwaited, ReadsByOther
<1>2. ASSUME NEW p, ~ Listed(p), packets' = packets \ {p} \/ packets' = packets \cup {p},
             UNCHANGED << onRobot, scheduled, pif, adding, quiet >>
      PROVE  ReadInv'
  BY <1>2, SameAwaited, ReadsByOther
<1>3. ASSUME NEW d \in Device, Hush(d) PROVE ReadInv' BY <1>1, <1>3 DEF Hush
<1>4. ASSUME NEW p \in packets, PassOn(p) PROVE ReadInv'
  <2>1. pif' = pif /\ ~ Listed(p) BY <1>4, OfPassOn
  <2> QED BY <2>1, <1>2, <1>4 DEF PassOn
<1>5. ASSUME NEW p \in packets, Lose(p) PROVE ReadInv'
  <2>1. ~ Listed(p) BY <1>5, OfLose
  <2> QED BY <2>1, <1>2, <1>5 DEF Lose
<1>6. ASSUME NEW l \in Link, SendOther(l) PROVE ReadInv'
  <2>1. PICK n \in Fresh(packets, l), what \in {"command", "bulk"} :
          packets' = packets \cup {Packet(l, n, Other, what, 0)}
    BY <1>6 DEF SendOther
  <2>2. ~ Listed(Packet(l, n, Other, what, 0)) BY <2>1 DEF Listed, Packet
  <2> QED BY <2>1, <2>2, <1>2, <1>6 DEF SendOther
<1>7. CASE UNCHANGED vars BY <1>1, <1>7 DEF vars
<1> QED
  BY <1>3, <1>4, <1>5, <1>6, <1>7, ReadsByPut, ReadsByTurn, ReadsByHandle, ReadsByAdd, ReadsByClock
     DEF Next

-----------------------------------------------------------------------------
(* Time, as long as nothing is lost.                                       *)

LEMMA TimeBySame ==
  ASSUME TimeInv, UNCHANGED << since, told, silent >>, scheduled' = scheduled,
         \A p \in packets' \ packets : p.from \notin scheduled \/ ~ Listed(p)
  PROVE  TimeInv'
BY DEF TimeInv, InTime, Heard, Begun

LEMMA TimeByPut ==
  ASSUME TypeOK, PacketInv, TimeInv, NEW d \in Device, PutOnRobot(d)
  PROVE  TimeInv'
<1>1. d \notin onRobot /\ d \notin scheduled /\ UNCHANGED << since, told, silent >>
  BY DEF PutOnRobot, TypeOK, timing
<1>2. CASE scheduled' = scheduled \cup {d} /\ packets' = packets
  <2>1. \A p \in packets : p.from # d BY <1>1, OfDevice DEF PacketInv
  <2> QED BY <1>1, <1>2, <2>1 DEF TimeInv, InTime, Heard, Begun
<1>3. CASE scheduled' = scheduled /\ FireRead(d, packets, pif)
  <2>1. PICK S, n : Sends(d, S, packets, n) /\ packets' = packets \cup S
    BY <1>3, FireReadFires DEF Fires
  <2> QED BY <1>1, <1>3, <2>1, TimeBySame DEF Sends
<1> QED BY <1>2, <1>3 DEF PutOnRobot

LEMMA TimeByTurn ==
  ASSUME TypeOK, TypeOK', PacketInv, TimeInv, NEW d \in Device, Turn(d)
  PROVE  TimeInv'
<1>1. /\ d \in scheduled /\ since[d] = Rate /\ scheduled' = scheduled
      /\ since'[d] = 0 /\ told'[d] = 0
      /\ \A e \in Device \ {d} : since'[e] = since[e] /\ told'[e] = told[e] /\ silent'[e] = silent[e]
  BY DEF Turn, TypeOK, TurnSilent, TurnRead
<1>2. ASSUME NEW p \in packets, p.from \in scheduled, p.from # d, Listed(p)
      PROVE  InTime(p)'
  <2>1. p.from \in Device BY <1>2 DEF TypeOK
  <2> QED BY <1>1, <1>2, <2>1 DEF TimeInv, InTime, Heard, Begun
<1>3. CASE TurnSilent(d)
  <2>1. silent'[d] = Heard(d) BY <1>3 DEF TurnSilent, TypeOK
  <2>2. ASSUME NEW p \in packets, p.from = d, Listed(p) PROVE InTime(p)'
    <3>1. Heard(d)' = Heard(d) BY <1>1, <2>1 DEF Heard
    <3>2. p.clock \in Nat /\ (p.sent => p.clock <= AnswerTime) /\ (p.what = "write" => p.sent)
      BY DEF TypeOK, PacketType, PacketInv
    <3>3. Begun(p) < Rate BY <2>2, <3>2, Times DEF Begun, PacketInv
    <3>4. Begun(p) \in Int BY <2>2, <3>2, Times DEF Begun, PacketInv
    <3>5. ~ since[d] <= Begun(p) BY <1>1, <3>3, <3>4, Times
    <3> QED BY <1>1, <2>2, <3>1, <3>5 DEF TimeInv, InTime
  <2> QED BY <1>1, <1>2, <1>3, <2>2 DEF TimeInv, TurnSilent
<1>4. CASE TurnRead(d)
  <2>1. \A p \in packets : p.from = d => ~ Listed(p) BY <1>1, <1>4, NoneLeft DEF TurnRead
  <2>2. PICK S, n : Sends(d, S, packets, n) /\ packets' = packets \cup S
    <3>1. CASE Timed(d) BY <1>4, <3>1, FireReadFires DEF TurnRead, Fires
    <3>2. CASE ~ Timed(d) BY <1>4, <3>2, ReadSends DEF TurnRead
    <3> QED BY <3>1, <3>2
  <2>3. ASSUME NEW s \in S, Listed(s) PROVE InTime(s)'
    <3>1. s.from = d /\ IF s.sent THEN s.clock = 0 ELSE Timed(d) /\ s.clock = Delay
      BY <2>2 DEF Sends
    <3>2. 0 <= Begun(s) BY <3>1, Times DEF Begun
    <3> QED BY <1>1, <3>1, <3>2 DEF InTime, Begun
  <2> QED BY <1>1, <1>2, <2>1, <2>2, <2>3 DEF TimeInv, Sends
<1> QED BY <1>3, <1>4 DEF Turn

LEMMA TimeByHandle ==
  ASSUME OneLink, TypeOK, TypeOK', PacketInv, NumberInv, ReadInv, TimeInv,
         NEW d \in Device, NEW p \in packets, Handle(d, p)
  PROVE  TimeInv'
<1>1. /\ p.from = d /\ Listed(p)
      /\ \A q \in packets \ {p} : q.from = d /\ Listed(q) => d \notin scheduled
  BY ReadsByHandle
<1>2. /\ UNCHANGED << scheduled, since, silent >>
      /\ \A e \in Device \ {d} : told'[e] = told[e]
  BY OfHandle DEF Handle, Ack, Nack, Data, timing, TypeOK
<1>3. ASSUME NEW q \in packets \ {p}, q.from \in scheduled, Listed(q) PROVE InTime(q)'
  <2>1. q.from # d BY <1>1, <1>3
  <2>2. told'[q.from] = told[q.from] BY <1>2, <1>3, <2>1 DEF TypeOK
  <2> QED BY <1>2, <1>3, <2>2 DEF TimeInv, InTime, Heard, Begun
<1>4. CASE d \notin scheduled
  <2>1. \A q \in packets' \ (packets \ {p}) : q.from = d
    <3>1. CASE Fires(d, packets \ {p}, Without(pif, d, p.num))
      <4>1. PICK S, n : Sends(d, S, packets \ {p}, n) /\ packets' = (packets \ {p}) \cup S
        BY <3>1 DEF Fires
      <4> QED BY <4>1 DEF Sends
    <3>2. CASE packets' = packets \ {p} BY <3>2
    <3> QED BY <3>1, <3>2, OfHandle
  <2> QED BY <1>2, <1>3, <1>4, <2>1 DEF TimeInv
<1>5. CASE d \in scheduled
  <2>1. CASE packets' = packets \ {p} BY <1>2, <1>3, <2>1 DEF TimeInv
  <2>2. CASE Requery(d, p) /\ (Ack(d, p) \/ Nack(d, p))
    <3>1. PICK n \in Fresh(packets \ {p}, LinkOf[d]) : packets' = (packets \ {p}) \cup {Query(d, n, 0)}
      BY <2>2 DEF Requery
    <3> DEFINE q == Query(d, n, 0)
    <3>2. q.from = d /\ q.what = "query" /\ q.sent /\ q.clock = 0 BY FreshIs, QueryIs
    <3> HIDE DEF q
    <3>3. InTime(q)'
      <4>1. CASE Nack(d, p)
        <5>1. told'[d] = PauseTime BY <1>5, <4>1 DEF Nack, TypeOK
        <5>2. Heard(d)' = PauseTime BY <5>1, Times DEF Heard
        <5> QED BY <3>2, <5>2, Times DEF InTime
      <4>2. CASE Ack(d, p)
        <5>1. p.what = "write" BY <1>1, <4>2 DEF Ack, Acks, Listed
        <5>2. p.sent /\ p.clock \in Nat /\ p.clock <= AnswerTime /\ ~ Timed(d)
          BY <1>1, <5>1 DEF PacketInv, TypeOK, PacketType, Listed
        <5>3. since[d] <= p.clock BY <1>1, <1>5, <5>1, <5>2 DEF TimeInv, InTime, Begun
        <5>4. since[d] \in Nat BY Times DEF TypeOK
        <5>5. Begun(q) = AnswerTime BY <3>2, <5>2, Times DEF Begun
        <5>6. since'[d] <= Begun(q) BY <1>2, <5>2, <5>3, <5>4, <5>5, Times
        <5> QED BY <3>2, <5>6 DEF InTime, Begun
      <4> QED BY <2>2, <4>1, <4>2
    <3> QED BY <1>2, <1>3, <3>1, <3>3 DEF TimeInv, q
  <2> QED BY <1>5, <2>1, <2>2 DEF Handle, Ack, Nack, Data
<1> QED BY <1>4, <1>5

LEMMA TimeByDeferred ==
  ASSUME TypeOK, PacketInv, TimeInv, NEW p \in packets, SendDeferred(p)
  PROVE  TimeInv'
<1> DEFINE q == [p EXCEPT !.sent = TRUE]
<1>1. q.from = p.from /\ q.what = p.what /\ q.sent /\ q.clock = 0 /\ p.clock = 0 /\ ~ p.sent
  BY DEF SendDeferred, TypeOK, PacketType
<1>2. packets' = (packets \ {p}) \cup {q} /\ UNCHANGED << scheduled, since, told, silent >>
  BY DEF SendDeferred, timing
<1>3. p.what = "query" /\ Timed(p.from) BY <1>1 DEF PacketInv
<1> HIDE DEF q
<1>4. Listed(q) <=> Listed(p) BY <1>1 DEF Listed
<1>5. Begun(q) = Begun(p) BY <1>1, <1>3, Times DEF Begun
<1>6. p.from \in scheduled /\ Listed(p) => InTime(q)
  BY <1>1, <1>5 DEF TimeInv, InTime
<1> QED BY <1>1, <1>2, <1>4, <1>6 DEF TimeInv, InTime, Heard, Begun

LEMMA TimeByTick ==
  ASSUME TypeOK, PacketInv, TimeInv, Tick
  PROVE  TimeInv'
<1> DEFINE Later(p) == [p EXCEPT !.clock = IF p.sent THEN @ + 1 ELSE @ - 1]
<1>1. packets' = {Later(p) : p \in packets} /\ scheduled' = scheduled BY DEF Tick
<1>a. \A p \in packets : Later(p).from = p.from BY DEF TypeOK, PacketType
<1>2. SUFFICES ASSUME NEW p \in packets, p.from \in scheduled, Listed(Later(p))
      PROVE  InTime(Later(p))'
  <2> HIDE DEF Later
  <2> QED BY <1>1, <1>a DEF TimeInv
<1> DEFINE q == Later(p)
           d == p.from
<1>3. /\ q.from = d /\ q.what = p.what /\ q.sent = p.sent /\ p.sent \in BOOLEAN
      /\ p.sent => q.clock = p.clock + 1
      /\ ~ p.sent => q.clock = p.clock - 1
  BY DEF TypeOK, PacketType
<1>4. p.clock \in Nat /\ (p.sent => p.clock < AnswerTime) BY DEF Tick, TypeOK, PacketType
<1>5. ~ p.sent => p.what = "query" /\ Timed(d) BY DEF PacketInv
<1>6. Listed(q) BY <1>2
<1> HIDE DEF Later, q
<1>7. Listed(p) BY <1>3, <1>6 DEF Listed
<1>8. d \in Device BY <1>2 DEF TypeOK
<1>9. /\ since[d] \in 0 .. Rate /\ told[d] \in 0 .. PauseTime /\ silent[d] \in -1 .. PauseTime
      /\ since'[d] = (IF since[d] < Rate THEN since[d] + 1 ELSE Rate)
      /\ told'[d] = (IF told[d] > 0 THEN told[d] - 1 ELSE 0)
      /\ silent'[d] = (IF silent[d] > -1 THEN silent[d] - 1 ELSE -1)
  BY <1>8 DEF TypeOK, Tick, Down
<1> HIDE DEF d
<1>10. CASE since[d] <= Begun(p)
  <2>1. Begun(p) \in Int BY <1>3, <1>4, Times DEF Begun
  <2>2. Begun(q) = Begun(p) + 1
    <3>1. CASE p.sent BY <1>3, <1>4, <3>1, Times DEF Begun, d
    <3>2. CASE ~ p.sent BY <1>3, <1>4, <3>2, Times DEF Begun, d
    <3> QED BY <3>1, <3>2
  <2>3. since'[d] <= Begun(q) BY <1>9, <1>10, <2>1, <2>2, Times
  <2> QED BY <1>3, <2>3 DEF InTime, Begun, q
<1>11. CASE p.what = "query" /\ p.sent /\ Heard(d) + p.clock >= PauseTime
  <2>1. Heard(d) >= 2 /\ Heard(d) \in Int BY <1>4, <1>9, <1>11, Times DEF Heard
  <2>2. Heard(d)' = Heard(d) - 1
    <3>1. CASE told[d] > 0 BY <1>9, <2>1, <3>1, Times DEF Heard
    <3>2. CASE ~ told[d] > 0 BY <1>9, <2>1, <3>2, Times DEF Heard
    <3> QED BY <3>1, <3>2
  <2>3. Heard(d)' + q.clock >= PauseTime BY <1>3, <1>4, <1>11, <2>1, <2>2, Times
  <2> QED BY <1>3, <1>11, <2>3 DEF InTime, q
<1> QED BY <1>2, <1>7, <1>10, <1>11 DEF TimeInv, InTime, d, q

LEMMA TimeStep ==
  ASSUME OneLink, SafeInv, TypeOK', ReadInv, TimeInv, [Next]_vars
  PROVE  TimeInv'
<1> USE DEF SafeInv
<1>1. \A d \in Device : Hush(d) => TimeInv' BY TimeBySame DEF Hush, timing
<1>2. \A p \in packets : PassOn(p) \/ Lose(p) => TimeInv' BY TimeBySame DEF PassOn, Lose, timing
<1>3. ASSUME NEW l \in Link, SendOther(l) PROVE TimeInv'
  <2>1. PICK n \in Fresh(packets, l), what \in {"command", "bulk"} :
          packets' = packets \cup {Packet(l, n, Other, what, 0)}
    BY <1>3 DEF SendOther
  <2>2. ~ Listed(Packet(l, n, Other, what, 0)) BY <2>1 DEF Listed, Packet
  <2> QED BY <1>3, <2>1, <2>2, TimeBySame DEF SendOther, timing
<1>4. AddPif \/ UNCHANGED vars => TimeInv' BY TimeBySame DEF AddPif, vars, timing
<1> QED
  BY <1>1, <1>2, <1>3, <1>4, TimeByPut, TimeByTurn, TimeByHandle, TimeByDeferred, TimeByTick
     DEF Next

-----------------------------------------------------------------------------
(* The theorems.                                                           *)

LEMMA SafeInit == Init => SafeInv
<1> SUFFICES ASSUME Init PROVE SafeInv OBVIOUS
<1>1. TypeOK BY TypeInit
<1>2. PacketInv /\ NumberInv BY DEF Init, PacketInv, NumberInv
<1>3. StartInv /\ ChainInv BY DEF Init, StartInv, ChainInv, OneListed
<1> QED BY <1>1, <1>2, <1>3 DEF SafeInv

LEMMA SafeStep == SafeInv /\ [Next]_vars => SafeInv'
BY TypeStep, PacketsStep, ListsStep DEF SafeInv, ListsInv

LEMMA InvInit == Init => IInv
<1> SUFFICES ASSUME Init PROVE IInv OBVIOUS
<1>1. SafeInv BY SafeInit
<1>2. ListInv /\ AddInv /\ GoesOn /\ SoleInv /\ TimeInv
  BY DEF Init, ListInv, Match, AddInv, GoesOn, SoleInv, TimeInv, Awaited
<1>3. ~ strange BY DEF Init
<1> QED BY <1>1, <1>2, <1>3 DEF IInv, CleanInv

LEMMA InvStep ==
  ASSUME OneLink, IInv, [Next]_vars
  PROVE  IInv'
<1>1. SafeInv' BY SafeStep DEF IInv
<1>2. ASSUME Clean' PROVE CleanInv'
  <2>1. Clean BY <1>2, CleanBefore DEF IInv, SafeInv
  <2>2. SafeInv /\ ReadInv /\ TimeInv /\ ~ strange /\ TypeOK'
    BY <1>1, <2>1 DEF IInv, SafeInv, CleanInv, ReadInv
  <2>3. ReadInv' BY <1>2, <2>1, <2>2, ReadsStep
  <2>4. TimeInv' BY <2>2, TimeStep
  <2>5. ~ strange'
    <3>1. \A d \in Device, p \in packets : Handle(d, p) => strange' = strange
      BY <2>2, ReadsByHandle DEF SafeInv, Handle, Ack, Nack, Data, TypeOK
    <3> QED
      BY <2>2, <3>1 DEF Next, PutOnRobot, Turn, Hush, PassOn, SendDeferred, Lose, SendOther,
                         AddPif, Tick, vars, ghosts
  <2> QED BY <2>3, <2>4, <2>5 DEF ReadInv, CleanInv
<1> QED BY <1>1, <1>2 DEF IInv

LEMMA Invariant == ASSUME OneLink PROVE Spec => []IInv
<1>1. IInv /\ [Next]_vars => IInv' BY InvStep
<1> QED BY InvInit, <1>1, PTL DEF Spec

\* Lists only ever count numbers; in particular a bulk response that comes by does not drop
\* a number more often than it is listed (i2c_device.rs:105).
THEOREM TypeCorrect == Spec => []TypeOK
<1>1. TypeOK /\ [Next]_vars => TypeOK' BY TypeStep
<1> QED BY TypeInit, <1>1, PTL DEF Spec

\* Whatever is lost, and whichever lines there are, a device read in a chain has at most one
\* number in its list: neither an ACK, nor a NACK, nor data makes two reads of one.
THEOREM ChainsDoNotSplit == Spec => [](\A d \in Device \ scheduled : OneListed(d))
<1>1. SafeInv => \A d \in Device \ scheduled : OneListed(d) BY DEF SafeInv, ChainInv
<1> QED BY SafeInit, SafeStep, <1>1, PTL DEF Spec

\* Nor does the scheduler send a read while another of the device is under way, as long as
\* no answer is lost: the rate leaves a read the time it takes, and each NACK makes the order
\* pause for longer than the next answer takes (i2c_device.rs:88).
THEOREM ReadsOneAtATime == ASSUME OneLink PROVE Spec => []OneReadAtATime
<1>1. IInv => OneReadAtATime
  <2> SUFFICES ASSUME IInv PROVE OneReadAtATime OBVIOUS
  <2>1. \A d \in Device \ scheduled : OneListed(d) BY DEF IInv, SafeInv, ChainInv
  <2>2. ASSUME Clean, NEW p \in packets, NEW q \in packets,
               p.from \in scheduled, q.from = p.from, Listed(p), Listed(q)
        PROVE  p = q
    <3>1. p.num \in Num /\ q.num \in Num BY DEF IInv, SafeInv, TypeOK, PacketType
    <3>2. Awaited(p.from, p.num) /\ Awaited(p.from, q.num) BY <2>2 DEF Awaited, Awaits
    <3>3. p.num = q.num BY <2>2, <3>1, <3>2 DEF IInv, CleanInv, SoleInv
    <3> QED BY <3>3, OneNumber DEF IInv, SafeInv
  <2> QED BY <2>1, <2>2 DEF OneReadAtATime
<1> QED BY Invariant, <1>1, PTL

\* As long as no answer is lost, a device decodes only the answers to its own queries: the
\* number is enough to tell them (i2c_device.rs:70), since a list has exactly the numbers of
\* its device's packets under way.
THEOREM OwnDataOnly == ASSUME OneLink PROVE Spec => []OwnData
<1>1. IInv => OwnData BY DEF IInv, CleanInv, OwnData
<1> QED BY Invariant, <1>1, PTL

\* As long as no answer is lost, no chain ends but with its closure: there is always a packet
\* under way whose answer the device will take and send the next for.
THEOREM ChainsGoOn == ASSUME OneLink PROVE Spec => []ChainKept
<1>1. IInv => ChainKept
  <2> SUFFICES ASSUME IInv, Running, Clean, NEW d \in Device \ (scheduled \cup quiet)
               PROVE  \E p \in packets : p.from = d /\ IsPif(d, p.num) /\ Listed(p)
    BY DEF ChainKept
  <2>1. PICK n \in Num : Awaited(d, n) BY DEF Running, IInv, CleanInv, GoesOn
  <2>2. PICK p \in packets : Awaits(p, d, n) BY <2>1 DEF Awaited
  <2>3. [dev |-> d, num |-> n] # adding
    <3>1. d # Other BY OfDevice
    <3>2. CASE adding = Nobody BY <3>1, <3>2 DEF Nobody
    <3>3. CASE adding # Nobody
      <4>1. adding.dev # d BY <3>3 DEF IInv, SafeInv, NumberInv
      <4> QED BY <4>1
    <3> QED BY <3>2, <3>3
  <2>4. pif[d][n] = 1 BY <2>1, <2>3 DEF IInv, CleanInv, ListInv, Match, Awaited
  <2> QED BY <2>2, <2>4 DEF Awaits, IsPif
<1> QED BY Invariant, <1>1, PTL

\* What a list may have more or less of it has by losses alone: without any it is, number
\* by number, what the device is waiting for, but for the one about to be listed.
THEOREM ListsExact ==
  ASSUME OneLink
  PROVE  Spec => [](Clean => \A d \in Device, n \in Num :
                      pif[d][n] = IF /\ [dev |-> d, num |-> n] # adding
                                     /\ \E p \in packets : p.from = d /\ p.num = n /\ Listed(p)
                                  THEN 1 ELSE 0)
<1>1. IInv => (Clean => \A d \in Device, n \in Num :
                 pif[d][n] = IF /\ [dev |-> d, num |-> n] # adding
                                /\ \E p \in packets : p.from = d /\ p.num = n /\ Listed(p)
                             THEN 1 ELSE 0)
  BY DEF IInv, CleanInv, ListInv, Match, Awaits
<1> QED BY Invariant, <1>1, PTL

-----------------------------------------------------------------------------
(* Sums.                                                                   *)

\* A family of subsets of a finite set has a smallest member, if any.
LEMMA SmallestOf ==
  ASSUME NEW S, IsFiniteSet(S), NEW T, T \subseteq SUBSET S, T # {}
  PROVE  \E u \in T : \A v \in T : v \subseteq u => v = u
<1> DEFINE R == StrictSubsetOrdering(S)
<1>1. IsWellFoundedOn(R, FiniteSubsetsOf(S)) BY FS_StrictSubsetOrderingWellFounded
<1>2. \A v, u \in T : v \subseteq u /\ v # u => << v, u >> \in R
  BY DEF StrictSubsetOrdering
<1>3. T \subseteq FiniteSubsetsOf(S) BY FS_Subset DEF FiniteSubsetsOf
<1> HIDE DEF R
<1>4. \E u \in T : \A v \in T : ~ (<< v, u >> \in R) BY <1>1, <1>3, WFMin
<1> QED BY <1>2, <1>4

\* What SumFunction folds by: one element of the set is chosen, and the rest is summed.
Chosen(u) == CHOOSE x \in u : TRUE

Sums(f, T, g) ==
  g = [u \in T |-> IF u = {} THEN 0 ELSE f[Chosen(u)] + g[u \ {Chosen(u)}]]

Small(S, k) == {u \in SUBSET S : Cardinality(u) <= k}

LEMMA SumsOf ==
  ASSUME NEW f, NEW T, NEW g, Sums(f, T, g), NEW u \in T
  PROVE  g[u] = IF u = {} THEN 0 ELSE f[Chosen(u)] + g[u \ {Chosen(u)}]
BY DEF Sums

LEMMA OneIn ==
  ASSUME NEW u, u # {}
  PROVE  Chosen(u) \in u
BY DEF Chosen

LEMMA SumsExist ==
  ASSUME NEW S, IsFiniteSet(S), NEW f
  PROVE  \E g : Sums(f, SUBSET S, g)
<1>0. ASSUME NEW k \in Nat, NEW u \in Small(S, k), u # {}
      PROVE  /\ u \ {Chosen(u)} \in Small(S, k) 
             /\ k > 0 => u \ {Chosen(u)} \in Small(S, k - 1)
             /\ k > 0
  <2>1. Chosen(u) \in u /\ IsFiniteSet(u) /\ Cardinality(u) <= k
    BY <1>0, OneIn, FS_Subset DEF Small
  <2>2. Cardinality(u \ {Chosen(u)}) = Cardinality(u) - 1 /\ Cardinality(u) \in Nat
        /\ Cardinality(u \ {Chosen(u)}) \in Nat
    BY <2>1, FS_RemoveElement, FS_CardinalityType
  <2>3. u \ {Chosen(u)} \in SUBSET S BY DEF Small
  <2> QED BY <2>1, <2>2, <2>3 DEF Small
<1>1. \E g : Sums(f, Small(S, 0), g)
  <2> DEFINE g == [u \in Small(S, 0) |-> 0]
  <2>1. ASSUME NEW u \in Small(S, 0) PROVE u = {}
    <3>1. 0 \in Nat /\ ~ (0 > 0) OBVIOUS
    <3> QED BY <1>0, <3>1
  <2>2. Sums(f, Small(S, 0), g) BY <2>1 DEF Sums
  <2> QED BY <2>2
<1>2. ASSUME NEW k \in Nat, k > 0, \E g : Sums(f, Small(S, k - 1), g)
      PROVE  \E g : Sums(f, Small(S, k), g)
  <2>1. PICK h : Sums(f, Small(S, k - 1), h) BY <1>2
  <2> DEFINE Value(u) == IF u = {} THEN 0 ELSE f[Chosen(u)] + h[u \ {Chosen(u)}]
             g == [u \in Small(S, k) |-> Value(u)]
  <2>2. Small(S, k - 1) \subseteq Small(S, k)
    <3> SUFFICES ASSUME NEW u \in Small(S, k - 1) PROVE u \in Small(S, k) OBVIOUS
    <3>1. IsFiniteSet(u) /\ u \in SUBSET S /\ Cardinality(u) <= k - 1 BY FS_Subset DEF Small
    <3>2. Cardinality(u) \in Nat BY <3>1, FS_CardinalityType
    <3> QED BY <3>1, <3>2 DEF Small
  <2>3. \A u \in Small(S, k - 1) : h[u] = Value(u) BY <2>1, SumsOf
  <2>4. ASSUME NEW u \in Small(S, k), u # {}
        PROVE  h[u \ {Chosen(u)}] = g[u \ {Chosen(u)}]
    <3>1. u \ {Chosen(u)} \in Small(S, k - 1) BY <1>0, <1>2, <2>4
    <3> QED BY <2>2, <2>3, <3>1
  <2>5. \A u \in Small(S, k) : g[u] = IF u = {} THEN 0 ELSE f[Chosen(u)] + g[u \ {Chosen(u)}]
    <3> SUFFICES ASSUME NEW u \in Small(S, k)
                 PROVE  g[u] = IF u = {} THEN 0 ELSE f[Chosen(u)] + g[u \ {Chosen(u)}]
      OBVIOUS
    <3>1. g[u] = Value(u) OBVIOUS
    <3>2. CASE u = {} BY <3>1, <3>2
    <3>3. CASE u # {} 
      <4>1. h[u \ {Chosen(u)}] = g[u \ {Chosen(u)}] BY <2>4, <3>3
      <4>2. Value(u) = f[Chosen(u)] + h[u \ {Chosen(u)}] BY <3>3
      <4> HIDE DEF g, Value
      <4> QED BY <3>1, <3>3, <4>1, <4>2
    <3> QED BY <3>2, <3>3
  <2>6. g = [u \in Small(S, k) |-> g[u]] OBVIOUS
  <2> HIDE DEF g
  <2>7. Sums(f, Small(S, k), g) BY <2>5, <2>6 DEF Sums
  <2> QED BY <2>7
<1>3. PICK n \in Nat : n = Cardinality(S) BY FS_CardinalityType
<1>4. Small(S, n) = SUBSET S
  <2>1. \A u \in SUBSET S : Cardinality(u) <= n BY <1>3, FS_Subset
  <2> QED BY <2>1 DEF Small
<1>5. \A k \in Nat : \E g : Sums(f, Small(S, k), g)
  <2> DEFINE T == {k \in Nat : ~ \E g : Sums(f, Small(S, k), g)}
  <2> SUFFICES ASSUME T # {} PROVE FALSE OBVIOUS
  <2>1. T \subseteq Nat OBVIOUS
  <2>2. PICK k \in T : \A j \in Nat : j < k => j \notin T
    <3> DEFINE R == OpToRel(<, Nat)
    <3>1. IsWellFoundedOn(R, Nat) BY NatLessThanWellFounded
    <3>2. \A x, y \in Nat : y < x => << y, x >> \in R BY DEF OpToRel
    <3> HIDE DEF R, T
    <3>3. \E x \in T : \A y \in T : ~ (<< y, x >> \in R) BY <2>1, <3>1, WFMin
    <3> QED BY <2>1, <3>2, <3>3
  <2>3. k \in Nat /\ ~ \E g : Sums(f, Small(S, k), g) OBVIOUS
  <2>4. CASE k = 0 BY <1>1, <2>3, <2>4
  <2>5. CASE k > 0
    <3>1. k - 1 \in Nat /\ k - 1 < k BY <2>3, <2>5
    <3>2. \E g : Sums(f, Small(S, k - 1), g) BY <2>2, <3>1
    <3> HIDE DEF T
    <3> QED BY <1>2, <2>3, <2>5, <3>2
  <2> QED BY <2>3, <2>4, <2>5
<1> QED BY <1>4, <1>5

\* How it is computed: g gives the sum over each set of indices.
Adds(f, S, g) ==
  /\ g[{}] = 0
  /\ \A u \in SUBSET S : u # {} => g[u] = f[Chosen(u)] + g[u \ {Chosen(u)}]

LEMMA SumIs ==
  ASSUME NEW S, IsFiniteSet(S), NEW f, S = DOMAIN f
  PROVE  \E g : Adds(f, S, g) /\ SumFunction(f) = g[S]
<1> DEFINE it == CHOOSE g : g = [u \in SUBSET (DOMAIN f) |->
                   IF u = {} THEN 0 ELSE f[CHOOSE x \in u : TRUE] + g[u \ {CHOOSE x \in u : TRUE}]]
<1>1. SumFunction(f) = it[DOMAIN f]
  BY DEF SumFunction, SumFunctionOnSet, FoldFunctionOnSet, MapThenFoldSet
<1>2. it = CHOOSE g : Sums(f, SUBSET S, g) BY DEF Sums, Chosen
<1> HIDE DEF it
<1>3. Sums(f, SUBSET S, it) BY <1>2, SumsExist
<1>4. Adds(f, S, it)
  <2>1. {} \in SUBSET S OBVIOUS
  <2>2. it[{}] = 0 BY <1>3, <2>1, SumsOf
  <2>3. ASSUME NEW u \in SUBSET S, u # {}
        PROVE  it[u] = f[Chosen(u)] + it[u \ {Chosen(u)}]
    BY <1>3, <2>3, SumsOf
  <2> QED BY <2>2, <2>3 DEF Adds
<1> QED BY <1>1, <1>4

\* A property of all partial sums that holds if it holds of them without the chosen element.
LEMMA SmallestSum ==
  ASSUME NEW S, IsFiniteSet(S), NEW T, T \subseteq SUBSET S, {} \notin T,
         \A u \in T : u \ {Chosen(u)} \in T
  PROVE  T = {}
<1> SUFFICES ASSUME T # {} PROVE FALSE OBVIOUS
<1>1. PICK u \in T : \A v \in T : v \subseteq u => v = u BY SmallestOf
<1>2. Chosen(u) \in u BY <1>1, OneIn
<1>3. u \ {Chosen(u)} = u BY <1>1
<1> QED BY <1>2, <1>3

LEMMA SumsType ==
  ASSUME NEW S, IsFiniteSet(S), NEW f \in [S -> Nat], NEW g, Adds(f, S, g),
         NEW u \in SUBSET S
  PROVE  g[u] \in Nat
<1> DEFINE Fits(v) == g[v] \in Nat
<1>1. ASSUME NEW v \in SUBSET S, v # {}, Fits(v \ {Chosen(v)}) PROVE Fits(v)
  <2>1. g[v] = f[Chosen(v)] + g[v \ {Chosen(v)}] BY <1>1 DEF Adds
  <2>2. Chosen(v) \in S BY <1>1, OneIn
  <2> QED BY <1>1, <2>1, <2>2
<1>2. Fits({}) BY DEF Adds
<1> DEFINE T == {v \in SUBSET S : ~ Fits(v)}
<1>3. T \subseteq SUBSET S OBVIOUS
<1> HIDE DEF Fits
<1>4. {} \notin T BY <1>2
<1>5. \A v \in T : v \ {Chosen(v)} \in T BY <1>1, <1>4
<1>6. T = {}
  <2> HIDE DEF T
  <2> QED BY <1>3, <1>4, <1>5, SmallestSum
<1>7. Fits(u) BY <1>6
<1> QED BY <1>7 DEF Fits

LEMMA SumsPoint ==
  ASSUME NEW S, IsFiniteSet(S), NEW f \in [S -> Nat], NEW h \in [S -> Nat],
         NEW a \in S, \A x \in S \ {a} : h[x] = f[x],
         NEW g, Adds(f, S, g), NEW r, Adds(h, S, r),
         NEW u \in SUBSET S
  PROVE  r[u] = IF a \in u THEN g[u] - f[a] + h[a] ELSE g[u]
<1> DEFINE Fits(v) == r[v] = IF a \in v THEN g[v] - f[a] + h[a] ELSE g[v]
<1>1. ASSUME NEW v \in SUBSET S, v # {}, Fits(v \ {Chosen(v)}) PROVE Fits(v)
  <2>1. PICK x : x = Chosen(v) OBVIOUS
  <2>2. PICK w : w = v \ {x} OBVIOUS
  <2>3. x \in v /\ w \in SUBSET S BY <1>1, <2>1, <2>2, OneIn
  <2>4. g[v] = f[x] + g[w] BY <1>1, <2>1, <2>2 DEF Adds
  <2>5. r[v] = h[x] + r[w] BY <1>1, <2>1, <2>2 DEF Adds
  <2>6. f[x] \in Nat /\ h[x] \in Nat /\ f[a] \in Nat /\ h[a] \in Nat BY <2>3
  <2>7. g[w] \in Nat /\ r[w] \in Nat BY <2>3, SumsType
  <2>8. r[w] = IF a \in w THEN g[w] - f[a] + h[a] ELSE g[w] BY <1>1, <2>1, <2>2
  <2>9. CASE x = a
    <3>1. a \in v /\ a \notin w BY <2>2, <2>3, <2>9
    <3> QED BY <2>4, <2>5, <2>6, <2>7, <2>8, <2>9, <3>1
  <2>10. CASE x # a
    <3>1. a \in v <=> a \in w BY <2>2, <2>10
    <3>2. h[x] = f[x] BY <2>3, <2>10
    <3> QED BY <2>4, <2>5, <2>6, <2>7, <2>8, <3>1, <3>2
  <2> QED BY <2>9, <2>10
<1>2. Fits({}) BY DEF Adds
<1> DEFINE T == {v \in SUBSET S : ~ Fits(v)}
<1>3. T \subseteq SUBSET S OBVIOUS
<1> HIDE DEF Fits
<1>4. {} \notin T BY <1>2
<1>5. \A v \in T : v \ {Chosen(v)} \in T BY <1>1, <1>4
<1>6. T = {}
  <2> HIDE DEF T
  <2> QED BY <1>3, <1>4, <1>5, SmallestSum
<1>7. Fits(u) BY <1>6
<1> QED BY <1>7 DEF Fits

LEMMA SumsMono ==
  ASSUME NEW S, IsFiniteSet(S), NEW f \in [S -> Nat], NEW h \in [S -> Nat],
         \A x \in S : f[x] <= h[x],
         NEW g, Adds(f, S, g), NEW r, Adds(h, S, r),
         NEW u \in SUBSET S
  PROVE  g[u] <= r[u]
<1> DEFINE Fits(v) == g[v] <= r[v]
<1>1. ASSUME NEW v \in SUBSET S, v # {}, Fits(v \ {Chosen(v)}) PROVE Fits(v)
  <2>1. PICK x : x = Chosen(v) OBVIOUS
  <2>2. PICK w : w = v \ {x} OBVIOUS
  <2>3. x \in S /\ w \in SUBSET S BY <1>1, <2>1, <2>2, OneIn
  <2>4. g[v] = f[x] + g[w] BY <1>1, <2>1, <2>2 DEF Adds
  <2>5. r[v] = h[x] + r[w] BY <1>1, <2>1, <2>2 DEF Adds
  <2>6. f[x] \in Nat /\ h[x] \in Nat /\ f[x] <= h[x] BY <2>3
  <2>7. g[w] \in Nat /\ r[w] \in Nat BY <2>3, SumsType
  <2>8. g[w] <= r[w] BY <1>1, <2>1, <2>2
  <2> QED BY <2>4, <2>5, <2>6, <2>7, <2>8
<1>2. Fits({}) BY DEF Adds
<1> DEFINE T == {v \in SUBSET S : ~ Fits(v)}
<1>3. T \subseteq SUBSET S OBVIOUS
<1> HIDE DEF Fits
<1>4. {} \notin T BY <1>2
<1>5. \A v \in T : v \ {Chosen(v)} \in T BY <1>1, <1>4
<1>6. T = {}
  <2> HIDE DEF T
  <2> QED BY <1>3, <1>4, <1>5, SmallestSum
<1>7. Fits(u) BY <1>6
<1> QED BY <1>7 DEF Fits

LEMMA SumType ==
  ASSUME NEW S, IsFiniteSet(S), NEW f \in [S -> Nat]
  PROVE  SumFunction(f) \in Nat
<1>1. S = DOMAIN f OBVIOUS
<1>2. PICK g : Adds(f, S, g) /\ SumFunction(f) = g[S] BY <1>1, SumIs
<1> QED BY <1>2, SumsType

LEMMA SumPoint ==
  ASSUME NEW S, IsFiniteSet(S), NEW f \in [S -> Nat], NEW h \in [S -> Nat],
         NEW a \in S, \A x \in S \ {a} : h[x] = f[x]
  PROVE  SumFunction(h) = SumFunction(f) - f[a] + h[a]
<1>1. S = DOMAIN f /\ S = DOMAIN h OBVIOUS
<1>2. PICK g : Adds(f, S, g) /\ SumFunction(f) = g[S] BY <1>1, SumIs
<1>3. PICK k : Adds(h, S, k) /\ SumFunction(h) = k[S] BY <1>1, SumIs
<1> QED BY <1>2, <1>3, SumsPoint

LEMMA SumMono ==
  ASSUME NEW S, IsFiniteSet(S), NEW f \in [S -> Nat], NEW h \in [S -> Nat],
         \A x \in S : f[x] <= h[x]
  PROVE  SumFunction(f) <= SumFunction(h)
<1>1. S = DOMAIN f /\ S = DOMAIN h OBVIOUS
<1>2. PICK g : Adds(f, S, g) /\ SumFunction(f) = g[S] BY <1>1, SumIs
<1>3. PICK k : Adds(h, S, k) /\ SumFunction(h) = k[S] BY <1>1, SumIs
<1> QED BY <1>2, <1>3, SumsMono

LEMMA SumZero ==
  ASSUME NEW S, IsFiniteSet(S)
  PROVE  SumFunction([x \in S |-> 0]) = 0
<1> DEFINE f == [x \in S |-> 0]
<1>0. f \in [S -> Nat] /\ S = DOMAIN f /\ \A x \in S : f[x] = 0 OBVIOUS
<1> HIDE DEF f
<1>a. PICK g : Adds(f, S, g) /\ SumFunction(f) = g[S] BY <1>0, SumIs
<1> DEFINE Fits(v) == g[v] = 0
<1>1. ASSUME NEW v \in SUBSET S, v # {}, Fits(v \ {Chosen(v)}) PROVE Fits(v)
  <2>1. g[v] = f[Chosen(v)] + g[v \ {Chosen(v)}] BY <1>1, <1>a DEF Adds
  <2>2. Chosen(v) \in S BY <1>1, OneIn
  <2> QED BY <1>0, <1>1, <2>1, <2>2
<1>2. Fits({}) BY <1>a DEF Adds
<1> DEFINE T == {v \in SUBSET S : ~ Fits(v)}
<1>3. T \subseteq SUBSET S OBVIOUS
<1> HIDE DEF Fits
<1>4. {} \notin T BY <1>2
<1>5. \A v \in T : v \ {Chosen(v)} \in T BY <1>1, <1>4
<1>6. T = {}
  <2> HIDE DEF T
  <2> QED BY <1>3, <1>4, <1>5, SmallestSum
<1>7. Fits(S) BY <1>6
<1> QED BY <1>a, <1>7 DEF Fits, f

Lists == [Device -> [Num -> Nat]]

\* How many numbers the lists have, each as often as it is listed.
Listing(lists) == SumFunction([d \in Device |-> SumFunction(lists[d])])

Pairs == [dev : Device, num : Num]

LEMMA Finite == IsFiniteSet(Device) /\ IsFiniteSet(Num) /\ IsFiniteSet(Pairs)
<1>1. IsFiniteSet(Num) BY DeviceAssumption
<1>2. IsFiniteSet(Device)
  <2>1. Asked \in [1 .. Len(Asked) -> Device] /\ Len(Asked) \in Nat BY DeviceAssumption
  <2>2. \A d \in Device : \E i \in 1 .. Len(Asked) : Asked[i] = d
    BY <2>1, DeviceAssumption DEF Range
  <2>3. Asked \in Surjection(1 .. Len(Asked), Device) BY <2>1, <2>2 DEF Surjection
  <2>4. IsFiniteSet(1 .. Len(Asked)) BY <2>1, FS_Interval
  <2> QED BY <2>3, <2>4, FS_Surjection
<1>3. IsFiniteSet(Pairs)
  <2> DEFINE f == [x \in Device \X Num |-> [dev |-> x[1], num |-> x[2]]]
  <2>1. f \in [Device \X Num -> Pairs] BY DEF Pairs
  <2>2. ASSUME NEW r \in Pairs PROVE \E x \in Device \X Num : f[x] = r
    <3>1. << r.dev, r.num >> \in Device \X Num /\ f[<< r.dev, r.num >>] = r BY DEF Pairs
    <3> QED BY <3>1
  <2>3. f \in Surjection(Device \X Num, Pairs) BY <2>1, <2>2 DEF Surjection
  <2>4. IsFiniteSet(Device \X Num) BY <1>1, <1>2, FS_Product
  <2> HIDE DEF f
  <2> QED BY <2>3, <2>4, FS_Surjection
<1> QED BY <1>1, <1>2, <1>3

LEMMA RowSums ==
  ASSUME NEW lists \in Lists
  PROVE  [d \in Device |-> SumFunction(lists[d])] \in [Device -> Nat]
<1>1. \A d \in Device : SumFunction(lists[d]) \in Nat BY SumType, Finite DEF Lists
<1> QED BY <1>1

LEMMA ListingType ==
  ASSUME NEW lists \in Lists
  PROVE  Listing(lists) \in Nat
BY RowSums, SumType, Finite DEF Listing

LEMMA ListingNone ==
  Listing([d \in Device |-> [n \in Num |-> 0]]) = 0
<1> DEFINE lists == [d \in Device |-> [n \in Num |-> 0]]
<1>1. [d \in Device |-> SumFunction(lists[d])] = [d \in Device |-> 0]
  BY SumZero, Finite
<1> QED BY <1>1, SumZero, Finite DEF Listing

\* One number is listed more or less often.
LEMMA ListingPoint ==
  ASSUME NEW lists \in Lists, NEW new \in Lists, NEW d \in Device, NEW n \in Num,
         \A e \in Device \ {d} : new[e] = lists[e],
         \A m \in Num \ {n} : new[d][m] = lists[d][m]
  PROVE  Listing(new) = Listing(lists) - lists[d][n] + new[d][n]
<1> DEFINE old == [e \in Device |-> SumFunction(lists[e])]
           now == [e \in Device |-> SumFunction(new[e])]
<1>1. old \in [Device -> Nat] /\ now \in [Device -> Nat] BY RowSums
<1>2. old[d] = SumFunction(lists[d]) /\ now[d] = SumFunction(new[d]) OBVIOUS
<1>3. \A e \in Device \ {d} : now[e] = old[e] OBVIOUS
<1>4. Listing(lists) = SumFunction(old) /\ Listing(new) = SumFunction(now) BY DEF Listing
<1> HIDE DEF old, now
<1>5. SumFunction(now) = SumFunction(old) - old[d] + now[d] BY <1>1, <1>3, SumPoint, Finite
<1>6. lists[d] \in [Num -> Nat] /\ new[d] \in [Num -> Nat] BY DEF Lists
<1>7. SumFunction(new[d]) = SumFunction(lists[d]) - lists[d][n] + new[d][n]
  BY <1>6, SumPoint, Finite
<1>8. SumFunction(old) \in Nat /\ SumFunction(now) \in Nat BY <1>1, SumType, Finite
<1>9. /\ SumFunction(lists[d]) \in Nat /\ SumFunction(new[d]) \in Nat
      /\ lists[d][n] \in Nat /\ new[d][n] \in Nat
  BY <1>6, SumType, Finite
<1> QED BY <1>2, <1>4, <1>5, <1>7, <1>8, <1>9

LEMMA ListingLess ==
  ASSUME NEW lists \in Lists, NEW new \in Lists,
         \A d \in Device, n \in Num : new[d][n] <= lists[d][n]
  PROVE  Listing(new) <= Listing(lists)
<1> DEFINE old == [e \in Device |-> SumFunction(lists[e])]
           now == [e \in Device |-> SumFunction(new[e])]
<1>1. old \in [Device -> Nat] /\ now \in [Device -> Nat] BY RowSums
<1>2. ASSUME NEW d \in Device PROVE now[d] <= old[d]
  <2>1. lists[d] \in [Num -> Nat] /\ new[d] \in [Num -> Nat] BY DEF Lists
  <2>2. SumFunction(new[d]) <= SumFunction(lists[d]) BY <2>1, SumMono, Finite
  <2> QED BY <2>2
<1> HIDE DEF old, now
<1>3. SumFunction(now) <= SumFunction(old) BY <1>1, <1>2, SumMono, Finite
<1> QED BY <1>3 DEF Listing, old, now

\* There are at least as many as there are numbers that are listed.
LEMMA ListingAtLeast ==
  ASSUME NEW lists \in Lists, NEW W \in SUBSET Pairs,
         \A r \in W : lists[r.dev][r.num] > 0
  PROVE  Cardinality(W) <= Listing(lists)
<1> DEFINE Within(V, l) == V \in SUBSET Pairs /\ l \in Lists /\ \A r \in V : l[r.dev][r.num] > 0
           Fits(V) == \A l : Within(V, l) => Cardinality(V) <= Listing(l)
           T == {V \in SUBSET Pairs : ~ Fits(V)}
<1>1. Fits({})
  <2> SUFFICES ASSUME NEW l \in Lists PROVE Cardinality({}) <= Listing(l) OBVIOUS
  <2> QED BY ListingType, FS_EmptySet
<1>2. ASSUME NEW V \in SUBSET Pairs, V # {}, Fits(V \ {Chosen(V)}) PROVE Fits(V)
  <2>1. PICK r : r = Chosen(V) OBVIOUS
  <2>2. r \in V /\ r \in Pairs BY <1>2, <2>1, OneIn
  <2>3. PICK d \in Device, n \in Num : d = r.dev /\ n = r.num /\ r = [dev |-> d, num |-> n]
    BY <2>2 DEF Pairs
  <2> SUFFICES ASSUME NEW l, Within(V, l) PROVE Cardinality(V) <= Listing(l) OBVIOUS
  <2>4. l \in Lists /\ l[d][n] \in Nat /\ l[d][n] > 0
    <3>1. l[d][n] > 0 /\ l \in Lists BY <2>2, <2>3
    <3> QED BY <3>1 DEF Lists
  <2> DEFINE x == l[d][n] - 1
             new == [l EXCEPT ![d] = [l[d] EXCEPT ![n] = x]]
  <2>5. x \in Nat BY <2>4
  <2>6. /\ new \in Lists /\ new[d][n] = x
        /\ \A m \in Num \ {n} : new[d][m] = l[d][m]
        /\ \A e \in Device \ {d} : new[e] = l[e]
    <3> HIDE DEF x
    <3>1. [l[d] EXCEPT ![n] = x] \in [Num -> Nat] BY <2>4, <2>5 DEF Lists
    <3> QED BY <2>4, <2>5, <3>1 DEF Lists
  <2> HIDE DEF new
  <2>7. Listing(new) = Listing(l) - l[d][n] + x
    <3> HIDE DEF x, Fits
    <3> QED BY <2>4, <2>6, ListingPoint
  <2>8. Within(V \ {r}, new)
    <3> SUFFICES ASSUME NEW s \in V \ {r} PROVE new[s.dev][s.num] > 0 BY <2>6
    <3>1. PICK e \in Device, m \in Num : e = s.dev /\ m = s.num /\ s = [dev |-> e, num |-> m]
      BY DEF Pairs
    <3>2. l[e][m] > 0 BY <3>1
    <3>3. ~ (e = d /\ m = n) BY <2>3, <3>1
    <3>4. new[e][m] = l[e][m] BY <2>6, <3>3
    <3> QED BY <3>1, <3>2, <3>4
  <2>9. Cardinality(V \ {r}) <= Listing(new) BY <1>2, <2>1, <2>8
  <2>10. Cardinality(V \ {r}) = Cardinality(V) - 1 /\ Cardinality(V) \in Nat
    BY <2>2, Finite, FS_Subset, FS_RemoveElement, FS_CardinalityType
  <2>11. Listing(l) \in Nat BY <2>4, ListingType
  <2> HIDE DEF Within, Fits
  <2> QED BY <2>4, <2>7, <2>9, <2>10, <2>11
<1> HIDE DEF Fits
<1>3. T \subseteq SUBSET Pairs /\ {} \notin T BY <1>1
<1>4. \A V \in T : V \ {Chosen(V)} \in T BY <1>2, <1>3
<1>5. T = {}
  <2> HIDE DEF T
  <2> QED BY <1>3, <1>4, Finite, SmallestSum
<1>6. Fits(W) BY <1>5
<1> QED BY <1>6 DEF Fits

-----------------------------------------------------------------------------
(* Strays, whatever is lost.                                               *)

\* The numbers that the packets ps are to be taken by, but for the one about to be listed,
\* which is early if its packet is gone already.
WaitingIn(ps) ==
  {r \in Pairs : r # adding /\ \E p \in ps : Awaits(p, r.dev, r.num)}

EarlyIn(ps) ==
  IF adding # Nobody /\ ~ \E p \in ps : Awaits(p, adding.dev, adding.num) THEN 1 ELSE 0

\* lists has them all, and no more than s others.
Balanced(lists, ps, s) ==
  /\ \A r \in WaitingIn(ps) : lists[r.dev][r.num] > 0
  /\ Listing(lists) + EarlyIn(ps) <= Cardinality(WaitingIn(ps)) + s

StrayInv == Balanced(pif, packets, stray)

LEMMA WaitingFinite ==
  ASSUME NEW ps
  PROVE  /\ IsFiniteSet(WaitingIn(ps)) /\ Cardinality(WaitingIn(ps)) \in Nat
         /\ EarlyIn(ps) \in {0, 1}
<1>1. WaitingIn(ps) \in SUBSET Pairs BY DEF WaitingIn
<1> QED BY <1>1, Finite, FS_Subset, FS_CardinalityType DEF EarlyIn

\* A number is about to be listed for a packet that awaits it, if it is still there.
LEMMA OfAdding ==
  ASSUME OneLink, TypeOK, PacketInv, NumberInv, NEW p \in packets, adding # Nobody,
         p.num = adding.num
  PROVE  Awaits(p, adding.dev, adding.num) /\ adding \in Pairs
<1>1. adding \in Pairs /\ adding.dev \in Device /\ adding.num \in Num BY DEF TypeOK, Pairs
<1>2. p.link \in Link /\ LinkOf[adding.dev] \in Link BY <1>1, OfDevice DEF TypeOK, PacketType
<1>3. p.link = LinkOf[adding.dev] BY <1>2 DEF OneLink
<1>4. p.from = adding.dev /\ p.what = "write" /\ ~ Timed(adding.dev) BY <1>3 DEF NumberInv
<1> QED BY <1>1, <1>4 DEF Awaits, Listed

\* Nothing else is awaited, and nothing less.
LEMMA StrayBySame ==
  ASSUME TypeOK, StrayInv, TypeOK', UNCHANGED << pif, adding >>, stray' >= stray,
         \A d \in Device, n \in Num : Awaited(d, n)' <=> Awaited(d, n)
  PROVE  StrayInv'
<1>1. \A r \in Pairs : r.dev \in Device /\ r.num \in Num BY DEF Pairs
<1>2. WaitingIn(packets)' = WaitingIn(packets) BY <1>1 DEF WaitingIn, Awaited
<1>3. EarlyIn(packets)' = EarlyIn(packets) BY DEF EarlyIn, Awaited, TypeOK
<1>4. stray \in Nat /\ stray' \in Nat /\ Listing(pif) \in Nat
  BY ListingType DEF TypeOK, Lists
<1> QED BY <1>2, <1>3, <1>4, WaitingFinite DEF StrayInv, Balanced

\* A packet is gone, and its number from the lists that had it.
LEMMA BalancedWithout ==
  ASSUME OneLink, TypeOK, PacketInv, NumberInv, StrayInv, NEW p \in packets,
         NEW lists \in Lists, NEW s \in Nat,
         \A d \in Device : \A m \in Num \ {p.num} : lists[d][m] = pif[d][m],
         Listing(lists) <= Listing(pif),
         [dev |-> p.from, num |-> p.num] \in WaitingIn(packets) =>
           Listing(lists) < Listing(pif) \/ s > stray,
         s >= stray,
         adding # Nobody /\ adding = [dev |-> p.from, num |-> p.num] => s > stray
  PROVE  Balanced(lists, packets \ {p}, s)
<1> DEFINE x == [dev |-> p.from, num |-> p.num]
           ps == packets \ {p}
           W == WaitingIn(packets)
           V == WaitingIn(ps)
<1>1. p.num \in Num /\ p.from \in Device \cup {Other} BY DEF TypeOK, PacketType
<1>2. \A q \in ps : q.num # p.num BY OneNumber
<1>3. V = W \ {x}
  <2>1. V \subseteq W BY DEF WaitingIn
  <2>2. \A r \in V : r.num # p.num BY <1>2 DEF WaitingIn, Awaits
  <2>3. x \notin V BY <2>2
  <2>4. ASSUME NEW r \in W, r # x PROVE r \in V
    <3>1. PICK q \in packets : Awaits(q, r.dev, r.num) /\ r # adding /\ r \in Pairs
      BY DEF WaitingIn
    <3>2. q # p
      <4>1. r = [dev |-> r.dev, num |-> r.num] BY <3>1 DEF Pairs
      <4> QED BY <2>4, <3>1, <4>1 DEF Awaits
    <3> QED BY <3>1, <3>2 DEF WaitingIn
  <2> QED BY <2>1, <2>3, <2>4
<1>4. \A r \in V : lists[r.dev][r.num] > 0
  <2> SUFFICES ASSUME NEW r \in V PROVE lists[r.dev][r.num] > 0 OBVIOUS
  <2>1. r \in W /\ r.num # p.num /\ r.dev \in Device /\ r.num \in Num
    BY <1>2, <1>3 DEF WaitingIn, Awaits, Pairs
  <2>2. lists[r.dev][r.num] = pif[r.dev][r.num] BY <2>1
  <2> QED BY <2>1, <2>2 DEF StrayInv, Balanced
<1>5. EarlyIn(ps) = EarlyIn(packets) \/ (EarlyIn(ps) = EarlyIn(packets) + 1 /\ adding # Nobody /\ adding = x)
  <2>1. CASE adding = Nobody BY <2>1 DEF EarlyIn
  <2>2. CASE adding # Nobody /\ adding # x
    <3>1. ~ Awaits(p, adding.dev, adding.num)
      <4>1. adding = [dev |-> adding.dev, num |-> adding.num] BY <2>2 DEF TypeOK
      <4> QED BY <2>2, <4>1 DEF Awaits
    <3> QED BY <3>1 DEF EarlyIn
  <2>3. CASE adding # Nobody /\ adding = x
    <3>1. Awaits(p, adding.dev, adding.num) BY <2>3, OfAdding
    <3>2. EarlyIn(packets) = 0 BY <3>1 DEF EarlyIn
    <3> QED BY <2>3, <3>2 DEF EarlyIn
  <2> QED BY <2>1, <2>2, <2>3
<1>6. x = adding => x \notin W BY DEF WaitingIn
<1>7. Cardinality(V) = IF x \in W THEN Cardinality(W) - 1 ELSE Cardinality(W)
  <2> HIDE DEF x, V, ps
  <2>1. IsFiniteSet(W) BY WaitingFinite
  <2> HIDE DEF W
  <2> QED BY <1>3, <2>1, FS_RemoveElement
<1>8. Listing(lists) \in Nat /\ Listing(pif) \in Nat /\ stray \in Nat
  BY ListingType DEF TypeOK, Lists
<1>9. /\ Cardinality(W) \in Nat /\ Cardinality(V) \in Nat
      /\ EarlyIn(ps) \in {0, 1} /\ EarlyIn(packets) \in {0, 1}
  BY WaitingFinite
<1>10. Listing(pif) + EarlyIn(packets) <= Cardinality(W) + stray BY DEF StrayInv, Balanced
<1>11. x \in W => Listing(lists) < Listing(pif) \/ s > stray OBVIOUS
<1>12. adding # Nobody /\ adding = x => s > stray OBVIOUS
<1> HIDE DEF x, ps, V, W
<1>13. Listing(lists) + EarlyIn(ps) <= Cardinality(V) + s
  BY <1>5, <1>6, <1>7, <1>8, <1>9, <1>10, <1>11, <1>12
<1> QED BY <1>4, <1>13 DEF Balanced, ps, V

\* A device sends and lists.
LEMMA BalancedFires ==
  ASSUME OneLink, TypeOK, NEW d \in Device, NEW ps \in SUBSET packets, NEW lists \in Lists,
         NEW s \in Nat, Balanced(lists, ps, s), Fires(d, ps, lists)
  PROVE  Balanced(pif', packets', s)
<1>1. PICK S, n : Sends(d, S, ps, n) /\ packets' = ps \cup S /\ pif' = With(lists, d, n)
  BY DEF Fires
<1>2. /\ n \in Num /\ n \in Fresh(ps, LinkOf[d])
      /\ \A e, m : (\E t \in S : Awaits(t, e, m)) <=> e = d /\ m = n
  BY <1>1 DEF Sends, Awaits
<1>3. \A p \in ps : p.num # n BY <1>2, FreshIs, OfDevice DEF OneLink, TypeOK, PacketType
<1> DEFINE x == [dev |-> d, num |-> n]
<1>4. x \in Pairs /\ x # adding
  <2>1. x \in Pairs BY <1>2 DEF Pairs
  <2>2. CASE adding = Nobody
    <3>1. x.dev = d /\ Nobody.dev = Other BY DEF Nobody
    <3>2. d # Other BY OfDevice
    <3> QED BY <2>1, <2>2, <3>1, <3>2
  <2>3. CASE adding # Nobody
    <3>1. ~ (LinkOf[adding.dev] = LinkOf[d] /\ adding.num = n) BY <1>2, <2>3, FreshIs
    <3>2. x.dev = d /\ x.num = n OBVIOUS
    <3> HIDE DEF x
    <3> QED BY <2>1, <3>1, <3>2
  <2> QED BY <2>1, <2>2, <2>3
<1>5. \A e, m : (\E p \in packets' : Awaits(p, e, m))
                  <=> (e = d /\ m = n) \/ \E p \in ps : Awaits(p, e, m)
  BY <1>1, <1>2
<1>6. WaitingIn(packets') = WaitingIn(ps) \cup {x}
  <2>1. \A r \in Pairs : r = x <=> r.dev = d /\ r.num = n BY DEF Pairs
  <2> HIDE DEF x
  <2> QED BY <1>4, <1>5, <2>1 DEF WaitingIn
<1>7. x \notin WaitingIn(ps) BY <1>3 DEF WaitingIn, Awaits
<1>8. EarlyIn(packets') = EarlyIn(ps)
  <2>1. adding # Nobody => ~ (adding.dev = d /\ adding.num = n)
    <3>1. adding # Nobody => adding = [dev |-> adding.dev, num |-> adding.num] BY DEF TypeOK
    <3> QED BY <1>4, <3>1
  <2> QED BY <1>5, <2>1 DEF EarlyIn
<1>9. /\ pif' \in Lists /\ pif'[d][n] = lists[d][n] + 1
      /\ \A m \in Num \ {n} : pif'[d][m] = lists[d][m]
      /\ \A e \in Device \ {d} : pif'[e] = lists[e]
  BY <1>1, <1>2, WithIs DEF Lists
<1>10. lists[d][n] \in Nat BY <1>2 DEF Lists
<1>11. Listing(pif') = Listing(lists) + 1
  <2>1. Listing(pif') = Listing(lists) - lists[d][n] + pif'[d][n] BY <1>2, <1>9, ListingPoint
  <2> QED BY <1>9, <1>10, <2>1, ListingType
<1>12. \A r \in WaitingIn(packets') : pif'[r.dev][r.num] > 0
  <2> SUFFICES ASSUME NEW r \in WaitingIn(packets') PROVE pif'[r.dev][r.num] > 0 OBVIOUS
  <2>1. CASE r = x BY <1>9, <1>10, <2>1
  <2>2. CASE r # x
    <3>1. r \in WaitingIn(ps) /\ r \in Pairs BY <1>6, <2>2 DEF WaitingIn
    <3>2. PICK e \in Device, m \in Num : r = [dev |-> e, num |-> m] /\ r.dev = e /\ r.num = m
      BY <3>1 DEF Pairs
    <3>3. ~ (e = d /\ m = n) BY <2>2, <3>2
    <3>4. pif'[e][m] = lists[e][m] BY <1>9, <3>3
    <3>5. lists[e][m] > 0 BY <3>1, <3>2 DEF Balanced
    <3> QED BY <3>2, <3>4, <3>5
  <2> QED BY <2>1, <2>2
<1>13. Cardinality(WaitingIn(packets')) = Cardinality(WaitingIn(ps)) + 1
  BY <1>6, <1>7, WaitingFinite, FS_AddElement
<1>14. Listing(lists) + EarlyIn(ps) <= Cardinality(WaitingIn(ps)) + s BY DEF Balanced
<1>15. Cardinality(WaitingIn(ps)) \in Nat /\ Listing(lists) \in Nat /\ EarlyIn(ps) \in {0, 1}
  BY WaitingFinite, ListingType
<1> HIDE DEF x
<1>16. Listing(pif') + EarlyIn(packets') <= Cardinality(WaitingIn(packets')) + s
  BY <1>8, <1>11, <1>13, <1>14, <1>15
<1> QED BY <1>12, <1>16 DEF Balanced

\* An answer that comes before its number is listed is counted.
LEMMA EarlyAnswer ==
  ASSUME TypeOK, NEW p \in packets, Answered(p), adding # Nobody,
         adding = [dev |-> p.from, num |-> p.num]
  PROVE  stray' > stray
BY DEF Answered, TypeOK

\* As long as no other number is about to be listed, it is all the same before and after.
LEMMA BalancedLater ==
  ASSUME adding' = adding, Balanced(pif', packets', stray')
  PROVE  StrayInv'
<1>1. WaitingIn(packets') = WaitingIn(packets)' BY DEF WaitingIn, Awaits, Listed, Timed
<1>2. EarlyIn(packets') = EarlyIn(packets)' BY DEF EarlyIn
<1> QED BY <1>1, <1>2 DEF StrayInv, Balanced

LEMMA StrayByHandle ==
  ASSUME OneLink, TypeOK, TypeOK', PacketInv, NumberInv, StrayInv,
         NEW d \in Device, NEW p \in packets, Handle(d, p)
  PROVE  StrayInv'
<1> DEFINE lists == Without(pif, d, p.num)
           ps == packets \ {p}
<1>1. /\ UNCHANGED adding /\ pif[d][p.num] > 0
      /\ (packets' = ps /\ pif' = lists) \/ Fires(d, ps, lists)
      /\ Answered(p)
  BY OfHandle DEF Handle, Ack, Nack, Data
<1>2. /\ p.num \in Num /\ pif \in Lists
      /\ stray \in Nat /\ stray' \in Nat /\ pif[d][p.num] \in Nat
  BY OfAnswer DEF TypeOK, Lists
<1>3. /\ lists \in Lists /\ lists[d][p.num] = pif[d][p.num] - 1
      /\ \A m \in Num \ {p.num} : lists[d][m] = pif[d][m]
      /\ \A e \in Device \ {d} : lists[e] = pif[e]
  BY <1>1, <1>2, WithoutIs DEF Lists
<1> HIDE DEF lists
<1>4. Listing(lists) < Listing(pif)
  <2>1. Listing(lists) = Listing(pif) - pif[d][p.num] + lists[d][p.num]
    BY <1>2, <1>3, ListingPoint
  <2>2. Listing(pif) \in Nat BY <1>2, ListingType
  <2> QED BY <1>2, <1>3, <2>1, <2>2
<1>5. Balanced(lists, ps, stray')
  <2>1. stray' >= stray BY <1>1, <1>2 DEF Answered
  <2>2. adding # Nobody /\ adding = [dev |-> p.from, num |-> p.num] => stray' > stray
    BY <1>1, <1>2, EarlyAnswer
  <2>3. \A e \in Device : \A m \in Num \ {p.num} : lists[e][m] = pif[e][m] BY <1>3
  <2>4. Listing(lists) <= Listing(pif) BY <1>2, <1>3, <1>4, ListingType
  <2> QED BY <1>2, <1>3, <1>4, <2>1, <2>2, <2>3, <2>4, BalancedWithout
<1>6. Balanced(pif', packets', stray')
  <2>1. CASE packets' = ps /\ pif' = lists BY <1>5, <2>1
  <2>2. CASE Fires(d, ps, lists)
    <3>1. ps \in SUBSET packets OBVIOUS
    <3> HIDE DEF ps
    <3> QED BY <1>2, <1>3, <1>5, <2>2, <3>1, BalancedFires
  <2> QED BY <1>1, <2>1, <2>2
<1> QED BY <1>1, <1>6, BalancedLater

\* A device sends and lists, and nothing else happens.
LEMMA StrayByFires ==
  ASSUME OneLink, TypeOK, StrayInv, NEW d \in Device, Fires(d, packets, pif),
         UNCHANGED << adding, stray >>
  PROVE  StrayInv'
<1>1. pif \in Lists /\ stray \in Nat /\ packets \in SUBSET packets BY DEF TypeOK, Lists
<1>2. Balanced(pif, packets, stray) BY DEF StrayInv
<1>3. Balanced(pif', packets', stray) BY <1>1, <1>2, BalancedFires
<1> QED BY <1>3, BalancedLater

LEMMA StrayByPut ==
  ASSUME OneLink, TypeOK, TypeOK', StrayInv, NEW d \in Device, PutOnRobot(d)
  PROVE  StrayInv'
<1>1. UNCHANGED << adding, stray >> /\ stray \in Nat BY DEF PutOnRobot, ghosts, TypeOK
<1>2. CASE FireRead(d, packets, pif) BY <1>1, <1>2, FireReadFires, StrayByFires
<1>3. CASE UNCHANGED << packets, pif >> BY <1>1, <1>3, StrayBySame, SameAwaited
<1> QED BY <1>2, <1>3 DEF PutOnRobot

LEMMA StrayByTurn ==
  ASSUME OneLink, TypeOK, TypeOK', StrayInv, NEW d \in Device, Turn(d)
  PROVE  StrayInv'
<1>1. adding = Nobody /\ stray' = stray /\ stray \in Nat BY DEF Turn, ghosts, TypeOK
<1>2. CASE TurnSilent(d) BY <1>1, <1>2, StrayBySame, SameAwaited DEF TurnSilent
<1>3. CASE TurnRead(d) /\ Timed(d)
  BY <1>1, <1>3, FireReadFires, StrayByFires DEF TurnRead
<1>4. CASE TurnRead(d) /\ ~ Timed(d)
  <2>1. PICK r \in Reads(d, packets) :
          packets' = packets \cup r.sends /\ adding' = [dev |-> d, num |-> r.lists] /\ pif' = pif
    BY <1>4 DEF TurnRead
  <2>2. PICK n \in Num : n = r.lists /\ n \in Fresh(packets, LinkOf[d]) BY <2>1, ReadSends, FreshIs
  <2> DEFINE w == WriteRead(d, n)
             x == [dev |-> d, num |-> n]
  <2>3. packets' = packets \cup {w} BY <1>4, <2>1, <2>2, ReadSends
  <2>4. w.from = d /\ w.num = n /\ Listed(w) BY <1>4, WriteReadIs
  <2>5. \A p \in packets : p.num # n BY <2>2, FreshIs, OfDevice DEF OneLink, TypeOK, PacketType
  <2>6. adding' = x BY <2>1, <2>2
  <2> HIDE DEF w
  <2>7. \A e, m : (\E p \in packets' : Awaits(p, e, m)) <=> (e = d /\ m = n) \/ \E p \in packets : Awaits(p, e, m)
    BY <2>3, <2>4 DEF Awaits
  <2>8. WaitingIn(packets)' = WaitingIn(packets)
    <3>1. \A r2 \in Pairs : r2 = x <=> r2.dev = d /\ r2.num = n BY DEF Pairs
    <3>2. \A r2 \in Pairs : r2 # Nobody
      <4> SUFFICES ASSUME NEW r2 \in Pairs PROVE r2.dev # Nobody.dev OBVIOUS
      <4> QED BY OfDevice DEF Pairs, Nobody
    <3>3. x \notin WaitingIn(packets) BY <2>5 DEF WaitingIn, Awaits
    <3>4. Listed(w)' = Listed(w) BY DEF Listed, Timed
    <3> DEFINE Any(r2) == \E p \in packets : Awaits(p, r2.dev, r2.num)
    <3>5. \A r2 \in Pairs : (\E p \in packets' : Awaits(p, r2.dev, r2.num)) <=> r2 = x \/ Any(r2)
      BY <2>7, <3>1
    <3>6. WaitingIn(packets)' = {r2 \in Pairs : r2 # adding' /\ \E p \in packets' : Awaits(p, r2.dev, r2.num)}
      BY DEF WaitingIn
    <3>7. WaitingIn(packets) = {r2 \in Pairs : r2 # adding /\ Any(r2)} BY DEF WaitingIn
    <3>8. \A r2 \in Pairs : Any(r2) => r2 # x BY <1>1, <3>2, <3>3, <3>7
    <3> HIDE DEF Any, x
    <3> QED BY <1>1, <2>6, <3>2, <3>5, <3>6, <3>7, <3>8
  <2>9. EarlyIn(packets)' = 0
    <3>1. \E p \in packets' : Awaits(p, d, n) BY <2>7
    <3>2. adding'.dev = d /\ adding'.num = n BY <2>6
    <3> QED BY <3>1, <3>2 DEF EarlyIn
  <2>10. Listing(pif) \in Nat /\ EarlyIn(packets) = 0 /\ stray \in Nat
    BY <1>1, ListingType DEF EarlyIn, TypeOK, Lists
  <2> QED BY <1>1, <2>1, <2>8, <2>9, <2>10 DEF StrayInv, Balanced
<1> QED BY <1>2, <1>3, <1>4 DEF Turn

LEMMA StrayByAdd ==
  ASSUME OneLink, TypeOK, TypeOK', PacketInv, NumberInv, StrayInv, AddPif
  PROVE  StrayInv'
<1> DEFINE d == adding.dev
           n == adding.num
           Any(r) == \E p \in packets : Awaits(p, r.dev, r.num)
<1>1. /\ pif' = With(pif, d, n) /\ adding' = Nobody /\ adding # Nobody
      /\ UNCHANGED << packets, stray >>
  BY DEF AddPif, ghosts
<1>2. /\ d \in Device /\ n \in Num /\ adding \in Pairs /\ adding = [dev |-> d, num |-> n]
      /\ pif \in Lists /\ stray \in Nat
  BY <1>1 DEF TypeOK, Pairs, Lists
<1>3. /\ pif' \in Lists /\ pif'[d][n] = pif[d][n] + 1
      /\ \A m \in Num \ {n} : pif'[d][m] = pif[d][m]
      /\ \A e \in Device \ {d} : pif'[e] = pif[e]
  BY <1>1, <1>2, WithIs DEF Lists
<1>4. \A r \in Pairs : r # Nobody
  <2> SUFFICES ASSUME NEW r \in Pairs PROVE r.dev # Nobody.dev OBVIOUS
  <2> QED BY OfDevice DEF Pairs, Nobody
<1>5. WaitingIn(packets)' = {r \in Pairs : Any(r)}
  <2>1. WaitingIn(packets)' = {r \in Pairs : r # Nobody /\ Any(r)} BY <1>1 DEF WaitingIn
  <2> HIDE DEF Any
  <2> QED BY <1>4, <2>1
<1>6. WaitingIn(packets) = {r \in Pairs : r # adding /\ Any(r)} BY DEF WaitingIn
<1>7. EarlyIn(packets) = IF Any(adding) THEN 0 ELSE 1 BY <1>1 DEF EarlyIn
<1>8. EarlyIn(packets)' = 0 BY <1>1 DEF EarlyIn
<1> HIDE DEF Any
<1>9. Cardinality(WaitingIn(packets)') + EarlyIn(packets) = Cardinality(WaitingIn(packets)) + 1
  <2>1. CASE Any(adding)
    <3>1. WaitingIn(packets)' = WaitingIn(packets) \cup {adding} /\ adding \notin WaitingIn(packets)
      BY <1>2, <1>5, <1>6, <2>1
    <3>2. Cardinality(WaitingIn(packets)') = Cardinality(WaitingIn(packets)) + 1
      BY <3>1, WaitingFinite, FS_AddElement
    <3> QED BY <1>7, <2>1, <3>2, WaitingFinite
  <2>2. CASE ~ Any(adding)
    <3>1. WaitingIn(packets)' = WaitingIn(packets) BY <1>5, <1>6, <2>2
    <3> QED BY <1>7, <2>2, <3>1, WaitingFinite
  <2> QED BY <2>1, <2>2
<1>10. Listing(pif') = Listing(pif) + 1
  <2>1. Listing(pif') = Listing(pif) - pif[d][n] + pif'[d][n]
    <3> HIDE DEF d, n
    <3> QED BY <1>2, <1>3, ListingPoint
  <2>2. pif[d][n] \in Nat BY <1>2 DEF Lists
  <2>3. Listing(pif) \in Nat BY <1>2, ListingType
  <2> QED BY <1>3, <2>1, <2>2, <2>3
<1>11. \A r \in WaitingIn(packets)' : pif'[r.dev][r.num] > 0
  <2> SUFFICES ASSUME NEW r \in WaitingIn(packets)' PROVE pif'[r.dev][r.num] > 0 OBVIOUS
  <2>1. r \in Pairs /\ Any(r) BY <1>5
  <2>2. PICK e \in Device, m \in Num : r = [dev |-> e, num |-> m] /\ r.dev = e /\ r.num = m
    BY <2>1 DEF Pairs
  <2>3. pif[e][m] \in Nat BY <1>2 DEF Lists
  <2>4. CASE e = d /\ m = n BY <1>3, <2>2, <2>3, <2>4
  <2>5. CASE ~ (e = d /\ m = n)
    <3>1. r # adding BY <2>2, <2>5
    <3>2. pif[e][m] > 0 BY <1>6, <2>1, <2>2, <3>1 DEF StrayInv, Balanced
    <3>3. pif'[e][m] = pif[e][m] BY <1>3, <2>5
    <3> QED BY <2>2, <3>2, <3>3
  <2> QED BY <2>4, <2>5
<1>12. Listing(pif) + EarlyIn(packets) <= Cardinality(WaitingIn(packets)) + stray
  BY DEF StrayInv, Balanced
<1>13. /\ Listing(pif) \in Nat /\ Cardinality(WaitingIn(packets)) \in Nat
       /\ Cardinality(WaitingIn(packets)') \in Nat /\ EarlyIn(packets) \in {0, 1}
  <2>1. WaitingIn(packets)' \in SUBSET Pairs BY <1>5
  <2> QED BY <1>2, <2>1, ListingType, WaitingFinite, Finite, FS_Subset, FS_CardinalityType
<1>14. Listing(pif') + EarlyIn(packets)' <= Cardinality(WaitingIn(packets)') + stray'
  BY <1>1, <1>2, <1>8, <1>9, <1>10, <1>12, <1>13
<1> QED BY <1>11, <1>14 DEF StrayInv, Balanced

LEMMA StrayByPassOn ==
  ASSUME OneLink, TypeOK, TypeOK', PacketInv, NumberInv, StrayInv, NEW p \in packets, PassOn(p)
  PROVE  StrayInv'
<1>1. /\ Answered(p) /\ packets' = packets \ {p} /\ adding' = adding
      /\ Untaken(p.num) \/ p.what = "bulk"
      /\ pif' = [d \in Device |-> Without(pif, d, p.num)[d]]
  BY DEF PassOn
<1>2. p.num \in Num /\ pif \in Lists /\ pif' \in Lists /\ stray \in Nat /\ stray' \in Nat
  BY DEF TypeOK, PacketType, Lists
<1>3. ASSUME NEW d \in Device
      PROVE  /\ pif'[d][p.num] <= pif[d][p.num]
             /\ \A m \in Num \ {p.num} : pif'[d][m] = pif[d][m]
  <2>1. PICK n \in Num : n = p.num BY <1>2
  <2>2. pif[d][n] \in Nat /\ pif \in [Device -> [Num -> Nat]] BY <1>2 DEF Lists
  <2>3. PICK new : new = Without(pif, d, n) OBVIOUS
  <2>4. /\ pif[d][n] > 0 => new[d][n] = pif[d][n] - 1
        /\ pif[d][n] = 0 => new[d][n] = 0
        /\ \A m \in Num \ {n} : new[d][m] = pif[d][m]
    BY <2>2, <2>3, WithoutIs
  <2>5. pif'[d] = new[d] BY <1>1, <2>1, <2>3
  <2> QED BY <2>1, <2>2, <2>4, <2>5
<1>4. Listing(pif') <= Listing(pif)
  <2>1. ASSUME NEW d \in Device, NEW m \in Num PROVE pif'[d][m] <= pif[d][m]
    <3>1. pif[d][m] \in Nat BY <1>2 DEF Lists
    <3> QED BY <1>3, <3>1
  <2> QED BY <1>2, <2>1, ListingLess
<1>5. [dev |-> p.from, num |-> p.num] \notin WaitingIn(packets)
  <2> SUFFICES ASSUME [dev |-> p.from, num |-> p.num] \in WaitingIn(packets) PROVE FALSE OBVIOUS
  <2>1. p.from \in Device /\ pif[p.from][p.num] > 0 BY DEF WaitingIn, Pairs, StrayInv, Balanced
  <2>2. p.from # Other BY <2>1, OfDevice
  <2>3. p.what # "bulk" BY <2>2 DEF PacketInv
  <2> QED BY <1>1, <2>1, <2>3 DEF Untaken, IsPif
<1>6. stray' >= stray BY <1>1, <1>2 DEF Answered
<1>7. adding # Nobody /\ adding = [dev |-> p.from, num |-> p.num] => stray' > stray
  BY <1>1, EarlyAnswer
<1>8. Balanced(pif', packets \ {p}, stray') BY <1>2, <1>3, <1>4, <1>5, <1>6, <1>7, BalancedWithout
<1> QED BY <1>1, <1>8, BalancedLater

LEMMA StrayByLose ==
  ASSUME OneLink, TypeOK, TypeOK', PacketInv, NumberInv, StrayInv, NEW p \in packets, Lose(p)
  PROVE  StrayInv'
<1>1. /\ packets' = packets \ {p} /\ UNCHANGED << pif, adding >>
      /\ stray' = IF Listed(p) THEN stray + 1 ELSE stray
      /\ stray \in Nat /\ stray' \in Nat /\ pif \in Lists
  BY DEF Lose, TypeOK, Lists
<1>2. CASE ~ Listed(p) BY <1>1, <1>2, SameAwaited, StrayBySame
<1>3. CASE Listed(p)
  <2>1. stray' > stray /\ Listing(pif) \in Nat BY <1>1, <1>3, ListingType
  <2>2. PICK s \in Nat : s = stray' BY <1>1
  <2>3. PICK lists \in Lists : lists = pif BY <1>1
  <2>4. \A d \in Device : \A m \in Num \ {p.num} : lists[d][m] = pif[d][m] BY <2>3
  <2>5. Listing(lists) <= Listing(pif) /\ s > stray /\ s >= stray BY <1>1, <2>1, <2>2, <2>3
  <2>6. Balanced(lists, packets \ {p}, s) BY <2>4, <2>5, BalancedWithout
  <2> QED BY <1>1, <2>2, <2>3, <2>6, BalancedLater
<1> QED BY <1>2, <1>3

LEMMA StrayStep ==
  ASSUME OneLink, SafeInv, TypeOK', StrayInv, [Next]_vars
  PROVE  StrayInv'
<1> USE DEF SafeInv
<1>1. ASSUME UNCHANGED << packets, pif, adding, stray >> PROVE StrayInv'
  <2>1. stray' >= stray BY <1>1 DEF TypeOK
  <2> QED BY <1>1, <2>1, SameAwaited, StrayBySame
<1>2. ASSUME NEW l \in Link, SendOther(l) PROVE StrayInv'
  <2>1. PICK n \in Fresh(packets, l), what \in {"command", "bulk"} :
          packets' = packets \cup {Packet(l, n, Other, what, 0)}
    BY <1>2 DEF SendOther
  <2>2. ~ Listed(Packet(l, n, Other, what, 0)) BY <2>1 DEF Listed, Packet
  <2>3. UNCHANGED << pif, adding >> /\ stray' >= stray BY <1>2 DEF SendOther, ghosts, TypeOK
  <2> QED BY <2>1, <2>2, <2>3, SameAwaited, StrayBySame
<1>3. ASSUME Tick \/ \E p \in packets : SendDeferred(p) PROVE StrayInv'
  <2>1. UNCHANGED << pif, adding >> /\ stray' >= stray
    BY <1>3 DEF Tick, SendDeferred, ghosts, TypeOK
  <2> QED BY <1>3, <2>1, AwaitedByClock, StrayBySame
<1>4. \A d \in Device : Hush(d) => UNCHANGED << packets, pif, adding, stray >> BY DEF Hush, ghosts
<1>5. UNCHANGED vars => UNCHANGED << packets, pif, adding, stray >> BY DEF vars, ghosts
<1> QED
  BY <1>1, <1>2, <1>3, <1>4, <1>5, StrayByPut, StrayByTurn, StrayByAdd, StrayByHandle,
     StrayByPassOn, StrayByLose
  DEF Next

\* The packets whose numbers are listed are as many as the numbers.
LEMMA WaitingCount ==
  ASSUME OneLink, TypeOK, PacketInv, NumberInv
  PROVE  Cardinality({p \in packets : Listed(p) /\ p.from # Other
                                        /\ [dev |-> p.from, num |-> p.num] # adding})
           = Cardinality(WaitingIn(packets))
<1> DEFINE A == {p \in packets : Listed(p) /\ p.from # Other
                                   /\ [dev |-> p.from, num |-> p.num] # adding}
           W == WaitingIn(packets)
           f == [p \in A |-> [dev |-> p.from, num |-> p.num]]
<1>1. \A p \in A : p.from \in Device /\ p.num \in Num /\ Awaits(p, p.from, p.num)
  BY DEF TypeOK, PacketType, Awaits
<1>2. f \in [A -> W]
  <2>1. \A p \in A : [dev |-> p.from, num |-> p.num] \in W BY <1>1 DEF WaitingIn, Pairs
  <2> QED BY <2>1
<1>3. \A p, q \in A : f[p] = f[q] => p = q
  <2> SUFFICES ASSUME NEW p \in A, NEW q \in A, f[p] = f[q] PROVE p = q OBVIOUS
  <2>1. p.num = q.num BY DEF f
  <2> QED BY <2>1, OneNumber
<1>4. ASSUME NEW r \in W PROVE \E p \in A : f[p] = r
  <2>1. r \in Pairs /\ r # adding BY DEF WaitingIn
  <2>2. PICK p \in packets : Awaits(p, r.dev, r.num) BY DEF WaitingIn
  <2>3. r = [dev |-> p.from, num |-> p.num] /\ r.dev \in Device BY <2>1, <2>2 DEF Awaits, Pairs
  <2>4. p \in A BY <2>1, <2>2, <2>3, OfDevice DEF Awaits
  <2> QED BY <2>3, <2>4
<1> HIDE DEF f, A, W
<1>5. f \in Injection(A, W) /\ f \in Surjection(A, W)
  BY <1>2, <1>3, <1>4 DEF Injection, IsInjective, Surjection
<1>6. IsFiniteSet(W) BY WaitingFinite DEF W
<1>7. Cardinality(A) = Cardinality(W) BY <1>5, <1>6, FS_Injection
<1> QED BY <1>7 DEF A, W

\* Whatever is lost, and in whichever order answers and lists come: the numbers in the lists
\* are those of packets under way, but for as many as there were answers that were lost or
\* came before their number was listed (i2c_device.rs:60-70, 105; octoquad_i2c.rs:50).
THEOREM StraysBoundedAlways == ASSUME OneLink PROVE Spec => []StraysBounded
<1> DEFINE Inv == SafeInv /\ StrayInv
<1>1. Init => Inv
  <2> SUFFICES ASSUME Init PROVE StrayInv BY SafeInit
  <2>1. WaitingIn(packets) = {} /\ EarlyIn(packets) = 0 BY DEF Init, WaitingIn, EarlyIn
  <2>2. Listing(pif) = 0 BY ListingNone DEF Init
  <2>3. Cardinality(WaitingIn(packets)) = 0 BY <2>1, FS_EmptySet
  <2>4. stray = 0 BY DEF Init
  <2> QED BY <2>1, <2>2, <2>3, <2>4 DEF StrayInv, Balanced
<1>2. Inv /\ [Next]_vars => Inv'
  <2> SUFFICES ASSUME SafeInv, StrayInv, [Next]_vars PROVE Inv' OBVIOUS
  <2>1. SafeInv' BY SafeStep
  <2> QED BY <2>1, StrayStep DEF SafeInv
<1>3. Inv => StraysBounded
  <2> SUFFICES ASSUME SafeInv, StrayInv PROVE StraysBounded OBVIOUS
  <2>1. WaitingIn(packets) \in SUBSET Pairs /\ pif \in Lists /\ stray \in Nat
    BY DEF WaitingIn, SafeInv, TypeOK, Lists
  <2>2. Cardinality(WaitingIn(packets)) <= Listing(pif)
    BY <2>1, ListingAtLeast DEF StrayInv, Balanced
  <2>3. Listing(pif) <= Cardinality(WaitingIn(packets)) + stray
    <3>1. Listing(pif) + EarlyIn(packets) <= Cardinality(WaitingIn(packets)) + stray
      BY DEF StrayInv, Balanced
    <3> QED BY <2>1, <3>1, WaitingFinite, ListingType
  <2> QED BY <2>2, <2>3, WaitingCount DEF SafeInv, StraysBounded, Listing
<1> HIDE DEF Inv
<1> QED BY <1>1, <1>2, <1>3, PTL DEF Spec

=============================================================================
