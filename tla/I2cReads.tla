------------------------------ MODULE I2cReads ------------------------------
(***************************************************************************)
(* Reading I2C devices (src/src/serialization/i2c_comms/ and the handlers  *)
(* in src/src/control/java_closure_system.rs).  A read is a write-read     *)
(* command, which asks the hub to talk to the device, and then status      *)
(* queries until the hub has the data.  A device knows its answers by      *)
(* their message numbers, which it keeps in a list of packets in flight.   *)
(*                                                                         *)
(* The first read of a device is sent as it is put on the robot, and each  *)
(* datum sends the next; or, if the device is scheduled, the timer thread  *)
(* of the repeating scheduler sends each read, with a clone of the device  *)
(* that shares the list.  An OctoQuad's list has the number of the         *)
(* write-read command, and its answer sends the query.  A Pinpoint's query *)
(* is sent by the best effort scheduler some time after the command, and   *)
(* only its number is in the list; unless the delay is no number, in which *)
(* case a Pinpoint does as an OctoQuad does.                               *)
(*                                                                         *)
(* Time is counted in ticks.  The reactor handles an answer in one step,   *)
(* as nobody else looks at what it changes but through a single lock or    *)
(* channel.  Bulk data of hub 0 are left out, as they are consumed before  *)
(* any device is asked (robot.rs:221).                                     *)
(***************************************************************************)
EXTENDS Integers, Sequences, FiniteSets, Functions

CONSTANTS
  Device,        \* the I2C devices
  Asked,         \* Robot::i2c_devices: the order in which they are asked
  Pinpoint,      \* those that are Pinpoints
  Link,          \* hubs with a line, and so message numbers, of their own
  LinkOf,        \* the one that leads to each device
  Num,           \* message numbers
  Delay,         \* property pinpoint2ndDelay; NoDelay if it is no number
  Rate,          \* property ...UpdateFreq
  PauseTime,     \* 3 ms: how long a NACK silences the scheduler
  AnswerTime,    \* environment: the longest a hub takes to answer
  MaxStray       \* environment: bound on the answers lost or before their number is listed

NoDelay == -1
Other == "other"

\* The query follows the command by time, not by its answer.
Timed(d) == d \in Pinpoint /\ Delay # NoDelay

ASSUME DeviceAssumption ==
  /\ Other \notin Device
  /\ Asked \in Seq(Device) /\ Range(Asked) = Device
  /\ Pinpoint \subseteq Device
  /\ LinkOf \in [Device -> Link]
  /\ IsFiniteSet(Num)
  /\ Delay \in Nat \cup {NoDelay}
  /\ MaxStray \in Nat

\* A read's first query is answered before the next read is due, and a query that is sent
\* again after a NACK before the pause is over.
ASSUME TimeAssumption ==
  /\ AnswerTime \in Nat \ {0} /\ PauseTime \in Nat /\ Rate \in Nat
  /\ AnswerTime < PauseTime
  /\ \A d \in Device : AnswerTime + (IF Timed(d) THEN Delay ELSE AnswerTime) < Rate

VARIABLES
  onRobot,     \* devices that have been put on the robot
  scheduled,   \* those of them that the timer thread reads
  packets,     \* packets sent and not answered, or waiting to be sent
  pif,         \* packets_in_flight: how often each device's list has each number
  adding,      \* the timer thread has sent a packet and is about to list its number
  since,       \* ticks since each scheduled device's last turn, up to Rate
  told,        \* the newest message to each order to pause: ticks left
  silent,      \* Order::not_sending_until: ticks left, -1 if it is None or past
  quiet,       \* devices whose closure has asked for no more data
  stray,       \* numbers left in a list: their answers were lost, or came before they were listed
  strange      \* a device has decoded data that it did not ask for

timing == << since, told, silent >>
ghosts == << stray, strange >>
vars == << onRobot, scheduled, packets, pif, adding, timing, quiet, ghosts >>

Nobody == [dev |-> Other, num |-> Other]

Init ==
  /\ onRobot = {} /\ scheduled = {} /\ packets = {} /\ adding = Nobody /\ quiet = {}
  /\ pif = [d \in Device |-> [n \in Num |-> 0]]
  /\ since = [d \in Device |-> Rate]
  /\ told = [d \in Device |-> 0]
  /\ silent = [d \in Device |-> -1]
  /\ stray = 0 /\ strange = FALSE

-----------------------------------------------------------------------------
(* Packets and their numbers.                                              *)

Busy(ps, l) ==
  {p.num : p \in {q \in ps : q.link = l}}
    \cup (IF adding # Nobody /\ LinkOf[adding.dev] = l THEN {adding.num} ELSE {})

\* register_packet gives a number out again only long after its last use.
Fresh(ps, l) == Num \ Busy(ps, l)

Packet(l, n, from, what, wait) ==
  [link |-> l, num |-> n, from |-> from, what |-> what, sent |-> wait = 0, clock |-> wait]

WriteRead(d, n) == Packet(LinkOf[d], n, d, "write", 0)
Query(d, n, wait) == Packet(LinkOf[d], n, d, "query", wait)

\* The packets whose numbers are listed.
Listed(p) == p.what = "query" \/ (p.what = "write" /\ ~ Timed(p.from))

With(lists, d, n) == [lists EXCEPT ![d][n] = @ + 1]
Without(lists, d, n) == [lists EXCEPT ![d][n] = IF @ > 0 THEN @ - 1 ELSE 0]

\* fire_bulk_read_request: what it may send, and the number it lists.
Reads(d, ps) ==
  LET free == Fresh(ps, LinkOf[d]) IN
    IF Timed(d)
      THEN UNION {{[sends |-> {WriteRead(d, m), Query(d, n, Delay)}, lists |-> n] :
                     n \in free \ {m}} : m \in free}
      ELSE {[sends |-> {WriteRead(d, n)}, lists |-> n] : n \in free}

\* ... in the reactor's thread, or before the reactor runs.
FireRead(d, ps, lists) ==
  \E r \in Reads(d, ps) :
    /\ packets' = ps \cup r.sends
    /\ pif' = With(lists, d, r.lists)

\* put_on_robot: with a property ...UpdateFreq the device becomes an order of the timer's.
PutOnRobot(d) ==
  /\ d \notin onRobot
  /\ onRobot' = onRobot \cup {d}
  /\ \/ scheduled' = scheduled \cup {d} /\ UNCHANGED << packets, pif >>
     \/ FireRead(d, packets, pif) /\ UNCHANGED scheduled
  /\ UNCHANGED << adding, timing, quiet, ghosts >>

Running == onRobot = Device

-----------------------------------------------------------------------------
(* The timer thread.                                                       *)

\* Mutant: the messages of the channel are never read.
HeardNot(d) == silent[d]

\* Order::send reads all messages of the channel that are not past; the last one counts.
Heard(d) == IF told[d] > 0 THEN told[d] ELSE silent[d]

TurnSilent(d) ==
  /\ Heard(d) >= 0
  /\ silent' = [silent EXCEPT ![d] = Heard(d)]
  /\ UNCHANGED << packets, pif, adding >>

\* The number of an OctoQuad's packet is listed in a later step.
TurnRead(d) ==
  /\ Heard(d) < 0
  /\ silent' = [silent EXCEPT ![d] = -1]
  /\ IF Timed(d)
       THEN FireRead(d, packets, pif) /\ UNCHANGED adding
       ELSE \E r \in Reads(d, packets) :
              /\ packets' = packets \cup r.sends
              /\ adding' = [dev |-> d, num |-> r.lists]
              /\ UNCHANGED pif

\* Order::send, a rate after the last turn or later.
Turn(d) ==
  /\ Running /\ d \in scheduled /\ adding = Nobody
  /\ since[d] = Rate
  /\ since' = [since EXCEPT ![d] = 0]
  /\ told' = [told EXCEPT ![d] = 0]
  /\ TurnSilent(d) \/ TurnRead(d)
  /\ UNCHANGED << onRobot, scheduled, quiet, ghosts >>

AddPif ==
  /\ adding # Nobody
  /\ pif' = With(pif, adding.dev, adding.num)
  /\ adding' = Nobody
  /\ UNCHANGED << onRobot, scheduled, packets, timing, quiet, ghosts >>

-----------------------------------------------------------------------------
(* The reactor, handling an answer.                                        *)

\* Mutant: any answer will do if one is awaited.
IsPifAny(d, n) == \E m \in Num : pif[d][m] > 0

\* is_pif: it is the number that counts, whatever line the answer came by.
IsPif(d, n) == pif[d][n] > 0

\* The first device, in the order they are asked, whose list has the number.
TakenBy(d, n) ==
  \E i \in DOMAIN Asked :
    /\ Asked[i] = d /\ IsPif(d, n)
    /\ \A j \in 1 .. i - 1 : ~ IsPif(Asked[j], n)

Untaken(n) == \A d \in Device : ~ IsPif(d, n)

\* An answer comes in; it may be one whose number is not listed yet.
Answered(p) ==
  LET early == adding # Nobody /\ p.from = adding.dev /\ p.num = adding.num IN
    /\ Running /\ p \in packets /\ p.sent
    /\ early => stray < MaxStray
    /\ stray' = IF early THEN stray + 1 ELSE stray

\* Mutant: the number is taken from every list, whether it is there or not.
PassOnBlind(p) ==
  /\ Answered(p)
  /\ Untaken(p.num) \/ p.what = "bulk"
  /\ packets' = packets \ {p}
  /\ pif' = [d \in Device |-> [pif[d] EXCEPT ![p.num] = @ - 1]]
  /\ UNCHANGED << onRobot, scheduled, adding, timing, quiet, strange >>

\* Nobody's, or bulk data of another hub: a device that has the number drops it from its
\* list and passes the packet on.
PassOn(p) ==
  /\ Answered(p)
  /\ Untaken(p.num) \/ p.what = "bulk"
  /\ packets' = packets \ {p}
  /\ pif' = [d \in Device |-> Without(pif, d, p.num)[d]]
  /\ UNCHANGED << onRobot, scheduled, adding, timing, quiet, strange >>

\* An ACK, or a NACK: send another query.
Acks(p) == p.what \in {"write", "command"}
Nacks(p) == p.what \in {"write", "command", "query"}

Requery(d, p) ==
  LET ps    == packets \ {p}
      lists == Without(pif, d, p.num)
  IN \E n \in Fresh(ps, LinkOf[d]) :
       /\ packets' = ps \cup {Query(d, n, 0)}
       /\ pif' = With(lists, d, n)

Ack(d, p) ==
  /\ Answered(p) /\ Acks(p) /\ TakenBy(d, p.num)
  /\ Requery(d, p)
  /\ UNCHANGED << onRobot, scheduled, adding, timing, quiet, strange >>

\* Mutant: a NACK ends the read.
NackGivesUp(d, p) ==
  /\ Answered(p) /\ Nacks(p) /\ TakenBy(d, p.num)
  /\ packets' = packets \ {p}
  /\ pif' = Without(pif, d, p.num)
  /\ told' = [told EXCEPT ![d] = IF d \in scheduled THEN PauseTime ELSE @]
  /\ UNCHANGED << onRobot, scheduled, adding, since, silent, quiet, strange >>

\* A NACK also tells the order to pause, if there is one.
Nack(d, p) ==
  /\ Answered(p) /\ Nacks(p) /\ TakenBy(d, p.num)
  /\ Requery(d, p)
  /\ told' = [told EXCEPT ![d] = IF d \in scheduled THEN PauseTime ELSE @]
  /\ UNCHANGED << onRobot, scheduled, adding, since, silent, quiet, strange >>

\* Mutant: the number of data stays in the list.
DataKept(d, p) ==
  /\ Answered(p) /\ p.what = "query" /\ TakenBy(d, p.num)
  /\ IF d \in scheduled \cup quiet
       THEN packets' = packets \ {p} /\ UNCHANGED pif
       ELSE FireRead(d, packets \ {p}, pif)
  /\ strange' = (strange \/ p.from # d)
  /\ UNCHANGED << onRobot, scheduled, adding, timing, quiet >>

\* Data: the handler sends the next read, unless the device is scheduled or its closure
\* wants no more, and passes the data on.
Data(d, p) ==
  /\ Answered(p) /\ p.what = "query" /\ TakenBy(d, p.num)
  /\ IF d \in scheduled \cup quiet
       THEN /\ packets' = packets \ {p}
            /\ pif' = Without(pif, d, p.num)
       ELSE FireRead(d, packets \ {p}, Without(pif, d, p.num))
  /\ strange' = (strange \/ p.from # d)
  /\ UNCHANGED << onRobot, scheduled, adding, timing, quiet >>

\* Answers that a device takes.
Handle(d, p) == Ack(d, p) \/ Nack(d, p) \/ Data(d, p)

-----------------------------------------------------------------------------
(* The rest: other packets on the line, closures, losses, time.            *)

\* The best effort scheduler sends a query that is due.
SendDeferred(p) ==
  /\ p \in packets /\ ~ p.sent /\ p.clock = 0
  /\ packets' = (packets \ {p}) \cup {[p EXCEPT !.sent = TRUE]}
  /\ UNCHANGED << onRobot, scheduled, pif, adding, timing, quiet, ghosts >>

\* A command or a bulk read of somebody else.
SendOther(l) ==
  /\ Running
  /\ \A p \in packets : p.from = Other => p.link # l
  /\ \E n \in Fresh(packets, l), what \in {"command", "bulk"} :
       packets' = packets \cup {Packet(l, n, Other, what, 0)}
  /\ UNCHANGED << onRobot, scheduled, pif, adding, timing, quiet, ghosts >>

\* The closure ends: its handler finds out with the next data.
Hush(d) ==
  /\ d \in Device \ (scheduled \cup quiet)
  /\ quiet' = quiet \cup {d}
  /\ UNCHANGED << onRobot, scheduled, packets, pif, adding, timing, ghosts >>

\* Only a packet whose number is listed is missed.
Lose(p) ==
  /\ p \in packets /\ p.sent
  /\ Listed(p) => stray < MaxStray
  /\ packets' = packets \ {p}
  /\ stray' = IF Listed(p) THEN stray + 1 ELSE stray
  /\ UNCHANGED << onRobot, scheduled, pif, adding, timing, quiet, strange >>

Down(x, least) == IF x > least THEN x - 1 ELSE least

\* Hubs answer in time, and timers send in time.
Tick ==
  /\ Running
  /\ \A p \in packets : IF p.sent THEN p.clock < AnswerTime ELSE p.clock > 0
  /\ packets' = {[p EXCEPT !.clock = IF p.sent THEN @ + 1 ELSE @ - 1] : p \in packets}
  /\ since' = [d \in Device |-> IF since[d] < Rate THEN since[d] + 1 ELSE Rate]
  /\ told' = [d \in Device |-> Down(told[d], 0)]
  /\ silent' = [d \in Device |-> Down(silent[d], -1)]
  /\ UNCHANGED << onRobot, scheduled, pif, adding, quiet, ghosts >>

Next ==
  \/ \E d \in Device : PutOnRobot(d) \/ Turn(d) \/ Hush(d)
  \/ \E d \in Device, p \in packets : Handle(d, p)
  \/ \E p \in packets : PassOn(p) \/ SendDeferred(p) \/ Lose(p)
  \/ \E l \in Link : SendOther(l)
  \/ AddPif \/ Tick

Spec == Init /\ [][Next]_vars

-----------------------------------------------------------------------------
(* Properties.                                                             *)

PacketType ==
  [link : Link, num : Num, from : Device \cup {Other},
   what : {"write", "query", "command", "bulk"}, sent : BOOLEAN, clock : Nat]

TypeOK ==
  /\ onRobot \subseteq Device /\ scheduled \subseteq onRobot /\ quiet \subseteq Device
  /\ packets \subseteq PacketType
  /\ pif \in [Device -> [Num -> Nat]]
  /\ adding \in {Nobody} \cup [dev : Device, num : Num]
  /\ since \in [Device -> 0 .. Rate]
  /\ told \in [Device -> 0 .. PauseTime] /\ silent \in [Device -> -1 .. PauseTime]
  /\ stray \in Nat /\ strange \in BOOLEAN

\* No answer a device waits for was lost, and none came before its number was listed.
Clean == stray = 0

\* The numbers in all lists are those of packets under way, but for at most one for each
\* answer that was lost or came too soon (i2c_device.rs:60-70, 105; octoquad_i2c.rs:50).
StraysBounded ==
  LET listed  == SumFunction([d \in Device |-> SumFunction(pif[d])])
      awaited == Cardinality({p \in packets : Listed(p) /\ p.from # Other
                                /\ [dev |-> p.from, num |-> p.num] # adding})
  IN awaited <= listed /\ listed <= awaited + stray

\* A device that is not scheduled never has two reads under way, whatever is lost: a chain
\* may end but it does not split (i2c_device.rs:95, 100; java_closure_system.rs:36).  A
\* scheduled one has not either, however often a query is repeated: the pauses keep the
\* scheduler away until the data are there (i2c_device.rs:88; repeating_scheduler.rs:113).
OneListed(d) ==
  \A n \in Num : pif[d][n] > 0 => pif[d][n] = 1 /\ \A m \in Num \ {n} : pif[d][m] = 0
OneReadAtATime ==
  /\ \A d \in Device \ scheduled : OneListed(d)
  /\ Clean => \A p, q \in packets :
       p.from \in scheduled /\ q.from = p.from /\ Listed(p) /\ Listed(q) => p = q

\* A device decodes only the answers to its own queries, though all devices and commands
\* share the numbers and their answers come in any order (i2c_device.rs:70-80).
OwnData == strange => ~ Clean

\* Reads go on, as each useful response calls the handler and that sends the next: a device
\* that is not scheduled always has one read under way whose answer it will take, until its
\* closure ends (java_closure_system.rs:36; "with pinpoint-dependent operations between 200
\* and 250 hz", readme.md:31).
ChainKept ==
  Running /\ Clean =>
    \A d \in Device \ (scheduled \cup quiet) :
      \E p \in packets : p.from = d /\ IsPif(d, p.num) /\ Listed(p)

=============================================================================
