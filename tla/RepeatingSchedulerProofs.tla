---------------------- MODULE RepeatingSchedulerProofs ----------------------
(***************************************************************************)
(* The repeating scheduler, for any number of callers, any orders and any  *)
(* timing.                                                                 *)
(*                                                                         *)
(* First: only the timer thread whose channels REP_SCHED holds is alive.   *)
(* Beside that itself the induction needs only that a confirmation comes   *)
(* from a thread that has ended: then kill_and_wait returns when no thread *)
(* is alive, and the one that is started is the current one.               *)
(*                                                                         *)
(* Then the timer thread itself: its turns are slots of their groups, the  *)
(* ones taken are over, those to take are not over yet, and of those the   *)
(* ones that were sent explain how late the others are.  From what the     *)
(* thread last looked for, and when, follows how soon it heeds a kill.     *)
(***************************************************************************)
EXTENDS RepeatingScheduler, FiniteSetTheorems, WellFoundedInduction, TLAPS

\* Each timer thread is a record with a pc.
Shape ==
  /\ timer = [t \in Timer |-> timer[t]]
  /\ \A t \in Timer : timer[t] = [x \in DOMAIN timer[t] |-> timer[t][x]] /\ "pc" \in DOMAIN timer[t]

\* A thread that has confirmed has ended.
ConfirmedDead == \A t \in Timer : t \in confirmed => timer[t].pc = "dead"

TimerInv == Shape /\ OnlyCurrent /\ ConfirmedDead /\ current \in Timer \cup {0}

LEMMA TimerInvInit == Init => TimerInv
<1> SUFFICES ASSUME Init PROVE TimerInv OBVIOUS
<1>1. Shape BY DEF Init, Shape, NoTimer
<1>2. OnlyCurrent BY DEF Init, OnlyCurrent, Alive, NoTimer
<1>3. ConfirmedDead BY DEF Init, ConfirmedDead
<1> QED BY <1>1, <1>2, <1>3 DEF TimerInv, Init

\* A step that gives one live thread a new record, whose pc is neither "none" nor ends a
\* confirmation, keeps the invariant.
LEMMA OneTimerStep ==
  ASSUME TimerInv, NEW t \in Timer, Alive(t), NEW r, timer' = [timer EXCEPT ![t] = r],
         r = [x \in DOMAIN r |-> r[x]], "pc" \in DOMAIN r,
         current' = current, confirmed' = confirmed
  PROVE  TimerInv'
<1>1. /\ timer'[t] = r
      /\ \A u \in Timer \ {t} : timer'[u] = timer[u]
      /\ timer' = [u \in Timer |-> timer'[u]]
  BY DEF TimerInv, Shape
<1>2. Shape' BY <1>1 DEF TimerInv, Shape
<1>3. t = current BY DEF TimerInv, OnlyCurrent
<1>4. OnlyCurrent' BY <1>1, <1>3 DEF TimerInv, OnlyCurrent, Alive
<1>5. ConfirmedDead' BY <1>1 DEF TimerInv, ConfirmedDead, Alive
<1> QED BY <1>2, <1>4, <1>5 DEF TimerInv

LEMMA HeedStep ==
  ASSUME TimerInv, NEW t \in Timer, Alive(t), HeedOrGoOn(t)
  PROVE  TimerInv'
<1>1. CASE t \in killed
  <2>1. timer' = [timer EXCEPT ![t] = Dead] /\ confirmed' = confirmed \cup {t} /\ current' = current
    BY <1>1 DEF HeedOrGoOn
  <2>2. /\ timer'[t] = Dead
        /\ \A u \in Timer \ {t} : timer'[u] = timer[u]
        /\ timer' = [u \in Timer |-> timer'[u]]
    BY <2>1 DEF TimerInv, Shape
  <2>3. /\ Dead = [x \in DOMAIN Dead |-> Dead[x]] /\ "pc" \in DOMAIN Dead /\ Dead.pc = "dead"
    BY DEF Dead, NoTimer
  <2>4. Shape' BY <2>2, <2>3 DEF TimerInv, Shape
  <2>5. OnlyCurrent' BY <2>1, <2>2, <2>3 DEF TimerInv, OnlyCurrent, Alive
  <2>6. ConfirmedDead' BY <2>1, <2>2, <2>3 DEF TimerInv, ConfirmedDead
  <2> QED BY <2>1, <2>4, <2>5, <2>6 DEF TimerInv
<1>2. CASE t \notin killed
  <2>1. timer' = [timer EXCEPT ![t] = Going(timer[t])] /\ confirmed' = confirmed /\ current' = current
    BY <1>2 DEF HeedOrGoOn, TimerInv, Shape
  <2>2. /\ Going(timer[t]) = [x \in DOMAIN Going(timer[t]) |-> Going(timer[t])[x]]
        /\ "pc" \in DOMAIN Going(timer[t])
    BY DEF TimerInv, Shape, Going
  <2> QED BY <2>1, <2>2, OneTimerStep
<1> QED BY <1>1, <1>2

LEMMA TimerInvNext == TimerInv /\ [Next]_vars => TimerInv'
<1> SUFFICES ASSUME TimerInv, [Next]_vars PROVE TimerInv' OBVIOUS
<1>1. ASSUME NEW c \in Caller, SetOrders(c) \/ Kill(c) PROVE TimerInv'
  BY <1>1 DEF SetOrders, Kill, TimerInv, Shape, OnlyCurrent, ConfirmedDead, Alive
<1>2. ASSUME NEW c \in Caller, Unlock(c) PROVE TimerInv'
  <2>1. \A t \in Timer : ~ Alive(t)
    <3>1. CASE current = 0
      <4>1. \A t \in Timer : t # 0 BY TimerAssumption DEF Timer
      <4> QED BY <3>1, <4>1 DEF TimerInv, OnlyCurrent
    <3>2. CASE current # 0
      <4>1. ~ Alive(current)
        BY <1>2, <3>2 DEF Unlock, Heard, TimerInv, ConfirmedDead, Alive
      <4> QED BY <4>1 DEF TimerInv, OnlyCurrent
    <3> QED BY <3>1, <3>2
  <2>2. CASE current' = 0 /\ UNCHANGED timer
    BY <1>2, <2>1, <2>2 DEF Unlock, TimerInv, Shape, OnlyCurrent, ConfirmedDead, Alive
  <2>3. ASSUME NEW t \in Timer, Fresh(t), current' = t,
               timer' = [timer EXCEPT ![t] = NewTimer(call[c].orders)]
        PROVE  TimerInv'
    <3> DEFINE n == NewTimer(call[c].orders)
    <3>1. /\ timer'[t] = n
          /\ \A u \in Timer \ {t} : timer'[u] = timer[u]
          /\ timer' = [u \in Timer |-> timer'[u]]
      BY <2>3 DEF TimerInv, Shape
    <3>2. n = [x \in DOMAIN n |-> n[x]] /\ "pc" \in DOMAIN n BY DEF NewTimer
    <3>3. Shape' BY <3>1, <3>2 DEF TimerInv, Shape
    <3>4. OnlyCurrent' BY <2>1, <2>3, <3>1 DEF OnlyCurrent, Alive
    <3>5. t \notin confirmed BY <2>3 DEF Fresh, TimerInv, ConfirmedDead
    <3>6. ConfirmedDead' BY <1>2, <3>1, <3>5 DEF Unlock, TimerInv, ConfirmedDead
    <3> QED BY <2>3, <3>3, <3>4, <3>6 DEF TimerInv
  <2> QED BY <1>2, <2>2, <2>3 DEF Unlock
<1>3. ASSUME NEW t \in Timer, Choose(t) PROVE TimerInv'
  <2> DEFINE r == timer[t]
             when == [g \in 1 .. Len(r.orders) |-> WouldRun(r, g)]
             s == [r EXCEPT !.last[Best(when)] = when[Best(when)],
                            !.todo = {[at |-> when[g], group |-> g] : g \in Batch(when)}]
             n == IF r.pc = "start" THEN Going(s) ELSE [s EXCEPT !.pc = "look"]
  <2>1. timer' = [timer EXCEPT ![t] = n] /\ current' = current /\ confirmed' = confirmed
    BY <1>3 DEF Choose
  <2>2. Alive(t) BY <1>3 DEF Choose, Alive
  <2>3. s = [x \in DOMAIN s |-> s[x]] /\ "pc" \in DOMAIN s
    <3> DEFINE l == [r EXCEPT !.last[Best(when)] = when[Best(when)]]
               d == {[at |-> when[g], group |-> g] : g \in Batch(when)}
    <3>1. r = [x \in DOMAIN r |-> r[x]] /\ "pc" \in DOMAIN r BY DEF TimerInv, Shape
    <3>2. s = [l EXCEPT !.todo = d] OBVIOUS
    <3> HIDE DEF r, when, d, s
    <3>3. l = [x \in DOMAIN l |-> l[x]] /\ "pc" \in DOMAIN l BY <3>1
    <3> HIDE DEF l
    <3> QED BY <3>2, <3>3
  <2> HIDE DEF s
  <2>4. n = [x \in DOMAIN n |-> n[x]] /\ "pc" \in DOMAIN n BY <2>3 DEF Going
  <2> HIDE DEF n
  <2> QED BY <2>1, <2>2, <2>4, OneTimerStep
<1>4. ASSUME NEW t \in Timer, Look(t) \/ NapOver(t) PROVE TimerInv'
  BY <1>4, HeedStep DEF Look, NapOver, Alive
<1>5. ASSUME NEW t \in Timer, Send(t) PROVE TimerInv'
  <2> DEFINE n == Sent(timer[t])
  <2>1. timer' = [timer EXCEPT ![t] = n] /\ current' = current /\ confirmed' = confirmed
    BY <1>5 DEF Send
  <2>2. Alive(t) BY <1>5 DEF Send, Alive
  <2>3. n = [y \in DOMAIN n |-> n[y]] /\ "pc" \in DOMAIN n BY DEF TimerInv, Shape, Sent
  <2> HIDE DEF n
  <2> QED BY <2>1, <2>2, <2>3, OneTimerStep
<1>6. ASSUME NEW t \in Timer, Panic(t) PROVE TimerInv'
  <2>1. Dead = [x \in DOMAIN Dead |-> Dead[x]] /\ "pc" \in DOMAIN Dead BY DEF Dead, NoTimer
  <2>2. Alive(t) BY <1>6 DEF Panic, Alive
  <2> QED BY <1>6, <2>1, <2>2, OneTimerStep DEF Panic
<1>7. CASE Tick BY <1>7 DEF Tick, TimerInv, Shape, OnlyCurrent, ConfirmedDead, Alive
<1>8. CASE UNCHANGED vars
  BY <1>8 DEF vars, TimerInv, Shape, OnlyCurrent, ConfirmedDead, Alive
<1> QED BY <1>1, <1>2, <1>3, <1>4, <1>5, <1>6, <1>7, <1>8 DEF Next

\* However set_orders and on_kill are called, no timer thread but the current one is
\* alive: once kill_and_wait has returned, the one it killed sends nothing more.
THEOREM OnlyCurrentAlways == Spec => []OnlyCurrent
<1>1. TimerInv => OnlyCurrent BY DEF TimerInv
<1> QED BY TimerInvInit, TimerInvNext, <1>1, PTL DEF Spec

-----------------------------------------------------------------------------
(* Slots and turns.                                                        *)

LEMMA Durations ==
  /\ MaxLate \in Nat /\ CheckDur \in Nat /\ CheckDur >= 1 /\ DozeDur \in Nat /\ NapDur \in Nat
  /\ NapDur <= DozeDur /\ Never = -1 /\ Never \notin Nat
BY TimerAssumption DEF Never

\* Lists of orders a timer is given.
LEMMA OfOrders ==
  ASSUME NEW o \in OrderLists, o # << >>
  PROVE  /\ Len(o) \in Nat /\ Len(o) >= 1
         /\ \A g \in 1 .. Len(o) : o[g].offset \in Nat /\ o[g].rate \in Nat /\ o[g].rate > 0
<1> DEFINE S == [offset : Nat, rate : Nat]
<1>1. o \in Seq(S) BY TimerAssumption
<1> HIDE DEF S
<1>2. Len(o) \in Nat /\ Len(o) >= 1 BY <1>1
<1>3. ASSUME NEW g \in 1 .. Len(o)
      PROVE  o[g].offset \in Nat /\ o[g].rate \in Nat /\ o[g].rate > 0
  <2>1. o[g] \in S BY <1>1
  <2>2. o[g].rate >= 2 * CheckDur BY TimerAssumption
  <2> QED BY <2>1, <2>2, Durations DEF S
<1> QED BY <1>2, <1>3

\* a is one of first, first + rate, first + 2 * rate and so on.
IsSlot(a, first, rate) == \E k \in Nat : a = first + k * rate

LEMMA SlotRemainder ==
  ASSUME NEW first \in Nat, NEW rate \in Nat, rate > 0, NEW a, IsSlot(a, first, rate)
  PROVE  a \in Nat /\ (a - first) % rate = 0
<1>1. PICK k \in Nat : a = first + k * rate BY DEF IsSlot
<1> DEFINE x == k * rate
           q == x \div rate
<1>2. x \in Nat /\ q \in Int /\ x = rate * q + (x % rate) /\ x % rate \in 0 .. (rate - 1)
  OBVIOUS
<1>3. x % rate = rate * (k - q) BY <1>2
<1>4. CASE k - q >= 1
  <2>1. rate * (k - q) >= rate BY <1>2, <1>4
  <2> QED BY <1>2, <1>3, <2>1
<1>5. CASE k - q <= -1
  <2>1. rate * (k - q) <= - rate BY <1>2, <1>5
  <2> QED BY <1>2, <1>3, <2>1
<1>6. CASE k - q = 0
  <2>1. x % rate = 0 BY <1>3, <1>6
  <2> QED BY <1>1, <1>2, <2>1
<1> QED BY <1>2, <1>4, <1>5, <1>6

LEMMA SlotsApart ==
  ASSUME NEW first \in Nat, NEW rate \in Nat, rate > 0,
         NEW a, IsSlot(a, first, rate), NEW b, IsSlot(b, first, rate), a < b
  PROVE  b >= a + rate
<1>1. PICK k \in Nat : a = first + k * rate BY DEF IsSlot
<1>2. PICK l \in Nat : b = first + l * rate BY DEF IsSlot
<1>3. b - a = (l - k) * rate BY <1>1, <1>2
<1>4. l - k >= 1
  <2> SUFFICES ASSUME l - k <= 0 PROVE FALSE OBVIOUS
  <2>1. (l - k) * rate <= 0 OBVIOUS
  <2> QED BY <1>1, <1>2, <1>3, <2>1
<1>5. (l - k) * rate >= rate BY <1>4
<1> QED BY <1>1, <1>2, <1>3, <1>5

\* FirstSlot goes from slot to slot, and no turn it gives is over.
LEMMA FirstSlotIs ==
  ASSUME now \in Nat, NEW first \in Nat, NEW rate \in Nat, rate > 0,
         NEW base, IsSlot(base, first, rate)
  PROVE  IsSlot(FirstSlot(base, rate), first, rate) /\ FirstSlot(base, rate) >= now
<1>1. PICK k \in Nat : base = first + k * rate BY DEF IsSlot
<1>2. k * rate \in Nat OBVIOUS
<1>3. base \in Nat BY <1>1, <1>2
<1>4. CASE base >= now BY <1>4 DEF FirstSlot
<1>5. CASE base < now
  <2> DEFINE n == now - base + rate - 1
             q == n \div rate
  <2>1. n \in Nat BY <1>3, <1>5
  <2> HIDE DEF n
  <2>a. q \in Int /\ n = rate * q + (n % rate) /\ n % rate \in 0 .. (rate - 1) BY <2>1
  <2>b. q >= 0
    <3> SUFFICES ASSUME q <= -1 PROVE FALSE BY <2>a
    <3>1. rate * q <= - rate BY <2>a
    <3> QED BY <2>1, <2>a, <3>1
  <2>2. q \in Nat /\ n = rate * q + (n % rate) /\ n % rate \in 0 .. (rate - 1) BY <2>a, <2>b
  <2>3. FirstSlot(base, rate) = base + rate * q BY <1>3, <1>5 DEF FirstSlot, n
  <2>4. rate * q \in Nat BY <2>2
  <2>5. rate * q >= now - base BY <1>3, <2>2, <2>4 DEF n
  <2>6. base + rate * q = first + (k + q) * rate BY <1>1, <2>2
  <2>7. k + q \in Nat BY <2>2
  <2> HIDE DEF q
  <2>8. IsSlot(FirstSlot(base, rate), first, rate) BY <2>3, <2>6, <2>7 DEF IsSlot
  <2>9. FirstSlot(base, rate) >= now BY <1>3, <2>3, <2>4, <2>5
  <2> QED BY <2>8, <2>9
<1> QED BY <1>3, <1>4, <1>5

LEMMA Least ==
  ASSUME NEW T \in SUBSET Nat, T # {}
  PROVE  \E x \in T : \A y \in T : x <= y
<1> DEFINE R == {p \in Nat \X Nat : p[1] < p[2]}
<1>1. IsWellFoundedOn(R, Nat) BY NatLessThanWellFounded DEF OpToRel
<1>2. \E x \in T : \A y \in T : ~ (<< y, x >> \in R) BY <1>1, WFMin
<1>3. \A x, y \in Nat : ~ (<< y, x >> \in R) => x <= y OBVIOUS
<1> QED BY <1>2, <1>3

\* The best group is one of the list, and its turn is the first.
LEMMA BestIs ==
  ASSUME NEW n \in Nat, n >= 1, NEW when \in [1 .. n -> Nat]
  PROVE  Best(when) \in 1 .. n /\ \A h \in 1 .. n : when[Best(when)] <= when[h]
<1> DEFINE P(g) == \A h \in DOMAIN when : when[g] < when[h] \/ (when[g] = when[h] /\ g <= h)
<1>1. \E g \in DOMAIN when : P(g)
  <2> DEFINE T == {when[g] : g \in 1 .. n}
  <2>1. T \in SUBSET Nat /\ T # {} OBVIOUS
  <2>2. PICK x \in T : \A y \in T : x <= y BY <2>1, Least
  <2> DEFINE G == {g \in 1 .. n : when[g] = x}
  <2>3. G \in SUBSET Nat /\ G # {} BY <2>2
  <2>4. PICK g \in G : \A h \in G : g <= h BY <2>3, Least
  <2>5. \A h \in 1 .. n : x <= when[h] /\ (when[h] = x => g <= h) BY <2>2, <2>4
  <2>6. when[g] = x /\ g \in 1 .. n /\ x \in Nat BY <2>2, <2>4
  <2> HIDE DEF T, G
  <2>7. P(g) BY <2>5, <2>6
  <2> QED BY <2>6, <2>7
<1>2. Best(when) = CHOOSE g \in DOMAIN when : P(g) BY DEF Best
<1> HIDE DEF P
<1>3. Best(when) \in DOMAIN when /\ P(Best(when)) BY <1>1, <1>2
<1> QED BY <1>3 DEF P

\* A batch has the best group and no turn that is CheckDur or more behind.
LEMMA BatchIs ==
  ASSUME NEW n \in Nat, n >= 1, NEW when \in [1 .. n -> Nat]
  PROVE  /\ Best(when) \in Batch(when) /\ Batch(when) \subseteq 1 .. n
         /\ \A g \in Batch(when) : when[g] < when[Best(when)] + CheckDur
<1>1. Best(when) \in 1 .. n /\ \A h \in 1 .. n : when[Best(when)] <= when[h] BY BestIs
<1>2. /\ Near(when) \subseteq 1 .. n
      /\ \A g \in Near(when) : when[g] < when[Best(when)] + CheckDur
  BY DEF Near
<1>3. when[Best(when)] \in Nat BY <1>1
<1>4. Best(when) \in Near(when) BY <1>1, <1>3, Durations DEF Near
<1>5. Linked(when, Best(when)) BY <1>1, <1>2 DEF Linked
<1>6. Batch(when) \subseteq Near(when) BY <1>4 DEF Batch
<1>7. Best(when) \in Batch(when) BY <1>4, <1>5 DEF Batch
<1> QED BY <1>2, <1>6, <1>7

\* The soonest is one of the turns to take, and none is before it.
LEMMA SoonestIs ==
  ASSUME NEW r, NEW n \in Nat, r.todo \subseteq [at : Nat, group : 1 .. n], r.todo # {}
  PROVE  Soonest(r) \in r.todo /\ \A y \in r.todo : Soonest(r).at <= y.at
<1> DEFINE P(x) == \A y \in r.todo : x.at < y.at \/ (x.at = y.at /\ x.group <= y.group)
<1>1. \E x \in r.todo : P(x)
  <2> DEFINE T == {x.at : x \in r.todo}
  <2>1. T \in SUBSET Nat /\ T # {} OBVIOUS
  <2>2. PICK a \in T : \A b \in T : a <= b BY <2>1, Least
  <2> DEFINE G == {x.group : x \in {y \in r.todo : y.at = a}}
  <2>3. G \in SUBSET Nat /\ G # {} BY <2>2
  <2>4. PICK g \in G : \A h \in G : g <= h BY <2>3, Least
  <2>5. PICK x \in r.todo : x.at = a /\ x.group = g BY <2>4
  <2>6. \A y \in r.todo : a <= y.at /\ y.at \in Nat /\ a \in Nat BY <2>2
  <2>7. \A y \in r.todo : y.at = a => g <= y.group BY <2>4
  <2>8. P(x) BY <2>5, <2>6, <2>7
  <2> QED BY <2>5, <2>8
<1>2. Soonest(r) = CHOOSE x \in r.todo : P(x) BY DEF Soonest
<1> HIDE DEF P
<1>3. Soonest(r) \in r.todo /\ P(Soonest(r)) BY <1>1, <1>2
<1> QED BY <1>3 DEF P
-----------------------------------------------------------------------------
(* The record of a live timer.                                             *)

Groups(r) == 1 .. Len(r.orders)
AtSlot(r, g, a) == IsSlot(a, r.start + r.orders[g].offset, r.orders[g].rate)

Fields(r) ==
  r = [pc |-> r.pc, orders |-> r.orders, start |-> r.start, last |-> r.last, todo |-> r.todo,
       nap |-> r.nap, turn |-> r.turn]

RecordInv(r) ==
  /\ r.pc \in {"start", "choose", "look", "nap", "run"}
  /\ r.orders \in OrderLists /\ r.orders # << >>
  /\ r.start \in Nat /\ r.nap \in Nat
  /\ r.last \in [Groups(r) -> Nat \cup {Never}]
  /\ r.turn \in [Groups(r) -> Nat \cup {Never}]
  /\ r.todo \subseteq [at : Nat, group : Groups(r)]

\* What was marked or taken were slots, and those taken are over.
TurnsInv(r, time) ==
  \A g \in Groups(r) :
    /\ r.last[g] # Never => AtSlot(r, g, r.last[g])
    /\ r.turn[g] # Never => AtSlot(r, g, r.turn[g]) /\ r.turn[g] < time

\* Those to take are slots of different groups, close together, a rate after the group's
\* last turn, and not late by more than the thread may wake late and the turns of the batch
\* that went before.
TodoInv(r, time) ==
  /\ \A x, y \in r.todo : (x.group = y.group => x = y) /\ x.at < y.at + CheckDur
  /\ \A x \in r.todo :
       /\ AtSlot(r, x.group, x.at)
       /\ r.turn[x.group] # Never => x.at >= r.turn[x.group] + r.orders[x.group].rate
       /\ time <= x.at + MaxLate + Len(r.orders) - Cardinality(r.todo)

\* How long ago, at most, the thread last looked for a kill, or was about to start.
PcInv(r, time) ==
  /\ r.pc \in {"look", "nap", "run"} <=> r.todo # {}
  /\ r.nap <= time
  /\ r.pc = "nap" =>
       /\ time <= r.nap + NapDur + MaxLate
       /\ \A x \in r.todo : x.at > r.nap + DozeDur
  /\ r.pc = "run" => \A x \in r.todo : x.at < r.nap + DozeDur + CheckDur
  /\ r.pc \in {"choose", "look"} =>
       time <= r.nap + DozeDur + CheckDur + MaxLate + Len(r.orders)

LiveInv(r, time) == RecordInv(r) /\ TurnsInv(r, time) /\ TodoInv(r, time) /\ PcInv(r, time)

LEMMA Orders ==
  ASSUME NEW r, RecordInv(r)
  PROVE  /\ Len(r.orders) \in Nat /\ Len(r.orders) >= 1
         /\ \A g \in Groups(r) : /\ r.orders[g].rate \in Nat /\ r.orders[g].rate > 0
                                 /\ r.orders[g].offset \in Nat
                                 /\ r.start + r.orders[g].offset \in Nat
BY OfOrders DEF RecordInv, Groups

\* A group has one turn at most to take, so there are no more of them than orders.
LEMMA FewTurns ==
  ASSUME NEW r, RecordInv(r), \A x, y \in r.todo : x.group = y.group => x = y
  PROVE  /\ IsFiniteSet(r.todo) /\ Cardinality(r.todo) \in Nat
         /\ Cardinality(r.todo) <= Len(r.orders)
<1> DEFINE f == [x \in r.todo |-> x.group]
<1>1. Len(r.orders) \in Nat /\ Len(r.orders) >= 1 BY Orders
<1>2. IsFiniteSet(Groups(r)) /\ Cardinality(Groups(r)) = Len(r.orders)
  <2> DEFINE n == Len(r.orders)
  <2> HIDE DEF n
  <2>1. n \in Nat /\ n >= 1 BY <1>1 DEF n
  <2>2. IsFiniteSet(1 .. n) /\ Cardinality(1 .. n) = n - 1 + 1 BY <2>1, FS_Interval
  <2> QED BY <2>1, <2>2 DEF Groups, n
<1>3. f \in Injection(r.todo, Groups(r))
  <2>1. f \in [r.todo -> Groups(r)] BY DEF RecordInv
  <2>2. \A x, y \in r.todo : f[x] = f[y] => x = y OBVIOUS
  <2> HIDE DEF f
  <2> QED BY <2>1, <2>2 DEF Injection, IsInjective
<1>4. IsFiniteSet(r.todo) /\ Cardinality(r.todo) <= Cardinality(Groups(r))
  BY <1>2, <1>3, FS_Injection
<1> QED BY <1>2, <1>4, FS_CardinalityType

\* What Going changes of a timer's record.
LEMMA GoingIs ==
  ASSUME NEW r, Fields(r)
  PROVE  LET n == Going(r) IN
           /\ Fields(n)
           /\ n.orders = r.orders /\ n.start = r.start /\ n.last = r.last /\ n.todo = r.todo
           /\ n.turn = r.turn /\ n.nap = now
           /\ n.pc = IF Soonest(r).at - now > DozeDur THEN "nap" ELSE "run"
<1> DEFINE p == IF Soonest(r).at - now > DozeDur THEN "nap" ELSE "run"
           n == Going(r)
<1>1. n = [r EXCEPT !.pc = p, !.nap = now] BY DEF Going
<1> HIDE DEF p, n
<1>2. n = [pc |-> p, orders |-> r.orders, start |-> r.start, last |-> r.last, todo |-> r.todo,
           nap |-> now, turn |-> r.turn]
  BY <1>1 DEF Fields
<1>3. /\ n.pc = p /\ n.orders = r.orders /\ n.start = r.start /\ n.last = r.last
      /\ n.todo = r.todo /\ n.turn = r.turn /\ n.nap = now
  BY <1>2
<1>4. Fields(n) BY <1>2, <1>3 DEF Fields
<1> QED BY <1>3, <1>4 DEF n, p

LEMMA GoingLive ==
  ASSUME now \in Nat, NEW r, Fields(r), RecordInv(r), TurnsInv(r, now), TodoInv(r, now), r.todo # {}
  PROVE  Fields(Going(r)) /\ LiveInv(Going(r), now) /\ Going(r).nap = now
<1> DEFINE n == Going(r)
<1>1. /\ Fields(n)
      /\ n.orders = r.orders /\ n.start = r.start /\ n.last = r.last /\ n.todo = r.todo
      /\ n.turn = r.turn /\ n.nap = now
      /\ n.pc = IF Soonest(r).at - now > DozeDur THEN "nap" ELSE "run"
  BY GoingIs
<1> HIDE DEF n
<1>2. Len(r.orders) \in Nat BY Orders
<1>3. Soonest(r) \in r.todo /\ \A y \in r.todo : Soonest(r).at <= y.at
  BY <1>2, SoonestIs DEF RecordInv, Groups
<1>4. \A x \in r.todo : x.at \in Nat BY DEF RecordInv
<1>5. RecordInv(n) BY <1>1 DEF RecordInv, Groups
<1>6. TurnsInv(n, now) BY <1>1 DEF TurnsInv, Groups, AtSlot
<1>7. TodoInv(n, now) BY <1>1 DEF TodoInv, AtSlot
<1>8. PcInv(n, now)
  <2>1. CASE n.pc = "nap"
    <3>1. \A x \in r.todo : x.at > now + DozeDur BY <1>1, <1>3, <1>4, <2>1, Durations
    <3> QED BY <1>1, <2>1, <3>1, Durations DEF PcInv
  <2>2. CASE n.pc = "run"
    <3>1. Soonest(r).at <= now + DozeDur BY <1>1, <1>3, <1>4, <2>2, Durations
    <3>2. \A x \in r.todo : x.at < Soonest(r).at + CheckDur BY <1>3 DEF TodoInv
    <3>3. \A x \in r.todo : x.at < now + DozeDur + CheckDur BY <1>3, <1>4, <3>1, <3>2, Durations
    <3> QED BY <1>1, <2>2, <3>3 DEF PcInv
  <2> QED BY <1>1, <2>1, <2>2
<1> QED BY <1>1, <1>5, <1>6, <1>7, <1>8 DEF LiveInv, n

\* get_next_timer marks a slot and gives turns of which none is over.
LEMMA ChosenLive ==
  ASSUME now \in Nat, NEW r, Fields(r), LiveInv(r, now), r.todo = {}
  PROVE  LET when == [g \in 1 .. Len(r.orders) |-> WouldRun(r, g)]
             s    == [r EXCEPT !.last[Best(when)] = when[Best(when)],
                               !.todo = {[at |-> when[g], group |-> g] : g \in Batch(when)}]
         IN /\ Fields(s) /\ RecordInv(s) /\ TurnsInv(s, now) /\ TodoInv(s, now) /\ s.todo # {}
            /\ s.nap = r.nap /\ s.orders = r.orders
<1> DEFINE n == Len(r.orders)
           when == [g \in 1 .. n |-> WouldRun(r, g)]
           b == Best(when)
           todo == {[at |-> when[g], group |-> g] : g \in Batch(when)}
           last == [r.last EXCEPT ![b] = when[b]]
           s == [r EXCEPT !.last[b] = when[b], !.todo = todo]
<1>1. /\ n \in Nat /\ n >= 1
      /\ \A g \in Groups(r) : /\ r.orders[g].rate \in Nat /\ r.orders[g].rate > 0
                              /\ r.start + r.orders[g].offset \in Nat
  BY Orders DEF LiveInv
<1>2. ASSUME NEW g \in 1 .. n
      PROVE  /\ AtSlot(r, g, when[g]) /\ when[g] >= now /\ when[g] \in Nat
             /\ r.turn[g] # Never => when[g] >= r.turn[g] + r.orders[g].rate
  <2> DEFINE first == r.start + r.orders[g].offset
             rate == r.orders[g].rate
             base == IF r.last[g] = Never THEN first ELSE r.last[g] + rate
  <2>1. first \in Nat /\ rate \in Nat /\ rate > 0 BY <1>1 DEF Groups
  <2>2. IsSlot(base, first, rate)
    <3>1. CASE r.last[g] = Never
      <4>1. first = first + 0 * rate BY <2>1
      <4> QED BY <3>1, <4>1 DEF IsSlot
    <3>2. CASE r.last[g] # Never
      <4>1. PICK k \in Nat : r.last[g] = first + k * rate
        BY <3>2 DEF LiveInv, TurnsInv, AtSlot, IsSlot, Groups
      <4> HIDE DEF first, rate
      <4>2. (k + 1) * rate = k * rate + rate /\ k * rate \in Nat BY <2>1
      <4>3. r.last[g] + rate = first + (k + 1) * rate BY <2>1, <4>1, <4>2
      <4> QED BY <3>2, <4>3 DEF IsSlot
    <3> QED BY <3>1, <3>2
  <2>3. when[g] = FirstSlot(base, rate) BY DEF WouldRun
  <2> HIDE DEF base
  <2>4. IsSlot(when[g], first, rate) /\ when[g] >= now BY <2>1, <2>2, <2>3, FirstSlotIs
  <2>5. when[g] \in Nat BY <2>1, <2>4, SlotRemainder
  <2>6. r.turn[g] # Never => when[g] >= r.turn[g] + rate
    <3> SUFFICES ASSUME r.turn[g] # Never PROVE when[g] >= r.turn[g] + rate OBVIOUS
    <3>1. IsSlot(r.turn[g], first, rate) /\ r.turn[g] < now /\ r.turn[g] \in Nat
      BY Durations DEF LiveInv, TurnsInv, RecordInv, AtSlot, Groups
    <3>2. r.turn[g] < when[g] BY <2>4, <2>5, <3>1
    <3> QED BY <2>1, <2>4, <3>1, <3>2, SlotsApart
  <2> QED BY <2>4, <2>5, <2>6 DEF AtSlot
<1>3. when \in [1 .. n -> Nat] BY <1>2
<1> HIDE DEF when, n
<1>4. /\ b \in Batch(when) /\ Batch(when) \subseteq 1 .. n
      /\ \A g \in Batch(when) : when[g] < when[b] + CheckDur
      /\ \A g \in 1 .. n : when[b] <= when[g]
  BY <1>1, <1>3, BestIs, BatchIs
<1> HIDE DEF b
<1>5. /\ s.pc = r.pc /\ s.orders = r.orders /\ s.start = r.start /\ s.nap = r.nap
      /\ s.turn = r.turn /\ s.todo = todo /\ s.last = last /\ Fields(s)
  <2> HIDE DEF todo
  <2>1. s = [[r EXCEPT !.last = last] EXCEPT !.todo = todo] OBVIOUS
  <2> HIDE DEF s, last
  <2>2. s = [pc |-> r.pc, orders |-> r.orders, start |-> r.start, last |-> last, todo |-> todo,
             nap |-> r.nap, turn |-> r.turn]
    BY <2>1 DEF Fields
  <2> QED BY <2>2 DEF Fields
<1> HIDE DEF s
<1>6. \A x \in todo : x.group \in Batch(when) /\ x.group \in 1 .. n /\ x.at = when[x.group]
                      /\ x = [at |-> when[x.group], group |-> x.group]
  BY <1>4
<1>7. todo # {} BY <1>4
<1>8. todo \subseteq [at : Nat, group : 1 .. n] BY <1>2, <1>4
<1> HIDE DEF todo
<1>9. RecordInv(s)
  <2>1. last \in [1 .. n -> Nat \cup {Never}]
    BY <1>2, <1>4 DEF LiveInv, RecordInv, Groups, n
  <2> HIDE DEF last
  <2> QED BY <1>5, <1>8, <2>1 DEF LiveInv, RecordInv, Groups, n
<1>10. TurnsInv(s, now)
  <2>1. \A g \in 1 .. n : last[g] = IF g = b THEN when[b] ELSE r.last[g]
    BY DEF LiveInv, RecordInv, Groups, n
  <2> HIDE DEF last
  <2> QED BY <1>2, <1>4, <1>5, <2>1 DEF LiveInv, TurnsInv, AtSlot, Groups, n
<1>11. TodoInv(s, now)
  <2>1. ASSUME NEW x \in todo, NEW y \in todo
        PROVE  (x.group = y.group => x = y) /\ x.at < y.at + CheckDur
    <3>1. when[x.group] < when[b] + CheckDur /\ when[b] <= when[y.group] BY <1>4, <1>6
    <3>2. when[x.group] \in Nat /\ when[y.group] \in Nat /\ when[b] \in Nat BY <1>2, <1>4, <1>6
    <3> QED BY <1>6, <3>1, <3>2, Durations
  <2>2. Cardinality(todo) \in Nat /\ Cardinality(todo) <= Len(r.orders)
    BY <1>5, <1>9, <2>1, FewTurns
  <2>3. ASSUME NEW x \in todo
        PROVE  /\ AtSlot(r, x.group, x.at)
               /\ r.turn[x.group] # Never => x.at >= r.turn[x.group] + r.orders[x.group].rate
               /\ now <= x.at + MaxLate + Len(r.orders) - Cardinality(todo)
    <3>1. x.at >= now /\ x.at \in Nat BY <1>2, <1>6
    <3>2. now <= x.at + MaxLate + Len(r.orders) - Cardinality(todo)
      BY <1>1, <2>2, <3>1, Durations DEF n
    <3> QED BY <1>2, <1>6, <3>2
  <2> QED BY <1>5, <2>1, <2>3 DEF TodoInv, AtSlot
<1> QED BY <1>5, <1>7, <1>9, <1>10, <1>11 DEF s, b, when, n, todo

\* When the last of a batch is taken.
LEMMA LastOfBatch ==
  ASSUME NEW time \in Nat, NEW at \in Nat, NEW nap \in Nat, NEW n \in Nat, NEW k \in Nat, k >= 1,
         at < nap + DozeDur + CheckDur, time <= at + MaxLate + n - k
  PROVE  time + 1 <= nap + DozeDur + CheckDur + MaxLate + n
BY Durations

\* A turn taken is over, and those that remain of the batch may be a tick later for it.
LEMMA SentLive ==
  ASSUME now \in Nat, NEW r, Fields(r), LiveInv(r, now), r.pc = "run", now >= Soonest(r).at
  PROVE  Fields(Sent(r)) /\ LiveInv(Sent(r), now + 1) /\ Sent(r).nap = r.nap
         /\ Sent(r).orders = r.orders /\ Sent(r).pc \in {"run", "choose"}
<1> DEFINE x == Soonest(r)
           p == IF r.todo = {x} THEN "choose" ELSE "run"
           turn == [r.turn EXCEPT ![x.group] = x.at]
           n == Sent(r)
<1>1. n = [[[r EXCEPT !.todo = r.todo \ {x}] EXCEPT !.turn = turn] EXCEPT !.pc = p]
  BY DEF Sent, Fields
<1>2. n = [pc |-> p, orders |-> r.orders, start |-> r.start, last |-> r.last,
           todo |-> r.todo \ {x}, nap |-> r.nap, turn |-> turn]
  <2> HIDE DEF x, p, turn, n
  <2> QED BY <1>1 DEF Fields
<1> HIDE DEF n
<1>3. /\ n.pc = p /\ n.orders = r.orders /\ n.start = r.start /\ n.last = r.last
      /\ n.todo = r.todo \ {x} /\ n.nap = r.nap /\ n.turn = turn
  <2> HIDE DEF x, p, turn
  <2> QED BY <1>2
<1>4. Fields(n) BY <1>2, <1>3 DEF Fields
<1>5. Len(r.orders) \in Nat /\ Len(r.orders) >= 1 BY Orders DEF LiveInv
<1>6. r.todo # {} BY DEF LiveInv, PcInv
<1>7. x \in r.todo /\ \A y \in r.todo : x.at <= y.at
  BY <1>5, <1>6, SoonestIs DEF LiveInv, RecordInv, Groups
<1>8. /\ x.group \in Groups(r) /\ x.at \in Nat /\ x.at <= now
      /\ \A y \in r.todo : y.group \in Groups(r) /\ y.at \in Nat
  BY <1>7 DEF LiveInv, RecordInv
<1> HIDE DEF x
<1>9. /\ IsFiniteSet(r.todo) /\ Cardinality(r.todo) \in Nat /\ Cardinality(r.todo) <= Len(r.orders)
  BY FewTurns DEF LiveInv, TodoInv
<1>10. Cardinality(r.todo \ {x}) = Cardinality(r.todo) - 1 /\ Cardinality(r.todo) >= 1
  <2>1. Cardinality(r.todo \ {x}) = Cardinality(r.todo) - 1 BY <1>7, <1>9, FS_RemoveElement
  <2>2. Cardinality(r.todo) # 0 BY <1>6, <1>9, FS_EmptySet
  <2> QED BY <1>9, <2>1, <2>2
<1>11. /\ turn \in [Groups(r) -> Nat \cup {Never}]
       /\ \A g \in Groups(r) : turn[g] = IF g = x.group THEN x.at ELSE r.turn[g]
  BY <1>8 DEF LiveInv, RecordInv
<1> HIDE DEF turn
<1>12. RecordInv(n) BY <1>3, <1>11 DEF LiveInv, RecordInv, Groups
<1>13. TurnsInv(n, now + 1)
  <2> SUFFICES ASSUME NEW g \in Groups(r)
               PROVE  /\ r.last[g] # Never => AtSlot(r, g, r.last[g])
                      /\ turn[g] # Never => AtSlot(r, g, turn[g]) /\ turn[g] < now + 1
    BY <1>3 DEF TurnsInv, AtSlot, Groups
  <2>1. /\ r.last[g] # Never => AtSlot(r, g, r.last[g])
        /\ r.turn[g] # Never => AtSlot(r, g, r.turn[g]) /\ r.turn[g] < now
        /\ r.turn[g] \in Nat \cup {Never}
    BY DEF LiveInv, TurnsInv, RecordInv
  <2>2. AtSlot(r, x.group, x.at) BY <1>7 DEF LiveInv, TodoInv
  <2>3. CASE g = x.group BY <1>8, <1>11, <2>1, <2>2, <2>3
  <2>4. CASE g # x.group
    <3>1. turn[g] # Never => turn[g] < now + 1 BY <1>11, <2>1, <2>4, Durations
    <3> QED BY <1>11, <2>1, <2>4, <3>1
  <2> QED BY <2>3, <2>4
<1>14. TodoInv(n, now + 1)
  <2>1. ASSUME NEW y \in r.todo \ {x}
        PROVE  /\ AtSlot(r, y.group, y.at)
               /\ turn[y.group] # Never => y.at >= turn[y.group] + r.orders[y.group].rate
               /\ now + 1 <= y.at + MaxLate + Len(r.orders) - Cardinality(r.todo \ {x})
    <3>1. y.group # x.group BY <1>7 DEF LiveInv, TodoInv
    <3>2. turn[y.group] = r.turn[y.group] BY <1>8, <1>11, <3>1
    <3>3. now <= y.at + MaxLate + Len(r.orders) - Cardinality(r.todo) BY DEF LiveInv, TodoInv
    <3>4. now + 1 <= y.at + MaxLate + Len(r.orders) - Cardinality(r.todo \ {x})
      BY <1>5, <1>8, <1>9, <1>10, <3>3, Durations
    <3> QED BY <3>2, <3>4 DEF LiveInv, TodoInv
  <2>2. \A y, z \in r.todo : (y.group = z.group => y = z) /\ y.at < z.at + CheckDur
    BY DEF LiveInv, TodoInv
  <2> QED BY <1>3, <2>1, <2>2 DEF TodoInv, AtSlot
<1>15. PcInv(n, now + 1)
  <2>1. /\ r.nap \in Nat /\ r.nap <= now
        /\ \A y \in r.todo : y.at < r.nap + DozeDur + CheckDur
    BY DEF LiveInv, RecordInv, PcInv
  <2>2. r.nap <= now + 1 BY <2>1
  <2>3. CASE r.todo = {x}
    <3>1. now <= x.at + MaxLate + Len(r.orders) - Cardinality(r.todo)
      BY <1>7 DEF LiveInv, TodoInv
    <3>2. x.at < r.nap + DozeDur + CheckDur BY <1>7, <2>1
    <3>3. now + 1 <= r.nap + DozeDur + CheckDur + MaxLate + Len(r.orders)
      BY <1>5, <1>8, <1>9, <1>10, <2>1, <3>1, <3>2, LastOfBatch
    <3>4. n.pc = "choose" /\ n.todo = {} BY <1>3, <2>3
    <3> QED BY <1>3, <2>2, <3>3, <3>4 DEF PcInv
  <2>4. CASE r.todo # {x}
    <3>1. n.pc = "run" /\ n.todo # {} BY <1>3, <1>7, <2>4
    <3> QED BY <1>3, <2>1, <2>2, <3>1 DEF PcInv
  <2> QED BY <2>3, <2>4
<1> QED BY <1>3, <1>4, <1>12, <1>13, <1>14, <1>15 DEF LiveInv, n

\* Time passes as long as no sleeper is late.
LEMMA TickLive ==
  ASSUME now \in Nat, NEW r, LiveInv(r, now), r.pc \notin {"start", "choose", "look"},
         r.pc = "nap" => now < r.nap + NapDur + MaxLate,
         r.pc = "run" => now < Soonest(r).at + MaxLate
  PROVE  LiveInv(r, now + 1)
<1>1. Len(r.orders) \in Nat /\ r.nap \in Nat /\ r.nap <= now /\ r.pc \in {"nap", "run"}
  BY Orders DEF LiveInv, RecordInv, PcInv
<1>2. r.todo # {} BY <1>1 DEF LiveInv, PcInv
<1>3. Soonest(r) \in r.todo /\ \A y \in r.todo : Soonest(r).at <= y.at
  BY <1>1, <1>2, SoonestIs DEF LiveInv, RecordInv, Groups
<1>4. \A y \in r.todo : y.at \in Nat BY DEF LiveInv, RecordInv
<1>5. Cardinality(r.todo) \in Nat /\ Cardinality(r.todo) <= Len(r.orders)
  BY FewTurns DEF LiveInv, TodoInv
<1>6. TurnsInv(r, now + 1)
  <2>1. \A g \in Groups(r) : r.turn[g] # Never => r.turn[g] \in Nat /\ r.turn[g] < now
    BY DEF LiveInv, RecordInv, TurnsInv
  <2>2. \A g \in Groups(r) : r.turn[g] # Never => r.turn[g] < now + 1 BY <2>1
  <2> QED BY <2>2 DEF LiveInv, TurnsInv
<1>7. \A y \in r.todo : now < y.at + MaxLate
  <2> TAKE y \in r.todo
  <2>1. CASE r.pc = "nap"
    <3>1. y.at > r.nap + DozeDur BY <2>1 DEF LiveInv, PcInv
    <3> QED BY <1>1, <1>4, <2>1, <3>1, Durations
  <2>2. CASE r.pc = "run" BY <1>3, <1>4, <2>2, Durations
  <2> QED BY <1>1, <2>1, <2>2
<1>8. TodoInv(r, now + 1)
  <2>1. \A y \in r.todo : now + 1 <= y.at + MaxLate + Len(r.orders) - Cardinality(r.todo)
    BY <1>1, <1>4, <1>5, <1>7, Durations
  <2> QED BY <2>1 DEF LiveInv, TodoInv
<1>9. PcInv(r, now + 1)
  <2>1. r.nap <= now + 1 /\ (r.pc = "nap" => now + 1 <= r.nap + NapDur + MaxLate)
    BY <1>1, Durations
  <2> QED BY <1>1, <2>1 DEF LiveInv, PcInv
<1> QED BY <1>6, <1>8, <1>9 DEF LiveInv

LEMMA NewLive ==
  ASSUME now \in Nat, NEW o \in OrderLists, o # << >>
  PROVE  Fields(NewTimer(o)) /\ LiveInv(NewTimer(o), now) /\ NewTimer(o).pc = "start"
<1> DEFINE n == NewTimer(o)
           none == [g \in 1 .. Len(o) |-> Never]
<1>1. n = [pc |-> "start", orders |-> o, start |-> now, last |-> none, todo |-> {},
           nap |-> 0, turn |-> none]
  BY DEF NewTimer
<1>2. none \in [1 .. Len(o) -> Nat \cup {Never}] /\ \A g \in 1 .. Len(o) : none[g] = Never OBVIOUS
<1> HIDE DEF n, none
<1>3. /\ n.pc = "start" /\ n.orders = o /\ n.start = now /\ n.last = none /\ n.todo = {}
      /\ n.nap = 0 /\ n.turn = none
  BY <1>1
<1>4. Fields(n) BY <1>1, <1>3 DEF Fields
<1>5. RecordInv(n) BY <1>2, <1>3 DEF RecordInv, Groups
<1>6. TurnsInv(n, now) BY <1>2, <1>3 DEF TurnsInv, Groups
<1>7. TodoInv(n, now) BY <1>3 DEF TodoInv
<1>8. PcInv(n, now) BY <1>3 DEF PcInv
<1> QED BY <1>3, <1>4, <1>5, <1>6, <1>7, <1>8 DEF LiveInv, n

-----------------------------------------------------------------------------
(* The invariant of the timers and of who kills them.                      *)

TimersInv ==
  \A t \in Timer : /\ Fields(timer[t])
                   /\ Alive(t) => LiveInv(timer[t], now)
                   /\ ~ Alive(t) => timer[t].todo = {}

\* One caller at most is between the lock and the unlock.
CallInv ==
  /\ call \in [Caller -> [pc : {"idle", "locked", "killing"}, orders : OrderLists \cup {<< >>},
                          since : Nat]]
  /\ \A c \in Caller : call[c].pc # "idle" => lock /\ call[c].orders \in OrderLists
  /\ \A c, d \in Caller : call[c].pc # "idle" /\ call[d].pc # "idle" => c = d

\* A thread that is being killed has not looked for the kill since it was sent.
KillInv ==
  \A c \in Caller : call[c].pc = "killing" /\ ~ Heard =>
    /\ current \in killed
    /\ call[c].since <= now
    /\ IF timer[current].pc = "start" THEN call[c].since = now
                                      ELSE timer[current].nap <= call[c].since

StateInv == TimerInv /\ now \in Nat /\ TimersInv /\ CallInv /\ KillInv

\* One timer gets a new record; whether time passes or not, all others are at rest or it does not.
LEMMA OneRecord ==
  ASSUME TimerInv, TimersInv, NEW t \in Timer, NEW n, timer' = [timer EXCEPT ![t] = n],
         Fields(n),
         n.pc \notin {"none", "dead"} => LiveInv(n, now'),
         n.pc \in {"none", "dead"} => n.todo = {},
         (\A u \in Timer \ {t} : ~ Alive(u)) \/ now' = now
  PROVE  TimersInv' /\ timer'[t] = n /\ \A u \in Timer \ {t} : timer'[u] = timer[u]
<1>1. timer'[t] = n /\ \A u \in Timer \ {t} : timer'[u] = timer[u] BY DEF TimerInv, Shape
<1>2. ASSUME NEW u \in Timer
      PROVE  /\ Fields(timer'[u])
             /\ timer'[u].pc \notin {"none", "dead"} => LiveInv(timer'[u], now')
             /\ timer'[u].pc \in {"none", "dead"} => timer'[u].todo = {}
  <2>1. CASE u = t BY <1>1, <2>1
  <2>2. CASE u # t BY <1>1, <2>2 DEF TimersInv, Alive
  <2> QED BY <2>1, <2>2
<1>3. TimersInv' BY <1>2 DEF TimersInv, Alive
<1> QED BY <1>1, <1>3

\* The record of a timer that has ended, or was not started.
LEMMA AtRest ==
  /\ Fields(NoTimer) /\ NoTimer.pc = "none" /\ NoTimer.todo = {}
  /\ Fields(Dead) /\ Dead.pc = "dead" /\ Dead.todo = {}
<1>1. NoTimer.pc = "none" /\ NoTimer.todo = {} /\ Fields(NoTimer) BY DEF NoTimer, Fields
<1>2. Dead = [pc |-> "dead", orders |-> NoTimer.orders, start |-> NoTimer.start,
              last |-> NoTimer.last, todo |-> NoTimer.todo, nap |-> NoTimer.nap,
              turn |-> NoTimer.turn]
  BY <1>1 DEF Fields, Dead
<1>3. Dead.pc = "dead" /\ Dead.todo = {} /\ Fields(Dead) BY <1>1, <1>2 DEF Fields
<1> QED BY <1>1, <1>3

LEMMA StateInvInit == Init => StateInv
<1> SUFFICES ASSUME Init PROVE StateInv OBVIOUS
<1>1. TimerInv BY TimerInvInit
<1>2. now \in Nat BY DEF Init
<1>3. TimersInv BY AtRest DEF Init, TimersInv, Alive
<1>4. CallInv BY DEF Init, CallInv, NoCall
<1>5. KillInv BY DEF Init, KillInv, NoCall
<1> QED BY <1>1, <1>2, <1>3, <1>4, <1>5 DEF StateInv

\* A step of the timer's thread that heeds no kill: the record it leaves is kept, and only
\* a step out of the start looks for a kill that may have been sent.
LEMMA TimerStep ==
  ASSUME StateInv, TimerInv', NEW t \in Timer, Alive(t), NEW n,
         timer' = [timer EXCEPT ![t] = n], Fields(n), n.pc \notin {"none", "dead"},
         now' \in Nat, now' >= now, LiveInv(n, now'),
         n.pc # "start",
         timer[t].pc = "start" \/ n.nap = timer[t].nap \/ t \notin killed,
         timer[t].pc = "start" => n.nap = now,
         UNCHANGED << call, lock, current, killed, confirmed >>
  PROVE  StateInv'
<1>1. \A u \in Timer \ {t} : ~ Alive(u) BY DEF StateInv, TimerInv, OnlyCurrent
<1>2. t = current BY DEF StateInv, TimerInv, OnlyCurrent
<1>3. TimersInv' /\ timer'[t] = n BY <1>1, OneRecord DEF StateInv
<1>4. CallInv' BY DEF StateInv, CallInv
<1>5. KillInv'
  <2> SUFFICES ASSUME NEW c \in Caller, call[c].pc = "killing", ~ Heard'
               PROVE  /\ current \in killed /\ call[c].since <= now'
                      /\ n.nap <= call[c].since
    BY <1>2, <1>3 DEF KillInv
  <2>1. ~ Heard BY <1>2 DEF Heard
  <2>2. /\ current \in killed /\ call[c].since <= now
        /\ IF timer[current].pc = "start" THEN call[c].since = now
                                          ELSE timer[current].nap <= call[c].since
    BY <2>1 DEF StateInv, KillInv
  <2>3. call[c].since \in Nat BY DEF StateInv, CallInv
  <2>4. call[c].since <= now' BY <2>2, <2>3 DEF StateInv
  <2>5. n.nap <= call[c].since
    <3>1. CASE timer[t].pc = "start" BY <1>2, <2>2, <3>1 DEF StateInv
    <3>2. CASE timer[t].pc # "start" BY <1>2, <2>2, <3>2
    <3> QED BY <3>1, <3>2
  <2> QED BY <2>2, <2>4, <2>5
<1> QED BY <1>3, <1>4, <1>5 DEF StateInv

\* A timer's thread ends.
LEMMA EndStep ==
  ASSUME StateInv, TimerInv', NEW t \in Timer, Alive(t), timer' = [timer EXCEPT ![t] = Dead],
         UNCHANGED << now, call, lock, current >>
  PROVE  StateInv'
<1>1. t = current BY DEF StateInv, TimerInv, OnlyCurrent
<1>2. TimersInv' /\ timer'[t] = Dead BY AtRest, OneRecord DEF StateInv
<1>3. CallInv' BY DEF StateInv, CallInv
<1>4. Heard' BY <1>1, <1>2, AtRest DEF Heard, Alive
<1>5. KillInv' BY <1>4 DEF KillInv
<1> QED BY <1>2, <1>3, <1>5 DEF StateInv

LEMMA SetOrdersKeeps == ASSUME StateInv, TimerInv', NEW c \in Caller, SetOrders(c) PROVE StateInv'
<1>1. PICK o \in OrderLists :
        call' = [call EXCEPT ![c] = [pc |-> "locked", orders |-> o, since |-> 0]]
  BY DEF SetOrders
<1>2. /\ call[c].pc = "idle" /\ ~ lock /\ lock'
      /\ UNCHANGED << now, current, timer, killed, confirmed >>
  BY DEF SetOrders
<1>3. TimersInv' BY <1>2 DEF StateInv, TimersInv, Alive
<1>4. \A d \in Caller : call[d].pc = "idle" BY <1>2 DEF StateInv, CallInv
<1>5. /\ call' \in [Caller -> [pc : {"idle", "locked", "killing"},
                               orders : OrderLists \cup {<< >>}, since : Nat]]
      /\ call'[c].pc = "locked" /\ call'[c].orders = o
      /\ \A d \in Caller \ {c} : call'[d] = call[d]
  BY <1>1 DEF StateInv, CallInv
<1>6. CallInv' BY <1>2, <1>4, <1>5 DEF CallInv
<1>7. KillInv' BY <1>4, <1>5 DEF KillInv
<1> QED BY <1>2, <1>3, <1>6, <1>7 DEF StateInv

LEMMA KillKeeps == ASSUME StateInv, TimerInv', NEW c \in Caller, Kill(c) PROVE StateInv'
<1>1. /\ call[c].pc = "locked"
      /\ killed' = IF current = 0 THEN killed ELSE killed \cup {current}
      /\ call' = [call EXCEPT ![c].pc = "killing", ![c].since = now]
      /\ UNCHANGED << now, lock, current, timer, confirmed >>
  BY DEF Kill
<1>2. TimersInv' BY <1>1 DEF StateInv, TimersInv, Alive
<1>3. \A d \in Caller : call[d].pc # "idle" => d = c BY <1>1 DEF StateInv, CallInv
<1>4. /\ call' \in [Caller -> [pc : {"idle", "locked", "killing"},
                               orders : OrderLists \cup {<< >>}, since : Nat]]
      /\ call'[c].pc = "killing" /\ call'[c].orders = call[c].orders /\ call'[c].since = now
      /\ \A d \in Caller \ {c} : call'[d] = call[d]
  BY <1>1 DEF StateInv, CallInv
<1>5. CallInv' BY <1>1, <1>4 DEF StateInv, CallInv
<1>6. KillInv'
  <2> SUFFICES ASSUME NEW d \in Caller, call'[d].pc = "killing", ~ Heard'
               PROVE  /\ current \in killed' /\ call'[d].since <= now
                      /\ IF timer[current].pc = "start" THEN call'[d].since = now
                                                        ELSE timer[current].nap <= call'[d].since
    BY <1>1 DEF KillInv
  <2>1. d = c BY <1>3, <1>4
  <2>2. current # 0 /\ Alive(current) BY <1>1 DEF Heard, Alive
  <2>3. current \in Timer BY <2>2 DEF StateInv, TimerInv
  <2>4. timer[current].nap <= now BY <2>2, <2>3 DEF StateInv, TimersInv, LiveInv, PcInv
  <2> QED BY <1>1, <1>4, <2>1, <2>2, <2>4 DEF StateInv
<1> QED BY <1>1, <1>2, <1>5, <1>6 DEF StateInv

LEMMA UnlockKeeps == ASSUME StateInv, TimerInv', NEW c \in Caller, Unlock(c) PROVE StateInv'
<1>1. /\ call[c].pc = "killing" /\ ~ lock'
      /\ call' = [call EXCEPT ![c] = NoCall]
      /\ UNCHANGED << now, killed, confirmed >>
  BY DEF Unlock
<1>2. \A d \in Caller : call[d].pc # "idle" => d = c BY <1>1 DEF StateInv, CallInv
<1>3. /\ call' \in [Caller -> [pc : {"idle", "locked", "killing"},
                               orders : OrderLists \cup {<< >>}, since : Nat]]
      /\ \A d \in Caller : call'[d].pc = "idle"
  BY <1>1, <1>2 DEF StateInv, CallInv, NoCall
<1>4. CallInv' BY <1>3 DEF CallInv
<1>5. KillInv' BY <1>3 DEF KillInv
<1>6. TimersInv'
  <2>1. CASE UNCHANGED timer BY <1>1, <2>1 DEF StateInv, TimersInv, Alive
  <2>2. ASSUME NEW t \in Timer, call[c].orders # << >>,
               timer' = [timer EXCEPT ![t] = NewTimer(call[c].orders)]
        PROVE  TimersInv'
    <3>1. call[c].orders \in OrderLists BY <1>1 DEF StateInv, CallInv
    <3>2. /\ Fields(NewTimer(call[c].orders)) /\ LiveInv(NewTimer(call[c].orders), now)
          /\ NewTimer(call[c].orders).pc = "start"
      BY <2>2, <3>1, NewLive DEF StateInv
    <3> QED BY <1>1, <2>2, <3>2, OneRecord DEF StateInv
  <2> QED BY <2>1, <2>2 DEF Unlock
<1> QED BY <1>1, <1>4, <1>5, <1>6 DEF StateInv

LEMMA ChooseKeeps == ASSUME StateInv, TimerInv', NEW t \in Timer, Choose(t) PROVE StateInv'
<1> DEFINE r == timer[t]
           when == [g \in 1 .. Len(r.orders) |-> WouldRun(r, g)]
           s == [r EXCEPT !.last[Best(when)] = when[Best(when)],
                          !.todo = {[at |-> when[g], group |-> g] : g \in Batch(when)}]
           n == IF r.pc = "start" THEN Going(s) ELSE [s EXCEPT !.pc = "look"]
<1>1. /\ r.pc \in {"start", "choose"} /\ timer' = [timer EXCEPT ![t] = n]
      /\ UNCHANGED << now, call, lock, current, killed, confirmed >>
  BY DEF Choose
<1>2. Alive(t) BY <1>1 DEF Alive
<1>3. Fields(r) /\ LiveInv(r, now) BY <1>2 DEF StateInv, TimersInv
<1>4. now \in Nat /\ r.todo = {} BY <1>1, <1>3 DEF StateInv, LiveInv, PcInv
<1>5. /\ Fields(s) /\ RecordInv(s) /\ TurnsInv(s, now) /\ TodoInv(s, now) /\ s.todo # {}
      /\ s.nap = r.nap /\ s.orders = r.orders
  <2> HIDE DEF r
  <2> QED BY <1>3, <1>4, ChosenLive
<1> HIDE DEF s
<1>6. CASE r.pc = "start"
  <2>1. n = Going(s) BY <1>6
  <2>2. Fields(n) /\ LiveInv(n, now) /\ n.nap = now BY <1>4, <1>5, <2>1, GoingLive
  <2>3. n.pc \in {"nap", "run"} BY <1>5, <2>1, GoingIs
  <2> HIDE DEF n
  <2>4. now' \in Nat /\ now' >= now /\ LiveInv(n, now') BY <1>1, <1>4, <2>2
  <2>5. n.pc \notin {"none", "dead"} /\ n.pc # "start" BY <2>3
  <2> QED BY <1>1, <1>2, <1>6, <2>2, <2>4, <2>5, TimerStep
<1>7. CASE r.pc = "choose"
  <2>1. n = [s EXCEPT !.pc = "look"] BY <1>7
  <2> HIDE DEF n
  <2>2. n = [pc |-> "look", orders |-> s.orders, start |-> s.start, last |-> s.last,
             todo |-> s.todo, nap |-> s.nap, turn |-> s.turn]
    BY <1>5, <2>1 DEF Fields
  <2>3. /\ n.pc = "look" /\ n.orders = s.orders /\ n.start = s.start /\ n.last = s.last
        /\ n.todo = s.todo /\ n.nap = s.nap /\ n.turn = s.turn
    BY <2>2
  <2>4. Fields(n) BY <2>2, <2>3 DEF Fields
  <2>5. RecordInv(n) BY <1>5, <2>3 DEF RecordInv, Groups
  <2>6. TurnsInv(n, now) BY <1>5, <2>3 DEF TurnsInv, Groups, AtSlot
  <2>7. TodoInv(n, now) BY <1>5, <2>3 DEF TodoInv, AtSlot
  <2>8. PcInv(n, now)
    <3>1. /\ r.nap <= now
          /\ now <= r.nap + DozeDur + CheckDur + MaxLate + Len(r.orders)
      BY <1>3, <1>7 DEF LiveInv, PcInv
    <3> HIDE DEF r
    <3> QED BY <1>5, <2>3, <3>1 DEF PcInv
  <2>9. LiveInv(n, now) /\ n.nap = r.nap BY <1>5, <2>3, <2>5, <2>6, <2>7, <2>8 DEF LiveInv
  <2>10. now' \in Nat /\ now' >= now /\ LiveInv(n, now') BY <1>1, <1>4, <2>9
  <2>11. n.pc \notin {"none", "dead"} /\ n.pc # "start" BY <2>3
  <2> QED BY <1>1, <1>2, <1>7, <2>4, <2>9, <2>10, <2>11, TimerStep
<1> QED BY <1>1, <1>6, <1>7

LEMMA HeedKeeps ==
  ASSUME StateInv, TimerInv', NEW t \in Timer, timer[t].pc \in {"look", "nap"}, HeedOrGoOn(t)
  PROVE  StateInv'
<1>1. Alive(t) BY DEF Alive
<1>2. Fields(timer[t]) /\ LiveInv(timer[t], now) /\ now \in Nat
  BY <1>1 DEF StateInv, TimersInv
<1>3. CASE t \in killed BY <1>1, <1>3, EndStep DEF HeedOrGoOn
<1>4. CASE t \notin killed
  <2> DEFINE n == Going(timer[t])
  <2>1. timer' = [timer EXCEPT ![t] = n] /\ UNCHANGED << now, call, lock, current, killed, confirmed >>
    BY <1>4 DEF HeedOrGoOn, StateInv, TimerInv, Shape
  <2>2. timer[t].todo # {} BY <1>2 DEF LiveInv, PcInv
  <2>3. Fields(n) /\ LiveInv(n, now) BY <1>2, <2>2, GoingLive DEF LiveInv
  <2>4. n.pc \in {"nap", "run"} BY <1>2, GoingIs
  <2> HIDE DEF n
  <2>5. now' \in Nat /\ now' >= now /\ LiveInv(n, now') BY <1>2, <2>1, <2>3
  <2>6. n.pc \notin {"none", "dead"} /\ n.pc # "start" BY <2>4
  <2> QED BY <1>1, <1>4, <2>1, <2>3, <2>5, <2>6, TimerStep
<1> QED BY <1>3, <1>4

LEMMA SendKeeps == ASSUME StateInv, TimerInv', NEW t \in Timer, Send(t) PROVE StateInv'
<1> DEFINE n == Sent(timer[t])
<1>1. /\ timer[t].pc = "run" /\ now >= Soonest(timer[t]).at /\ now' = now + 1
      /\ timer' = [timer EXCEPT ![t] = n]
      /\ UNCHANGED << call, lock, current, killed, confirmed >>
  BY DEF Send
<1>2. Alive(t) BY <1>1 DEF Alive
<1>3. Fields(timer[t]) /\ LiveInv(timer[t], now) /\ now \in Nat
  BY <1>2 DEF StateInv, TimersInv
<1>4. /\ Fields(n) /\ LiveInv(n, now + 1) /\ n.nap = timer[t].nap /\ n.pc \in {"run", "choose"}
  BY <1>1, <1>3, SentLive
<1> HIDE DEF n
<1>5. now' \in Nat /\ now' >= now BY <1>1, <1>3
<1> QED BY <1>1, <1>2, <1>4, <1>5, TimerStep

LEMMA TickKeeps == ASSUME StateInv, TimerInv', Tick PROVE StateInv'
<1>1. now \in Nat /\ now' = now + 1 /\ UNCHANGED << call, lock, current, timer, killed, confirmed >>
  BY DEF Tick, StateInv
<1>2. ASSUME NEW t \in Timer, Alive(t) PROVE LiveInv(timer[t], now + 1)
  <2> DEFINE r == timer[t]
  <2>1. /\ r.pc \notin {"start", "choose", "look"}
        /\ r.pc = "nap" => now < r.nap + NapDur + MaxLate
        /\ r.pc = "run" => now < Soonest(r).at + MaxLate
    BY DEF Tick
  <2>2. LiveInv(r, now) BY <1>2 DEF StateInv, TimersInv
  <2> HIDE DEF r
  <2>3. LiveInv(r, now + 1) BY <1>1, <2>1, <2>2, TickLive
  <2> QED BY <2>3 DEF r
<1>3. TimersInv' BY <1>1, <1>2 DEF StateInv, TimersInv, Alive
<1>4. CallInv' BY <1>1 DEF StateInv, CallInv
<1>5. KillInv'
  <2> SUFFICES ASSUME NEW c \in Caller, call[c].pc = "killing", ~ Heard
               PROVE  /\ current \in killed /\ call[c].since <= now + 1
                      /\ timer[current].pc # "start" /\ timer[current].nap <= call[c].since
    BY <1>1 DEF KillInv, Heard, Alive
  <2>1. current \in Timer BY DEF Heard, StateInv, TimerInv
  <2>2. timer[current].pc # "start" BY <2>1 DEF Tick
  <2>3. call[c].since \in Nat /\ call[c].since <= now BY DEF StateInv, CallInv, KillInv
  <2>4. call[c].since <= now + 1 BY <1>1, <2>3
  <2> QED BY <2>2, <2>4 DEF StateInv, KillInv
<1> QED BY <1>1, <1>3, <1>4, <1>5 DEF StateInv

LEMMA StateInvNext == StateInv /\ [Next]_vars => StateInv'
<1> SUFFICES ASSUME StateInv, [Next]_vars PROVE StateInv' OBVIOUS
<1>1. TimerInv' BY TimerInvNext DEF StateInv
<1>2. ASSUME NEW c \in Caller, SetOrders(c) \/ Kill(c) \/ Unlock(c) PROVE StateInv'
  BY <1>1, <1>2, SetOrdersKeeps, KillKeeps, UnlockKeeps
<1>3. ASSUME NEW t \in Timer, Choose(t) \/ Send(t) PROVE StateInv'
  BY <1>1, <1>3, ChooseKeeps, SendKeeps
<1>4. ASSUME NEW t \in Timer, Look(t) \/ NapOver(t) PROVE StateInv'
  BY <1>1, <1>4, HeedKeeps DEF Look, NapOver
<1>5. ASSUME NEW t \in Timer, Panic(t) PROVE StateInv'
  BY <1>1, <1>5, EndStep DEF Panic, Alive
<1>6. CASE Tick BY <1>1, <1>6, TickKeeps
<1>7. CASE UNCHANGED vars
  BY <1>1, <1>7 DEF vars, StateInv, TimersInv, CallInv, KillInv, Heard, Alive
<1> QED BY <1>2, <1>3, <1>4, <1>5, <1>6, <1>7 DEF Next

LEMMA StateInvAlways == Spec => []StateInv
BY StateInvInit, StateInvNext, PTL DEF Spec

-----------------------------------------------------------------------------
\* A group's turns are at least its rate apart, for any orders and however late the thread
\* wakes, though only the first group of a batch is marked: what was taken is a slot that is
\* over, and the next turn is a slot that is not.
THEOREM TurnsApartAlways == Spec => []TurnsApart
<1>1. StateInv => TurnsApart
  <2> SUFFICES ASSUME StateInv, NEW t \in Timer, NEW x \in timer[t].todo,
                      timer[t].turn[x.group] # Never
               PROVE  x.at >= timer[t].turn[x.group] + timer[t].orders[x.group].rate
    BY DEF TurnsApart
  <2>1. Alive(t) BY DEF StateInv, TimersInv
  <2> QED BY <2>1 DEF StateInv, TimersInv, LiveInv, TodoInv
<1> QED BY <1>1, StateInvAlways, PTL

\* Turns keep to the times their orders were set for, and are late by no more than the
\* thread itself and the turns sent with them, for any orders: delays do not add up.
THEOREM OnTimeAlways == Spec => []OnTime
<1>1. StateInv => OnTime
  <2> SUFFICES ASSUME StateInv, NEW t \in Timer, NEW x \in timer[t].todo
               PROVE  LET r == timer[t]
                          g == r.orders[x.group]
                      IN /\ (x.at - r.start - g.offset) % g.rate = 0
                         /\ now <= x.at + MaxLate + Len(r.orders) - 1
    BY DEF OnTime
  <2> DEFINE r == timer[t]
             g == r.orders[x.group]
  <2>1. Alive(t) BY DEF StateInv, TimersInv
  <2>2. LiveInv(r, now) BY <2>1 DEF StateInv, TimersInv
  <2>3. /\ x.at \in Nat /\ x.group \in Groups(r) /\ AtSlot(r, x.group, x.at)
        /\ now <= x.at + MaxLate + Len(r.orders) - Cardinality(r.todo)
        /\ r.start \in Nat /\ now \in Nat
    BY <2>2 DEF StateInv, LiveInv, RecordInv, TodoInv
  <2>4. /\ Len(r.orders) \in Nat /\ g.rate \in Nat /\ g.rate > 0 /\ g.offset \in Nat
        /\ r.start + g.offset \in Nat
    BY <2>2, <2>3, Orders DEF LiveInv
  <2>5. IsFiniteSet(r.todo) /\ Cardinality(r.todo) \in Nat BY <2>2, FewTurns DEF LiveInv, TodoInv
  <2>6. Cardinality(r.todo) # 0 BY <2>5, FS_EmptySet
  <2>7. (x.at - (r.start + g.offset)) % g.rate = 0
    <3> HIDE DEF r, g
    <3> QED BY <2>3, <2>4, SlotRemainder DEF AtSlot, g
  <2> HIDE DEF r, g
  <2>8. x.at - r.start - g.offset = x.at - (r.start + g.offset) BY <2>3, <2>4
  <2>9. now <= x.at + MaxLate + Len(r.orders) - 1
    <3>1. x.at \in Nat /\ now \in Nat /\ Len(r.orders) \in Nat BY <2>3, <2>4
    <3>2. Cardinality(r.todo) >= 1 BY <2>5, <2>6
    <3>3. now <= x.at + MaxLate + Len(r.orders) - Cardinality(r.todo) BY <2>3
    <3> QED BY <2>5, <3>1, <3>2, <3>3, Durations
  <2> QED BY <2>7, <2>8, <2>9 DEF r, g
<1> QED BY <1>1, StateInvAlways, PTL

\* However set_orders and on_kill are called, a kill is heeded within the time of one batch
\* and what may lie before it unwatched, for any orders and any durations the code could
\* have been given.
THEOREM KillPromptAlways == Spec => []KillPrompt
<1>1. StateInv => KillPrompt
  <2> SUFFICES ASSUME StateInv, NEW c \in Caller, call[c].pc = "killing", ~ Heard
               PROVE  now - call[c].since <=
                        DozeDur + CheckDur + MaxLate + Len(timer[current].orders)
    BY DEF KillPrompt
  <2> DEFINE r == timer[current]
             since == call[c].since
             n == Len(r.orders)
  <2>1. current \in Timer /\ Alive(current) BY DEF Heard, StateInv, TimerInv
  <2>2. LiveInv(r, now) /\ now \in Nat BY <2>1 DEF StateInv, TimersInv
  <2>3. /\ since \in Nat /\ since <= now
        /\ IF r.pc = "start" THEN since = now ELSE r.nap <= since
    BY DEF StateInv, CallInv, KillInv
  <2>4. n \in Nat BY <2>2, Orders DEF LiveInv
  <2>5. /\ \A x \in r.todo : now <= x.at + MaxLate + n - Cardinality(r.todo)
        /\ r.pc \in {"choose", "look"} =>
             now <= r.nap + DozeDur + CheckDur + MaxLate + n
    BY <2>2 DEF LiveInv, TodoInv, PcInv
  <2> HIDE DEF r, since, n
  <2>6. /\ n \in Nat /\ r.nap \in Nat /\ since \in Nat /\ now \in Nat
        /\ MaxLate \in Nat /\ CheckDur \in Nat /\ DozeDur \in Nat /\ NapDur <= DozeDur /\ NapDur \in Nat
    BY <2>2, <2>3, <2>4, Durations DEF LiveInv, RecordInv
  <2>7. r.pc \in {"start", "choose", "look", "nap", "run"} BY <2>2 DEF LiveInv, RecordInv
  <2>8. now - since <= DozeDur + CheckDur + MaxLate + n
    <3>1. CASE r.pc = "start"
      <4>1. since = now BY <2>3, <3>1
      <4> QED BY <2>6, <4>1
    <3>2. CASE r.pc = "nap"
      <4>1. now <= r.nap + NapDur + MaxLate BY <2>2, <3>2 DEF LiveInv, PcInv
      <4>2. r.nap <= since BY <2>3, <3>2
      <4> QED BY <2>6, <4>1, <4>2
    <3>3. CASE r.pc = "run"
      <4>1. PICK x \in r.todo : TRUE BY <2>2, <3>3 DEF LiveInv, PcInv
      <4>2. x.at \in Nat /\ x.at < r.nap + DozeDur + CheckDur
        BY <2>2, <3>3 DEF LiveInv, PcInv, RecordInv
      <4>3. now <= x.at + MaxLate + n - Cardinality(r.todo)
        BY <2>5
      <4>4. Cardinality(r.todo) \in Nat BY <2>2, FewTurns DEF LiveInv, TodoInv
      <4>5. now <= x.at + MaxLate + n BY <2>2, <2>6, <4>2, <4>3, <4>4, Durations
      <4>6. r.nap <= since BY <2>3, <3>3
      <4> QED BY <2>6, <4>2, <4>5, <4>6
    <3>4. CASE r.pc \in {"choose", "look"}
      <4>1. now <= r.nap + DozeDur + CheckDur + MaxLate + n
        BY <2>5, <3>4
      <4>2. r.nap <= since BY <2>3, <3>4
      <4> QED BY <2>6, <4>1, <4>2
    <3> QED BY <2>7, <3>1, <3>2, <3>3, <3>4
  <2> QED BY <2>8 DEF r, since, n
<1> QED BY <1>1, StateInvAlways, PTL

=============================================================================
