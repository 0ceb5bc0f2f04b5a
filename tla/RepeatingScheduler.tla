------------------------- MODULE RepeatingScheduler -------------------------
(***************************************************************************)
(* The repeating scheduler (src/src/threads/repeating_scheduler.rs): one   *)
(* timer thread that sends hardware reads, each group of orders at its own *)
(* rate.  Setting new orders, or ending the OpMode, kills the timer thread *)
(* and waits, under the mutex of REP_SCHED, until it confirms; every timer *)
(* thread has channels of its own for that.                                *)
(*                                                                         *)
(* Time is counted in ticks.  A group's turn is taken at a slot, one of    *)
(* start + offset + k * rate.  In its turn an order may still keep silent  *)
(* (Order::send, if its device asked for a pause); the timer goes on just  *)
(* the same.                                                               *)
(***************************************************************************)
EXTENDS Integers, Sequences, FiniteSets

CONSTANTS
  Caller,      \* threads that call set_orders or, as the OpMode ends, on_kill
  OrderLists,  \* lists of groups [offset, rate] that they may set; << >> is none
  MaxTimers,   \* environment: bound on the timer threads started
  CheckDur,    \* CAREFUL_CHECK_DUR
  DropDur,     \* CAREFUL_DROP_DUR
  DozeDur,     \* 10 ms: how far ahead the timer thread looks for a kill
  NapDur,      \* 5 ms: how long it naps between two looks
  MaxLate,     \* environment: ticks a sleeping thread may wake late
  MaxPanics,   \* environment: bound on the timer threads that die of a panic
  Horizon,     \* bound on the time
  Few          \* slots a group may miss in a row

Timer == 1 .. MaxTimers
Never == -1

ASSUME TimerAssumption ==
  /\ MaxTimers \in Nat /\ MaxLate \in Nat /\ MaxPanics \in Nat /\ Horizon \in Nat /\ Few \in Nat
  /\ CheckDur \in Nat \ {0} /\ DropDur \in Nat /\ DozeDur \in Nat /\ NapDur \in Nat \ {0}
  /\ NapDur <= DozeDur
  /\ OrderLists \subseteq Seq([offset : Nat, rate : Nat])
  /\ \A o \in OrderLists : \A g \in 1 .. Len(o) : o[g].rate >= 2 * CheckDur

VARIABLES
  now,         \* Instant::now()
  call,        \* the call each caller is in: [pc, orders, since]
  lock,        \* REP_SCHED is locked
  current,     \* the timer whose channels REP_SCHED holds; 0 if they are two ends of one
  timer,       \* the timer threads: [pc, orders, start, last, todo, nap, turn]
  killed,      \* timers with a kill in their channel
  confirmed,   \* timers that have confirmed it
  panics       \* timers that died of a panic

vars == << now, call, lock, current, timer, killed, confirmed, panics >>

NoCall  == [pc |-> "idle", orders |-> << >>, since |-> 0]
NoTimer == [pc |-> "none", orders |-> << >>, start |-> 0, last |-> << >>, todo |-> {},
            nap |-> 0, turn |-> << >>]
Dead    == [NoTimer EXCEPT !.pc = "dead"]

Alive(t) == timer[t].pc \notin {"none", "dead"}

Init ==
  /\ now = 0
  /\ call = [c \in Caller |-> NoCall]
  /\ lock = FALSE
  /\ current = 0
  /\ timer = [t \in Timer |-> NoTimer]
  /\ killed = {} /\ confirmed = {}
  /\ panics = 0

-----------------------------------------------------------------------------
(* set_orders and kill_and_wait.                                           *)

\* Lock REP_SCHED.  Orders the code refuses (too many, too fast) change nothing.
SetOrders(c) ==
  /\ call[c].pc = "idle" /\ ~ lock
  /\ \E o \in OrderLists : call' = [call EXCEPT ![c] = [pc |-> "locked", orders |-> o, since |-> 0]]
  /\ lock' = TRUE
  /\ UNCHANGED << now, current, timer, killed, confirmed, panics >>

\* Send the kill; a channel without a timer at its end gives it back.
Kill(c) ==
  /\ call[c].pc = "locked"
  /\ killed' = IF current = 0 THEN killed ELSE killed \cup {current}
  /\ call' = [call EXCEPT ![c].pc = "killing", ![c].since = now]
  /\ UNCHANGED << now, lock, current, timer, confirmed, panics >>

\* Mutant: the caller does not wait for the timer to confirm.
HeardAlways == TRUE

\* recv returns: a confirmation, the caller's own message, or an error, as the timer
\* thread is gone.
Heard == current # 0 => current \in confirmed \/ ~ Alive(current)

NewTimer(o) ==
  [pc |-> "start", orders |-> o, start |-> now, last |-> [g \in 1 .. Len(o) |-> Never],
   todo |-> {}, nap |-> 0, turn |-> [g \in 1 .. Len(o) |-> Never]]

\* The next timer thread to be started.
Fresh(t) == timer[t].pc = "none" /\ \A u \in Timer : timer[u].pc = "none" => t <= u

\* Leave REP_SCHED with no timer, or start one with the orders; unlock.
Unlock(c) ==
  /\ call[c].pc = "killing" /\ Heard
  /\ \/ call[c].orders = << >> /\ current' = 0 /\ UNCHANGED timer
     \/ /\ call[c].orders # << >>
        /\ \E t \in Timer : /\ Fresh(t)
                           /\ current' = t
                           /\ timer' = [timer EXCEPT ![t] = NewTimer(call[c].orders)]
  /\ lock' = FALSE
  /\ call' = [call EXCEPT ![c] = NoCall]
  /\ UNCHANGED << now, killed, confirmed, panics >>

-----------------------------------------------------------------------------
(* The timer thread.                                                       *)

\* Mutant: the turn is taken at once and the next a rate after it.
FirstSlotNow(base, rate) == IF base >= now THEN base ELSE now

\* The first slot from base on that is not over.
FirstSlot(base, rate) ==
  IF base >= now THEN base ELSE base + rate * ((now - base + rate - 1) \div rate)

\* Mutant: slots that are over are not passed over.
WouldRunLate(r, g) ==
  IF r.last[g] = Never THEN r.start + r.orders[g].offset ELSE r.last[g] + r.orders[g].rate

WouldRun(r, g) ==
  FirstSlot(IF r.last[g] = Never THEN r.start + r.orders[g].offset
                                 ELSE r.last[g] + r.orders[g].rate,
            r.orders[g].rate)

\* The group whose turn comes first, the first of them in the list if several do.
Best(when) ==
  CHOOSE g \in DOMAIN when : \A h \in DOMAIN when : when[g] < when[h] \/ (when[g] = when[h] /\ g <= h)

\* The groups whose turns follow within CheckDur, the best among them.
Near(when) == {g \in DOMAIN when : when[g] < when[Best(when)] + CheckDur}

\* No turn before g's in the sequence is followed by a gap of more than DropDur.
Linked(when, g) ==
  \A h \in Near(when) :
    when[h] < when[g] => \E k \in Near(when) : when[h] < when[k] /\ when[k] <= when[h] + DropDur

\* The turns to take in one go: those before the first gap; without a gap, only the best.
Batch(when) ==
  IF \A g \in Near(when) : Linked(when, g) THEN {Best(when)}
  ELSE {g \in Near(when) : Linked(when, g)}

\* The earliest turn to take.
Soonest(r) ==
  CHOOSE x \in r.todo : \A y \in r.todo : x.at < y.at \/ (x.at = y.at /\ x.group <= y.group)

\* Go on with the turns to take, by naps as long as they are far ahead.
Going(r) ==
  [r EXCEPT !.pc = IF Soonest(r).at - now > DozeDur THEN "nap" ELSE "run", !.nap = now]

\* get_next_timer: what is next; only the best group is marked as scheduled.
Choose(t) ==
  LET r    == timer[t]
      when == [g \in 1 .. Len(r.orders) |-> WouldRun(r, g)]
      s    == [r EXCEPT !.last[Best(when)] = when[Best(when)],
                        !.todo = {[at |-> when[g], group |-> g] : g \in Batch(when)}]
  IN
    /\ r.pc \in {"start", "choose"}
    /\ timer' = [timer EXCEPT ![t] = IF r.pc = "start" THEN Going(s) ELSE [s EXCEPT !.pc = "look"]]
    /\ UNCHANGED << now, call, lock, current, killed, confirmed, panics >>

\* try_recv on the kill channel: confirm and return, or go on.
HeedOrGoOn(t) ==
  /\ IF t \in killed
       THEN /\ timer' = [timer EXCEPT ![t] = Dead]
            /\ killed' = killed \ {t}
            /\ confirmed' = confirmed \cup {t}
       ELSE /\ timer' = [timer EXCEPT ![t] = Going(@)]
            /\ UNCHANGED << killed, confirmed >>
  /\ UNCHANGED << now, call, lock, current, panics >>

\* Mutant: a kill is only looked for after naps.
LookNot(t) ==
  /\ timer[t].pc = "look"
  /\ timer' = [timer EXCEPT ![t] = Going(@)]
  /\ UNCHANGED << now, call, lock, current, killed, confirmed, panics >>

\* Look for a kill after each get_next_timer but the first ...
Look(t) == timer[t].pc = "look" /\ HeedOrGoOn(t)

\* ... and after each nap.
NapOver(t) == timer[t].pc = "nap" /\ now >= timer[t].nap + NapDur /\ HeedOrGoOn(t)

\* The next turn is taken.
Sent(r) ==
  LET x == Soonest(r) IN
    [r EXCEPT !.todo = @ \ {x}, !.turn[x.group] = x.at,
              !.pc = IF r.todo = {x} THEN "choose" ELSE "run"]

\* Take the next turn; that takes a tick.
Send(t) ==
  /\ timer[t].pc = "run" /\ now < Horizon
  /\ now >= Soonest(timer[t]).at
  /\ timer' = [timer EXCEPT ![t] = Sent(@)]
  /\ now' = now + 1
  /\ UNCHANGED << call, lock, current, killed, confirmed, panics >>

\* An order's action panics; the thread is gone and has confirmed nothing.
Panic(t) ==
  /\ timer[t].pc = "run" /\ now >= Soonest(timer[t]).at
  /\ panics < MaxPanics
  /\ panics' = panics + 1
  /\ timer' = [timer EXCEPT ![t] = Dead]
  /\ UNCHANGED << now, call, lock, current, killed, confirmed >>

\* Time passes; sleepers wake in time, or a little late.  A caller that holds the lock is
\* only kept waiting by the timer thread (to be slow there is to take the lock later).
Tick ==
  /\ now < Horizon
  /\ \A t \in Timer :
       /\ timer[t].pc \notin {"start", "choose", "look"}
       /\ timer[t].pc = "nap" => now < timer[t].nap + NapDur + MaxLate
       /\ timer[t].pc = "run" => now < Soonest(timer[t]).at + MaxLate
  /\ \A c \in Caller : call[c].pc = "idle" \/ (call[c].pc = "killing" /\ ~ Heard)
  /\ now' = now + 1
  /\ UNCHANGED << call, lock, current, timer, killed, confirmed, panics >>

-----------------------------------------------------------------------------
Next ==
  \/ \E c \in Caller : SetOrders(c) \/ Kill(c) \/ Unlock(c)
  \/ \E t \in Timer : Choose(t) \/ Look(t) \/ NapOver(t) \/ Send(t) \/ Panic(t)
  \/ Tick

Spec == Init /\ [][Next]_vars

-----------------------------------------------------------------------------
(* Properties.                                                             *)

\* At no time do two timer threads send, and none does once kill_and_wait has returned
\* and no orders were set: the wait is for the right thread, whoever sets orders or ends
\* the OpMode at the same time, and a thread that panicked does not spoil it.
OnlyCurrent == \A t \in Timer : Alive(t) => t = current

\* The turns a group takes are at least its rate apart, though get_next_timer marks only
\* the first group of a batch as scheduled: the others' slots are over by the time it
\* looks again (repeating_scheduler.rs:161, 236).
TurnsApart ==
  \A t \in Timer : \A x \in timer[t].todo :
    LET r == timer[t] IN
      r.turn[x.group] # Never => x.at >= r.turn[x.group] + r.orders[x.group].rate

\* Turns keep to the times the orders were set for, however late the thread woke for those
\* before and however many were passed over, and none is later than its own sleeper and the
\* turns sent with it: delays do not add up ("We'd rather miss a few and stay on time",
\* repeating_scheduler.rs:160).
OnTime ==
  \A t \in Timer : \A x \in timer[t].todo :
    LET r == timer[t]
        g == r.orders[x.group]
    IN /\ (x.at - r.start - g.offset) % g.rate = 0
       /\ now <= x.at + MaxLate + Len(r.orders) - 1

\* A kill is heeded within the time of one batch and what may lie before it unwatched
\* ("limit the worst case time it takes to reset", repeating_scheduler.rs:194).
KillPrompt ==
  \A c \in Caller : call[c].pc = "killing" /\ ~ Heard =>
    now - call[c].since <= DozeDur + CheckDur + MaxLate + Len(timer[current].orders)

\* "We'd rather miss a few and stay on time" (repeating_scheduler.rs:160): no group misses
\* more than a few of its turns in a row.
FewMissed ==
  \A t \in Timer : Alive(t) => \A g \in DOMAIN timer[t].turn :
    LET r    == timer[t]
        last == IF r.turn[g] = Never THEN r.start + r.orders[g].offset ELSE r.turn[g]
    IN now <= last + (Few + 1) * r.orders[g].rate + CheckDur

=============================================================================
