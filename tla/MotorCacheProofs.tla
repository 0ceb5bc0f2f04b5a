-------------------------- MODULE MotorCacheProofs --------------------------
(***************************************************************************)
(* Theorems about MotorCache where each motor has at most one thread that  *)
(* commands it, for any number of motors and threads, any powers and any   *)
(* threshold.                                                              *)
(*                                                                         *)
(* What is on its way to a motor is the last command for it in the channel *)
(* or in the batch its thread prepares: Ahead relates that power to the    *)
(* cache, and Meant relates the cache to what was asked for.               *)
(***************************************************************************)
EXTENDS MotorCache, SequenceTheorems, TLAPS

\* Each motor has at most one thread that commands it.
Disjoint ==
  \A i \in Instances : \A t, u \in Thread : t # u => i.team[t] \cap i.team[u] = {}

-----------------------------------------------------------------------------
(* The last command for a motor in a sequence of them.                     *)

\* x is in c, and no later one is for the same motor.
LastFor(c, x) ==
  \E i \in 1 .. Len(c) : c[i] = x /\ \A j \in 1 .. Len(c) : j > i => c[j].motor # x.motor

None(c, m) == \A i \in 1 .. Len(c) : c[i].motor # m

\* The last command for its motor is the one just appended.
LEMMA AppendedIsLast ==
  ASSUME NEW S, NEW c \in Seq(S), NEW x \in S
  PROVE  LastFor(Append(c, x), x)
<1>1. Append(c, x)[Len(c) + 1] = x /\ Len(Append(c, x)) = Len(c) + 1 OBVIOUS
<1>2. Len(c) \in Nat OBVIOUS
<1> QED BY <1>1, <1>2 DEF LastFor

\* A command for another motor changes neither.
LEMMA AppendedElsewhere ==
  ASSUME NEW S, NEW c \in Seq(S), NEW x \in S, NEW y, x.motor # y.motor
  PROVE  /\ LastFor(c, y) => LastFor(Append(c, x), y)
         /\ None(c, y.motor) => None(Append(c, x), y.motor)
<1> DEFINE d == Append(c, x)
<1>1. Len(c) \in Nat /\ Len(d) = Len(c) + 1 /\ d[Len(c) + 1] = x OBVIOUS
<1>2. \A i \in 1 .. Len(c) : d[i] = c[i] OBVIOUS
<1>3. \A i \in 1 .. Len(d) : i \in 1 .. Len(c) \/ i = Len(c) + 1 BY <1>1
<1>4. 1 .. Len(c) \subseteq 1 .. Len(d) BY <1>1
<1> HIDE DEF d
<1>5. LastFor(c, y) => LastFor(d, y)
  <2> SUFFICES ASSUME LastFor(c, y) PROVE LastFor(d, y) OBVIOUS
  <2>1. PICK i \in 1 .. Len(c) : c[i] = y /\ \A j \in 1 .. Len(c) : j > i => c[j].motor # y.motor
    BY DEF LastFor
  <2> QED BY <2>1, <1>1, <1>2, <1>3, <1>4 DEF LastFor
<1>6. None(c, y.motor) => None(d, y.motor) BY <1>1, <1>2, <1>3 DEF None
<1> QED BY <1>5, <1>6 DEF d

\* Commands sent after others.
LEMMA Concatenated ==
  ASSUME NEW S, NEW c \in Seq(S), NEW d \in Seq(S), NEW x
  PROVE  /\ LastFor(d, x) => LastFor(c \o d, x)
         /\ LastFor(c, x) /\ None(d, x.motor) => LastFor(c \o d, x)
         /\ None(c, x.motor) /\ None(d, x.motor) => None(c \o d, x.motor)
<1> DEFINE e == c \o d
<1>1. Len(c) \in Nat /\ Len(d) \in Nat /\ Len(e) = Len(c) + Len(d) OBVIOUS
<1>2. \A i \in 1 .. Len(c) : e[i] = c[i] OBVIOUS
<1>3. \A i \in 1 .. Len(d) : e[Len(c) + i] = d[i] OBVIOUS
<1>4. \A i \in 1 .. Len(e) : \/ i \in 1 .. Len(c)
                             \/ i > Len(c) /\ i - Len(c) \in 1 .. Len(d) /\ e[i] = d[i - Len(c)]
  <2> TAKE i \in 1 .. Len(e)
  <2>1. CASE i <= Len(c) BY <2>1, <1>1
  <2>2. CASE i > Len(c)
    <3>1. i - Len(c) \in 1 .. Len(d) BY <2>2, <1>1
    <3>2. Len(c) + (i - Len(c)) = i BY <1>1
    <3> QED BY <2>2, <3>1, <3>2, <1>3
  <2> QED BY <2>1, <2>2, <1>1
<1>5. 1 .. Len(c) \subseteq 1 .. Len(e) BY <1>1
<1>6. \A i \in 1 .. Len(d) : Len(c) + i \in 1 .. Len(e) BY <1>1
<1> HIDE DEF e
<1>7. LastFor(d, x) => LastFor(e, x)
  <2> SUFFICES ASSUME LastFor(d, x) PROVE LastFor(e, x) OBVIOUS
  <2>1. PICK i \in 1 .. Len(d) : d[i] = x /\ \A j \in 1 .. Len(d) : j > i => d[j].motor # x.motor
    BY DEF LastFor
  <2>2. e[Len(c) + i] = x BY <2>1, <1>3
  <2>3. \A j \in 1 .. Len(e) : j > Len(c) + i => e[j].motor # x.motor
    <3> SUFFICES ASSUME NEW j \in 1 .. Len(e), j > Len(c) + i PROVE e[j].motor # x.motor OBVIOUS
    <3>1. j - Len(c) \in 1 .. Len(d) /\ e[j] = d[j - Len(c)] BY <1>1, <1>4
    <3>2. j - Len(c) > i BY <1>1
    <3> QED BY <3>1, <3>2, <2>1
  <2> QED BY <2>2, <2>3, <1>6 DEF LastFor
<1>8. LastFor(c, x) /\ None(d, x.motor) => LastFor(e, x)
  <2> SUFFICES ASSUME LastFor(c, x), None(d, x.motor) PROVE LastFor(e, x) OBVIOUS
  <2>1. PICK i \in 1 .. Len(c) : c[i] = x /\ \A j \in 1 .. Len(c) : j > i => c[j].motor # x.motor
    BY DEF LastFor
  <2>2. \A j \in 1 .. Len(e) : j > i => e[j].motor # x.motor BY <2>1, <1>2, <1>4 DEF None
  <2> QED BY <2>1, <2>2, <1>2, <1>5 DEF LastFor
<1>9. None(c, x.motor) /\ None(d, x.motor) => None(e, x.motor) BY <1>2, <1>4 DEF None
<1> QED BY <1>7, <1>8, <1>9 DEF e

\* The first command is carried out.
LEMMA CarriedOut ==
  ASSUME NEW S, NEW c \in Seq(S), c # << >>, NEW x
  PROVE  /\ LastFor(c, x) => \/ LastFor(Tail(c), x)
                             \/ None(Tail(c), x.motor) /\ Head(c) = x
         /\ None(c, x.motor) => None(Tail(c), x.motor) /\ Head(c).motor # x.motor
<1> DEFINE d == Tail(c)
<1>1. /\ d \in Seq(S) /\ Len(c) \in Nat /\ Len(c) > 0 /\ Len(d) = Len(c) - 1
      /\ \A i \in 1 .. Len(d) : d[i] = c[i + 1]
      /\ Head(c) = c[1]
  BY EmptySeq, HeadTailProperties
<1>2. \A i \in 1 .. Len(d) : i + 1 \in 1 .. Len(c) BY <1>1
<1>3. 1 \in 1 .. Len(c) BY <1>1
<1>4. \A i \in 1 .. Len(c) : i > 1 => i - 1 \in 1 .. Len(d) /\ d[i - 1] = c[i]
  <2> SUFFICES ASSUME NEW i \in 1 .. Len(c), i > 1 PROVE i - 1 \in 1 .. Len(d) /\ d[i - 1] = c[i]
    OBVIOUS
  <2>1. i - 1 \in 1 .. Len(d) /\ (i - 1) + 1 = i BY <1>1
  <2> QED BY <2>1, <1>1
<1> HIDE DEF d
<1>5. None(c, x.motor) => None(d, x.motor) /\ Head(c).motor # x.motor
  BY <1>1, <1>2, <1>3 DEF None
<1>6. ASSUME LastFor(c, x) PROVE LastFor(d, x) \/ (None(d, x.motor) /\ Head(c) = x)
  <2>1. PICK i \in 1 .. Len(c) : c[i] = x /\ \A j \in 1 .. Len(c) : j > i => c[j].motor # x.motor
    BY <1>6 DEF LastFor
  <2>2. CASE i = 1
    <3>1. \A j \in 1 .. Len(d) : d[j].motor # x.motor
      <4> TAKE j \in 1 .. Len(d)
      <4>1. j + 1 \in 1 .. Len(c) /\ j + 1 > i BY <2>2, <1>1, <1>2
      <4> QED BY <4>1, <2>1, <1>1
    <3> QED BY <3>1, <2>1, <2>2, <1>1 DEF None
  <2>3. CASE i > 1
    <3>1. i - 1 \in 1 .. Len(d) /\ d[i - 1] = x BY <2>1, <2>3, <1>4
    <3>2. \A j \in 1 .. Len(d) : j > i - 1 => d[j].motor # x.motor
      <4> SUFFICES ASSUME NEW j \in 1 .. Len(d), j > i - 1 PROVE d[j].motor # x.motor OBVIOUS
      <4>1. j + 1 \in 1 .. Len(c) /\ j + 1 > i /\ d[j] = c[j + 1] BY <1>1, <1>2
      <4> QED BY <4>1, <2>1
    <3> QED BY <3>1, <3>2 DEF LastFor
  <2> QED BY <2>2, <2>3, <1>1
<1> QED BY <1>5, <1>6 DEF d

-----------------------------------------------------------------------------
(* The inductive invariant.                                                *)

Value == Int \cup {Skip}
Command == [motor : Motor, power : Int]
Order == [motor : Motor, to : Behavior]
Part == {"mode", "zero"}

CallType ==
  [pc : {"idle", "open", "loaded"}, batch : BOOLEAN, asked : [Motor -> Value],
   todo : SUBSET Motor, old : Int, out : Seq(Command), clash : BOOLEAN]

TypeInv ==
  /\ hub \in Instances
  /\ forward \in [Motor -> BOOLEAN] /\ missed \in [Motor -> BOOLEAN]
  /\ cache \in [Motor -> Int] /\ motor \in [Motor -> Int] /\ last \in [Motor -> Value]
  /\ call \in [Thread -> CallType]
  /\ channel \in Seq(Command)

ModeTypeInv ==
  /\ hub \in Instances
  /\ behaviors \in [Motor -> Behavior] /\ drive \in [Motor -> Behavior]
  /\ wanted \in [Motor -> [mode : RunMode \cup {Skip}, zero : ZeroPower \cup {Skip}]]
  /\ setting \in [Thread -> [pc : {"idle", "read", "sent", "half"}, motor : Motor,
                             what : SUBSET Part, to : Behavior, clash : BOOLEAN]]
  /\ orders \in Seq(Order)

\* Who is asked, and whose turn has come.
Asked(t) == Given(call[t].asked)
Decided(t, m) == call[t].pc # "idle" /\ m \in Asked(t) \ call[t].todo

\* A call stays with the motors of its thread, and prepares commands for those decided on.
CallOk(t) ==
  /\ call[t].pc = "idle" => call[t].out = << >>
  /\ call[t].pc # "idle" =>
       /\ Asked(t) \subseteq hub.team[t] /\ call[t].todo \subseteq Asked(t)
       /\ \A m \in Motor : m \notin Asked(t) \ call[t].todo => None(call[t].out, m)
  /\ \A m \in Motor : call[t].pc = "loaded" /\ Turn(t, m) => call[t].old = cache[m]

CallInv == \A t \in Thread : CallOk(t)

\* What a call will send.
Out(t) == IF Dropped(t) THEN << >> ELSE call[t].out

\* The motor will be at v once all is sent and carried out.
Ahead(m, v) ==
  \/ \E t \in Thread : LastFor(Out(t), [motor |-> m, power |-> v])
  \/ /\ \A t \in Thread : None(Out(t), m)
     /\ \/ LastFor(channel, [motor |-> m, power |-> v])
        \/ None(channel, m) /\ motor[m] = v

\* The SDK stopped the motor.
Stopped(m) == "sdk" \in hub.uses /\ Ahead(m, 0)

\* The cache and what is asked for agree.
Agree(asked, cached) == Near(cached, asked) /\ (asked = 0 => cached = 0)

\* The motor is to be where the cache says, unless a batch was dropped or the SDK stopped it.
AheadInv == \A m \in Motor : missed[m] \/ Ahead(m, cache[m]) \/ Stopped(m)

\* A power that was decided on agrees with the cache ...
DecidedInv ==
  \A t \in Thread : \A m \in Motor : Decided(t, m) => Agree(call[t].asked[m], cache[m])

\* ... and so does, between calls, the one last asked for, or the SDK stopped the motor.
MeantInv ==
  \A m \in Motor :
    (\A t \in Thread : ~ Decided(t, m)) =>
      \/ missed[m] \/ last[m] = Skip
      \/ Agree(last[m], Mult(m) * cache[m])
      \/ last[m] = 0 /\ Stopped(m)

PowerInv == TypeInv /\ CallInv /\ AheadInv /\ DecidedInv /\ MeantInv

\* The behaviour the motor will have once all is carried out.
Driven(m, b) ==
  \/ LastFor(orders, [motor |-> m, to |-> b])
  \/ None(orders, m) /\ drive[m] = b

\* Each part is one that was asked for, or nobody knows.
Grants(w, b) == w.mode \in {Skip, b.mode} /\ w.zero \in {Skip, b.zero}

\* The thread has sent a behaviour for the motor and not stored all of it.
Storing(t, m) == setting[t].pc \in {"sent", "half"} /\ setting[t].motor = m

SettingOk(t) ==
  LET s == setting[t]
      b == behaviors[s.motor]
  IN /\ s.motor \in hub.team[t]
     /\ "mode" \notin s.what => s.to.mode = b.mode
     /\ "zero" \notin s.what => s.to.zero = b.zero
     /\ s.pc = "half" => s.to.mode = b.mode
     /\ s.pc \in {"sent", "half"} => Driven(s.motor, s.to)

SettingInv == \A t \in Thread : setting[t].pc # "idle" => SettingOk(t)

\* What is remembered, and what the motor will have, is what was last asked for.
GrantInv ==
  \A m \in Motor : (\A t \in Thread : ~ Storing(t, m)) =>
    /\ Grants(wanted[m], behaviors[m])
    /\ \E b \in Behavior : Driven(m, b) /\ Grants(wanted[m], b)

\* The parts of the behaviour being set that are not set are remembered as they were.
KeptOk(t) ==
  LET s == setting[t]
      w == wanted[s.motor]
  IN /\ "mode" \notin s.what => w.mode \in {Skip, s.to.mode}
     /\ "zero" \notin s.what => w.zero \in {Skip, s.to.zero}

KeptInv == \A t \in Thread : setting[t].pc \in {"sent", "half"} => KeptOk(t)

ModeInv == ModeTypeInv /\ SettingInv /\ GrantInv /\ KeptInv


-----------------------------------------------------------------------------
(* Small facts.                                                            *)

\* A thread commands motors only.
LEMMA TeamIsOfMotors ==
  ASSUME hub \in Instances, NEW t \in Thread
  PROVE  hub.team[t] \subseteq Motor
BY CacheAssumption DEF Instance

\* A power has a sign for each direction, and still is one.
LEMMA Signed ==
  ASSUME forward \in [Motor -> BOOLEAN], NEW m \in Motor, NEW p \in Int
  PROVE  Mult(m) * p \in Int /\ (Mult(m) = 1 \/ Mult(m) = -1)
BY DEF Mult

\* Two powers that agree still do when both change their sign.
LEMMA AgreeSigned ==
  ASSUME forward \in [Motor -> BOOLEAN], NEW m \in Motor, NEW p \in Int, NEW q \in Int, Agree(p, q)
  PROVE  Agree(Mult(m) * p, Mult(m) * q)
<1>1. CASE forward[m] BY <1>1, CacheAssumption DEF Mult, Agree, Near
<1>2. CASE ~ forward[m] BY <1>2, CacheAssumption DEF Mult, Agree, Near
<1> QED BY <1>1, <1>2

\* All of a call but its clash stays.
Kept(u) ==
  /\ call'[u].pc = call[u].pc /\ call'[u].batch = call[u].batch
  /\ call'[u].asked = call[u].asked /\ call'[u].todo = call[u].todo
  /\ call'[u].old = call[u].old /\ call'[u].out = call[u].out

\* A clash is all that a rival is told.
LEMMA ClashKeeps ==
  ASSUME TypeInv, NEW U, NEW u \in Thread
  PROVE  /\ Clash(call, U)[u] \in CallType
         /\ Clash(call, U)[u].pc = call[u].pc /\ Clash(call, U)[u].batch = call[u].batch
         /\ Clash(call, U)[u].asked = call[u].asked /\ Clash(call, U)[u].todo = call[u].todo
         /\ Clash(call, U)[u].old = call[u].old /\ Clash(call, U)[u].out = call[u].out
BY DEF TypeInv, CallType, Clash

\* A call that is kept will send what it would have, and has decided what it had.
LEMMA KeptCall ==
  ASSUME NEW u, Kept(u), hub' = hub
  PROVE  /\ Out(u)' = Out(u) /\ Asked(u)' = Asked(u)
         /\ \A m : Decided(u, m)' = Decided(u, m) /\ Turn(u, m)' = Turn(u, m)
BY DEF Kept, Out, Dropped, Asked, Given, Decided, Turn

LEMMA CallOkKept ==
  ASSUME NEW u \in Thread, CallOk(u), Kept(u), hub' = hub, cache' = cache
  PROVE  CallOk(u)'
<1>1. /\ Asked(u)' = Asked(u)
      /\ \A m \in Motor : Turn(u, m)' = Turn(u, m)
      /\ \A m : None(call[u].out, m)' = None(call[u].out, m)
  BY DEF Kept, Asked, Given, Turn, None
<1> QED BY <1>1 DEF Kept, CallOk

\* What is on its way to a motor stays where neither calls nor channel change.
LEMMA AheadKept ==
  ASSUME \A u \in Thread : Out(u)' = Out(u), channel' = channel, NEW m, motor'[m] = motor[m], NEW v
  PROVE  Ahead(m, v)' = Ahead(m, v)
<1> DEFINE x == [motor |-> m, power |-> v]
<1>1. \A u \in Thread : LastFor(Out(u), x)' = LastFor(Out(u), x) /\ None(Out(u), m)' = None(Out(u), m)
  BY DEF LastFor, None
<1>2. LastFor(channel, x)' = LastFor(channel, x) /\ None(channel, m)' = None(channel, m)
  BY DEF LastFor, None
<1> QED BY <1>1, <1>2 DEF Ahead

\* Nothing but powers and their motors is sent.
LEMMA OutType == ASSUME TypeInv, NEW t \in Thread PROVE Out(t) \in Seq(Command)
BY DEF TypeInv, CallType, Out

-----------------------------------------------------------------------------
(* Every step keeps the invariant of the powers.                           *)

LEMMA SetDirectionKeeps ==
  ASSUME PowerInv, NEW t \in Thread, NEW m \in Motor, NEW fwd \in BOOLEAN, SetDirection(t, m, fwd)
  PROVE  PowerInv'
<1> USE DEF PowerInv
<1>1. /\ forward' = [forward EXCEPT ![m] = fwd]
      /\ last' = [last EXCEPT ![m] = IF fwd = forward[m] \/ @ = 0 THEN @ ELSE Skip]
      /\ call' = Clash(call, Rivals(t, {m}))
      /\ UNCHANGED << hub, cache, channel, motor, missed >>
  BY DEF SetDirection
<1>2. \A u \in Thread : Kept(u) BY <1>1, ClashKeeps DEF Kept
<1>3. TypeInv'
  <2>1. \A u \in Thread : call'[u] \in CallType BY <1>1, ClashKeeps
  <2>2. call' = [u \in Thread |-> call'[u]] BY <1>1 DEF Clash
  <2>3. call' \in [Thread -> CallType] BY <2>1, <2>2
  <2>4. last' \in [Motor -> Value] BY <1>1 DEF TypeInv, Value
  <2> QED BY <1>1, <2>3, <2>4 DEF TypeInv
<1>4. \A u \in Thread : /\ Out(u)' = Out(u) /\ Asked(u)' = Asked(u)
                        /\ \A n : Decided(u, n)' = Decided(u, n) /\ Turn(u, n)' = Turn(u, n)
  BY <1>1, <1>2, KeptCall
<1>5. CallInv' BY <1>1, <1>2, CallOkKept DEF CallInv
<1>6. \A n \in Motor : \A v : Ahead(n, v)' = Ahead(n, v) BY <1>1, <1>4, AheadKept
<1>7. AheadInv' BY <1>1, <1>6 DEF AheadInv, Stopped
<1>8. DecidedInv' BY <1>1, <1>2, <1>4 DEF DecidedInv, Kept, Agree, Near
<1>9. MeantInv'
  <2> SUFFICES ASSUME NEW n \in Motor, \A u \in Thread : ~ Decided(u, n)
               PROVE  \/ missed[n] \/ last'[n] = Skip
                      \/ Agree(last'[n], Mult(n)' * cache[n])
                      \/ last'[n] = 0 /\ Stopped(n)
    BY <1>1, <1>4, <1>6 DEF MeantInv, Stopped, Agree, Near
  <2>1. \/ missed[n] \/ last[n] = Skip
        \/ Agree(last[n], Mult(n) * cache[n])
        \/ last[n] = 0 /\ Stopped(n)
    BY DEF MeantInv
  <2>2. CASE n # m \/ fwd = forward[m]
    <3>1. last'[n] = last[n] /\ Mult(n)' = Mult(n) BY <1>1, <2>2 DEF TypeInv, Mult
    <3> QED BY <2>1, <3>1
  <2>3. CASE n = m /\ fwd # forward[m]
    <3>1. last'[n] = IF last[n] = 0 THEN 0 ELSE Skip BY <1>1, <2>3 DEF TypeInv
    <3>2. CASE last[n] = 0 /\ Agree(last[n], Mult(n) * cache[n])
      <4>1. cache[n] \in Int /\ cache[n] = 0 BY <3>2 DEF TypeInv, Agree, Mult
      <4>2. Mult(n)' * cache[n] = 0 BY <4>1, <1>3 DEF TypeInv, Mult
      <4> QED BY <4>2, <3>1, <3>2, CacheAssumption DEF Agree, Near
    <3> QED BY <3>1, <3>2, <2>1
  <2> QED BY <2>2, <2>3
<1> QED BY <1>3, <1>5, <1>7, <1>8, <1>9

LEMMA BeginKeeps ==
  ASSUME PowerInv, NEW t \in Thread, NEW batch \in BOOLEAN, NEW asked \in [Motor -> Value],
         Given(asked) \subseteq hub.team[t], Begin(t, batch, asked)
  PROVE  PowerInv'
<1> USE DEF PowerInv
<1> DEFINE R == Rivals(t, Given(asked))
           new == [pc |-> "open", batch |-> batch, asked |-> asked, todo |-> Given(asked),
                   old |-> 0, out |-> << >>, clash |-> R # {}]
<1>1. /\ call[t].pc = "idle"
      /\ call' = [Clash(call, R) EXCEPT ![t] = new]
      /\ UNCHANGED << hub, forward, cache, channel, motor, last, missed >>
  BY DEF Begin, Idle
<1>2. call'[t] = new /\ \A u \in Thread \ {t} : call'[u] = Clash(call, R)[u]
  BY <1>1 DEF Clash
<1>3. \A u \in Thread \ {t} : Kept(u) BY <1>2, ClashKeeps DEF Kept
<1>4. TypeInv'
  <2>1. new \in CallType BY DEF Given, CallType
  <2> HIDE DEF new
  <2>2. \A u \in Thread : call'[u] \in CallType BY <1>2, <2>1, ClashKeeps
  <2>3. call' = [u \in Thread |-> call'[u]] BY <1>1 DEF Clash
  <2> QED BY <1>1, <2>2, <2>3 DEF TypeInv
<1>5. \A u \in Thread \ {t} : /\ Out(u)' = Out(u) /\ Asked(u)' = Asked(u)
                              /\ \A n : Decided(u, n)' = Decided(u, n) /\ Turn(u, n)' = Turn(u, n)
  BY <1>1, <1>3, KeptCall
<1>6. Out(t) = << >> /\ Out(t)' = << >> BY <1>1, <1>2 DEF Out, CallInv, CallOk
<1>7. \A n : ~ Decided(t, n) /\ ~ Decided(t, n)' BY <1>1, <1>2 DEF Decided, Asked
<1>8. CallInv'
  <2> SUFFICES ASSUME NEW u \in Thread
               PROVE  CallOk(u)'
    BY DEF CallInv
  <2>1. CASE u = t BY <2>1, <1>1, <1>2 DEF CallOk, Asked, None
  <2>2. CASE u # t BY <2>2, <1>1, <1>3, <1>5, CallOkKept DEF CallInv
  <2> QED BY <2>1, <2>2
<1>9. \A n \in Motor : \A v : Ahead(n, v)' = Ahead(n, v) BY <1>1, <1>5, <1>6, AheadKept
<1>10. AheadInv' BY <1>1, <1>9 DEF AheadInv, Stopped
<1>11. DecidedInv'
  <2> SUFFICES ASSUME NEW u \in Thread, NEW n \in Motor, Decided(u, n)'
               PROVE  Agree(call[u].asked[n], cache[n])'
    BY DEF DecidedInv
  <2>1. u # t BY <1>7
  <2>2. Decided(u, n) /\ call'[u].asked = call[u].asked BY <2>1, <1>3, <1>5 DEF Kept
  <2> QED BY <2>2, <1>1 DEF DecidedInv, Agree, Near
<1>12. MeantInv'
  <2>1. \A u \in Thread : \A n : Decided(u, n)' <=> Decided(u, n) BY <1>5, <1>7
  <2>2. \A n \in Motor : Mult(n)' = Mult(n) /\ Stopped(n)' = Stopped(n) BY <1>1, <1>9 DEF Mult, Stopped
  <2> QED BY <1>1, <2>1, <2>2 DEF MeantInv, Agree, Near
<1> QED BY <1>4, <1>8, <1>10, <1>11, <1>12

LEMMA LoadKeeps ==
  ASSUME PowerInv, NEW t \in Thread, NEW m \in Motor, Load(t, m)
  PROVE  PowerInv'
<1> USE DEF PowerInv
<1>1. /\ call[t].pc = "open" /\ Turn(t, m)
      /\ call' = [call EXCEPT ![t].pc = "loaded", ![t].old = cache[m]]
      /\ UNCHANGED << hub, forward, cache, channel, motor, last, missed >>
  BY DEF Load
<1>2. \A u \in Thread \ {t} : Kept(u) BY <1>1 DEF TypeInv, Kept
<1>3. /\ call'[t].pc = "loaded" /\ call'[t].batch = call[t].batch
      /\ call'[t].asked = call[t].asked /\ call'[t].todo = call[t].todo
      /\ call'[t].old = cache[m] /\ call'[t].out = call[t].out
  BY <1>1 DEF TypeInv, CallType
<1>4. TypeInv'
  <2>1. call[t] \in CallType /\ cache[m] \in Int BY DEF TypeInv
  <2>2. [call[t] EXCEPT !.pc = "loaded", !.old = cache[m]] \in CallType BY <2>1 DEF CallType
  <2>3. call' \in [Thread -> CallType] BY <1>1, <2>2 DEF TypeInv
  <2> QED BY <1>1, <2>3 DEF TypeInv
<1>5. /\ Out(t)' = Out(t) /\ Asked(t)' = Asked(t)
      /\ \A n : Turn(t, n)' <=> Turn(t, n)
  BY <1>1, <1>3 DEF Out, Dropped, Asked, Given, Turn
<1>a. \A n : Decided(t, n)' <=> Decided(t, n) BY <1>1, <1>3, <1>5 DEF Decided
<1>6. \A u \in Thread : /\ Out(u)' = Out(u) /\ Asked(u)' = Asked(u)
                        /\ \A n : Decided(u, n)' <=> Decided(u, n)
                        /\ call'[u].asked = call[u].asked
  <2> TAKE u \in Thread
  <2>1. CASE u = t BY <2>1, <1>3, <1>5, <1>a
  <2>2. CASE u # t
    <3>1. Kept(u) BY <2>2, <1>2
    <3> QED BY <3>1, <1>1, KeptCall DEF Kept
  <2> QED BY <2>1, <2>2
<1>7. CallInv'
  <2> SUFFICES ASSUME NEW u \in Thread PROVE CallOk(u)' BY DEF CallInv
  <2>1. CASE u # t BY <2>1, <1>1, <1>2, CallOkKept DEF CallInv
  <2>2. CASE u = t
    <3>1. \A n \in Motor : Turn(t, n) => n = m
      BY <1>1 DEF Turn, TypeInv, CallType, Motor
    <3>2. \A n : None(call[t].out, n)' <=> None(call[t].out, n) BY <1>3 DEF None
    <3> QED BY <2>2, <3>1, <3>2, <1>1, <1>3, <1>5, Zenon DEF CallInv, CallOk
  <2> QED BY <2>1, <2>2
<1>8. \A n \in Motor : \A v : Ahead(n, v)' = Ahead(n, v) BY <1>1, <1>6, AheadKept
<1>9. AheadInv' BY <1>1, <1>8 DEF AheadInv, Stopped
<1>10. DecidedInv' BY <1>1, <1>6 DEF DecidedInv, Agree, Near
<1>11. MeantInv'
  <2>1. \A n \in Motor : Mult(n)' = Mult(n) /\ Stopped(n)' = Stopped(n) BY <1>1, <1>8 DEF Mult, Stopped
  <2> QED BY <1>1, <1>6, <2>1 DEF MeantInv, Agree, Near
<1> QED BY <1>4, <1>7, <1>9, <1>10, <1>11

\* A motor has one call at most that is about it.
LEMMA OneCall ==
  ASSUME Disjoint, TypeInv, CallInv, NEW t \in Thread, NEW u \in Thread, t # u, NEW m,
         call[t].pc # "idle", m \in Asked(t), call[u].pc # "idle"
  PROVE  m \notin Asked(u)
<1>1. m \in hub.team[t] /\ (m \in Asked(u) => m \in hub.team[u]) BY DEF CallInv, CallOk
<1>2. hub.team[t] \cap hub.team[u] = {} BY DEF Disjoint, TypeInv
<1> QED BY <1>1, <1>2

\* What a call is when it is done with a motor.
LEMMA GoneOn ==
  ASSUME NEW c \in CallType, NEW M \in SUBSET Motor
  PROVE  /\ [c EXCEPT !.pc = "open", !.todo = M, !.old = 0] \in CallType
         /\ \A o \in Seq(Command) :
              [c EXCEPT !.pc = "open", !.todo = M, !.old = 0, !.out = o] \in CallType
<1> DEFINE d == [c EXCEPT !.pc = "open"]
           e == [d EXCEPT !.todo = M]
           f == [e EXCEPT !.old = 0]
<1>1. d \in CallType BY DEF CallType
<1> HIDE DEF d
<1>2. e \in CallType BY <1>1 DEF CallType
<1> HIDE DEF e
<1>3. f \in CallType
  <2>1. \A n \in Int : [e EXCEPT !.old = n] \in CallType BY <1>2 DEF CallType
  <2> QED BY <2>1
<1> HIDE DEF f
<1>4. \A o \in Seq(Command) : [f EXCEPT !.out = o] \in CallType BY <1>3 DEF CallType
<1>5. [c EXCEPT !.pc = "open", !.todo = M, !.old = 0] = f BY DEF d, e, f
<1>6. \A o : [c EXCEPT !.pc = "open", !.todo = M, !.old = 0, !.out = o] = [f EXCEPT !.out = o]
  BY DEF d, e, f
<1> QED BY <1>3, <1>4, <1>5, <1>6

LEMMA LeaveKeeps ==
  ASSUME PowerInv, NEW t \in Thread, NEW m \in Motor, Leave(t, m)
  PROVE  PowerInv'
<1> USE DEF PowerInv
<1>1. /\ call[t].pc = "loaded" /\ Turn(t, m) /\ Cached(call[t].old, call[t].asked[m])
      /\ call' = [call EXCEPT ![t].pc = "open", ![t].todo = @ \ {m}, ![t].old = 0]
      /\ UNCHANGED << hub, forward, cache, channel, motor, last, missed >>
  BY DEF Leave, LeftOut
<1>2. \A u \in Thread \ {t} : Kept(u) BY <1>1 DEF TypeInv, Kept
<1>3. /\ call'[t].pc = "open" /\ call'[t].batch = call[t].batch
      /\ call'[t].asked = call[t].asked /\ call'[t].todo = call[t].todo \ {m}
      /\ call'[t].out = call[t].out
  BY <1>1 DEF TypeInv, CallType
<1>4. TypeInv'
  <2>1. call[t] \in CallType BY DEF TypeInv
  <2>2. call[t].todo \ {m} \in SUBSET Motor BY <2>1 DEF CallType
  <2>3. call' \in [Thread -> CallType] BY <1>1, <2>1, <2>2, GoneOn DEF TypeInv
  <2> QED BY <1>1, <2>3 DEF TypeInv
<1>5. Out(t)' = Out(t) /\ Asked(t)' = Asked(t) BY <1>1, <1>3 DEF Out, Dropped, Asked, Given
<1>6. \A n \in Motor : Decided(t, n)' <=> Decided(t, n) \/ n = m
  BY <1>1, <1>3, <1>5, Zenon DEF Decided, Turn, CallInv, CallOk
<1>7. \A u \in Thread \ {t} : /\ Out(u)' = Out(u) /\ Asked(u)' = Asked(u)
                              /\ \A n : Decided(u, n)' = Decided(u, n)
                              /\ call'[u].asked = call[u].asked
  BY <1>1, <1>2, KeptCall DEF Kept
<1>8. CallInv'
  <2> SUFFICES ASSUME NEW u \in Thread PROVE CallOk(u)' BY DEF CallInv
  <2>1. CASE u # t BY <2>1, <1>1, <1>2, CallOkKept DEF CallInv
  <2>2. CASE u = t
    <3>1. \A n : None(call[t].out, n)' <=> None(call[t].out, n) BY <1>3 DEF None
    <3>2. call[t].todo \ {m} \subseteq Asked(t)
      /\ \A n \in Motor : n \notin Asked(t) \ (call[t].todo \ {m}) => None(call[t].out, n)
      BY <1>1 DEF CallInv, CallOk
    <3>3. Asked(t) \subseteq hub.team[t] BY <1>1 DEF CallInv, CallOk
    <3> QED BY <2>2, <3>1, <3>2, <3>3, <1>1, <1>3, <1>5 DEF CallOk
  <2> QED BY <2>1, <2>2
<1>9. \A n \in Motor : \A v : Ahead(n, v)' = Ahead(n, v) BY <1>1, <1>5, <1>7, AheadKept
<1>10. AheadInv' BY <1>1, <1>9 DEF AheadInv, Stopped
<1>11. Agree(call[t].asked[m], cache[m])
  <2>1. call[t].old = cache[m] /\ cache[m] \in Int
    BY <1>1 DEF CallInv, CallOk, TypeInv
  <2>2. m \in Asked(t) BY <1>1 DEF CallInv, CallOk, Turn
  <2>3. call[t].asked[m] \in Int
    BY <2>2 DEF Asked, Given, TypeInv, CallType, Value
  <2> QED BY <2>1, <2>3, <1>1 DEF Cached, Near, Agree
<1>12. DecidedInv'
  <2> SUFFICES ASSUME NEW u \in Thread, NEW n \in Motor, Decided(u, n)'
               PROVE  Agree(call[u].asked[n], cache[n])
    BY <1>1, <1>3, <1>7 DEF DecidedInv, Agree, Near
  <2>1. CASE u = t /\ n = m BY <2>1, <1>11
  <2>2. CASE ~ (u = t /\ n = m)
    <3>1. Decided(u, n) BY <2>2, <1>6, <1>7
    <3> QED BY <3>1 DEF DecidedInv
  <2> QED BY <2>1, <2>2
<1>13. MeantInv'
  <2>1. \A n \in Motor : Mult(n)' = Mult(n) /\ Stopped(n)' = Stopped(n) BY <1>1, <1>9 DEF Mult, Stopped
  <2>2. \A n \in Motor : (\A u \in Thread : ~ Decided(u, n)') => \A u \in Thread : ~ Decided(u, n)
    BY <1>6, <1>7
  <2> QED BY <1>1, <2>1, <2>2 DEF MeantInv, Agree, Near
<1> QED BY <1>4, <1>8, <1>10, <1>12, <1>13

LEMMA StoreKeeps ==
  ASSUME Disjoint, PowerInv, NEW t \in Thread, NEW m \in Motor, Store(t, m)
  PROVE  PowerInv'
<1> USE DEF PowerInv
<1> DEFINE p == call[t].asked[m]
           x == [motor |-> m, power |-> p]
<1>1. /\ call[t].pc = "loaded" /\ Turn(t, m)
      /\ cache' = [cache EXCEPT ![m] = p]
      /\ missed' = [missed EXCEPT ![m] = Dropped(t)]
      /\ call' = [call EXCEPT ![t].pc = "open", ![t].todo = @ \ {m}, ![t].old = 0,
                              ![t].out = Append(@, x)]
      /\ UNCHANGED << hub, forward, channel, motor, last >>
  BY DEF Store, Sent
<1>2. m \in Asked(t) /\ m \in call[t].todo /\ p \in Int /\ x \in Command
  BY <1>1 DEF CallInv, CallOk, Turn, Asked, Given, TypeInv, CallType, Value, Command
<1> HIDE DEF p, x
<1>3. \A u \in Thread \ {t} : Kept(u) BY <1>1 DEF TypeInv, Kept
<1>4. /\ call'[t].pc = "open" /\ call'[t].batch = call[t].batch
      /\ call'[t].asked = call[t].asked /\ call'[t].todo = call[t].todo \ {m}
      /\ call'[t].out = Append(call[t].out, x)
  BY <1>1 DEF TypeInv, CallType
<1>5. TypeInv'
  <2>1. Append(call[t].out, x) \in Seq(Command) BY <1>2 DEF TypeInv, CallType
  <2>2. call[t] \in CallType /\ call[t].todo \ {m} \in SUBSET Motor BY DEF TypeInv, CallType
  <2>4. call' \in [Thread -> CallType] BY <1>1, <2>1, <2>2, GoneOn DEF TypeInv
  <2>3. Dropped(t) \in BOOLEAN BY CacheAssumption DEF Dropped, TypeInv, CallType, Instance
  <2> QED BY <1>1, <1>2, <2>3, <2>4 DEF TypeInv
<1>6. \A u \in Thread \ {t} : /\ Out(u)' = Out(u) /\ Asked(u)' = Asked(u)
                              /\ \A n : Decided(u, n)' = Decided(u, n) /\ Turn(u, n)' = Turn(u, n)
                              /\ call'[u].asked = call[u].asked
  BY <1>1, <1>3, KeptCall DEF Kept
<1>7. /\ Asked(t)' = Asked(t) /\ Dropped(t)' = Dropped(t)
      /\ Out(t)' = IF Dropped(t) THEN << >> ELSE Append(call[t].out, x)
  BY <1>1, <1>4 DEF Out, Dropped, Asked, Given
<1>8. \A n \in Motor : Decided(t, n)' <=> Decided(t, n) \/ n = m
  BY <1>1, <1>2, <1>4, <1>7 DEF Decided
<1>9. \A u \in Thread \ {t} : \A n \in Motor : call[u].pc # "idle" /\ n \in Asked(u) => n # m
  BY <1>1, <1>2, OneCall
<1>10. \A n \in Motor \ {m} : cache'[n] = cache[n] /\ missed'[n] = missed[n] BY <1>1 DEF TypeInv
<1>11. cache'[m] = p /\ missed'[m] = Dropped(t) BY <1>1 DEF TypeInv
<1>12. x.motor = m BY DEF x
<1>13. \A n \in Motor \ {m} : None(call[t].out, n) => None(Append(call[t].out, x), n)
  <2> SUFFICES ASSUME NEW n \in Motor \ {m}, None(call[t].out, n)
               PROVE  None(Append(call[t].out, x), n)
    OBVIOUS
  <2> DEFINE y == [motor |-> n, power |-> 0]
  <2>1. y.motor = n OBVIOUS
  <2>2. call[t].out \in Seq(Command) BY DEF TypeInv, CallType
  <2> HIDE DEF y
  <2> QED BY <2>1, <2>2, <1>2, <1>12, AppendedElsewhere
<1>14. CallInv'
  <2> SUFFICES ASSUME NEW u \in Thread PROVE CallOk(u)' BY DEF CallInv
  <2>1. CASE u # t
    <3>1. \A n \in Motor : call[u].pc = "loaded" /\ Turn(u, n) => n # m
      BY <2>1, <1>9 DEF Turn, CallInv, CallOk
    <3>2. \A n : None(call[u].out, n)' = None(call[u].out, n) BY <2>1, <1>3 DEF Kept, None
    <3>3. CallOk(u) BY DEF CallInv
    <3>4. call[u].pc = "loaded" => \A n \in Motor : Turn(u, n) => call[u].old = cache'[n]
      BY <3>1, <3>3, <1>10 DEF CallOk
    <3>5. call[u].pc # "idle" => Asked(u)' \subseteq hub'.team[u] /\ call'[u].todo \subseteq Asked(u)'
      BY <2>1, <3>3, <1>1, <1>3, <1>6 DEF CallOk, Kept
    <3>6. call[u].pc # "idle" =>
            \A n \in Motor : n \notin Asked(u)' \ call'[u].todo => None(call[u].out, n)'
      BY <2>1, <3>2, <3>3, <1>3, <1>6 DEF CallOk, Kept
    <3>7. call'[u].pc = call[u].pc /\ call'[u].out = call[u].out /\ call'[u].old = call[u].old
      BY <2>1, <1>3 DEF Kept
    <3> QED BY <2>1, <3>3, <3>4, <3>5, <3>6, <3>7, <1>6 DEF CallOk
  <2>2. CASE u = t
    <3>1. \A n \in Motor : n \notin Asked(t) \ (call[t].todo \ {m}) => None(Append(call[t].out, x), n)
      BY <1>1, <1>2, <1>13 DEF CallInv, CallOk
    <3>2. \A n \in Motor : None(call[t].out, n)' <=> None(Append(call[t].out, x), n)
      BY <1>4 DEF None
    <3>3. Asked(t) \subseteq hub.team[t] /\ call[t].todo \ {m} \subseteq Asked(t)
      BY <1>1 DEF CallInv, CallOk
    <3> QED BY <2>2, <3>1, <3>2, <3>3, <1>1, <1>4, <1>7 DEF CallOk
  <2> QED BY <2>1, <2>2
<1>15. \A n \in Motor \ {m} : \A v : Ahead(n, v) => Ahead(n, v)'
  <2> SUFFICES ASSUME NEW n \in Motor \ {m}, NEW v, Ahead(n, v) PROVE Ahead(n, v)' OBVIOUS
  <2> DEFINE y == [motor |-> n, power |-> v]
  <2>1. y.motor = n OBVIOUS
  <2> HIDE DEF y
  <2>2. call[t].out \in Seq(Command) BY DEF TypeInv, CallType
  <2>3. /\ LastFor(Out(t), y) => LastFor(Out(t)', y)
        /\ None(Out(t), n) => None(Out(t)', n)
    <3>1. CASE Dropped(t) BY <3>1, <1>7 DEF Out
    <3>2. CASE ~ Dropped(t)
      <4>1. Out(t) = call[t].out /\ Out(t)' = Append(call[t].out, x) BY <3>2, <1>7 DEF Out
      <4> QED BY <4>1, <2>1, <2>2, <1>2, <1>12, AppendedElsewhere
    <3> QED BY <3>1, <3>2
  <2>4. \A u \in Thread : /\ LastFor(Out(u), y) => LastFor(Out(u)', y)
                          /\ None(Out(u), n) => None(Out(u)', n)
    BY <2>3, <1>6
  <2>5. \A u \in Thread : /\ LastFor(Out(u), y) => LastFor(Out(u), y)'
                          /\ None(Out(u), n) => None(Out(u), n)'
    BY <2>4 DEF LastFor, None, y
  <2>6. /\ LastFor(channel, y) => LastFor(channel, y)'
        /\ None(channel, n) => None(channel, n)'
    BY <1>1 DEF LastFor, None, y
  <2> QED BY <2>5, <2>6, <1>1 DEF Ahead, y
<1>16. ~ Dropped(t) => Ahead(m, p)'
  <2> SUFFICES ASSUME ~ Dropped(t) PROVE Ahead(m, p)' OBVIOUS
  <2>1. Out(t)' = Append(call[t].out, x) BY <1>7
  <2>2. LastFor(Out(t)', x) BY <2>1, <1>2, AppendedIsLast DEF TypeInv, CallType
  <2>3. p' = p BY <1>4 DEF p
  <2>4. LastFor(Out(t), [motor |-> m, power |-> p])' BY <2>2, <2>3 DEF LastFor, x
  <2> QED BY <2>4 DEF Ahead
<1>17. AheadInv'
  <2> SUFFICES ASSUME NEW n \in Motor PROVE missed'[n] \/ Ahead(n, cache[n])' \/ Stopped(n)'
    BY DEF AheadInv
  <2>1. CASE n = m
    <3>1. p' = p BY <1>4 DEF p
    <3>2. Ahead(m, p)' = Ahead(m, cache[m])' BY <3>1, <1>11 DEF Ahead, LastFor
    <3> QED BY <2>1, <3>2, <1>11, <1>16
  <2>2. CASE n # m
    <3>1. missed[n] \/ Ahead(n, cache[n]) \/ Stopped(n) BY DEF AheadInv
    <3>2. Ahead(n, cache[n]) => Ahead(n, cache[n])'
      <4> DEFINE v == cache[n]
      <4>1. v' = v BY <2>2, <1>10
      <4>2. Ahead(n, v) => Ahead(n, v)'
        BY <2>2, <4>1, <1>15 DEF Ahead, LastFor
      <4> QED BY <4>2
    <3>3. Stopped(n) => Stopped(n)' BY <2>2, <1>1, <1>15 DEF Stopped
    <3> QED BY <2>2, <3>1, <3>2, <3>3, <1>10
  <2> QED BY <2>1, <2>2
<1>18. DecidedInv'
  <2> SUFFICES ASSUME NEW u \in Thread, NEW n \in Motor, Decided(u, n)'
               PROVE  Agree(call'[u].asked[n], cache'[n])
    BY DEF DecidedInv, Agree, Near
  <2>1. CASE n = m
    <3>1. u = t BY <2>1, <1>6, <1>9 DEF Decided
    <3> QED BY <2>1, <3>1, <1>2, <1>4, <1>11, CacheAssumption DEF Agree, Near, p
  <2>2. CASE n # m
    <3>1. Decided(u, n) /\ call'[u].asked = call[u].asked BY <2>2, <1>4, <1>6, <1>8
    <3> QED BY <2>2, <3>1, <1>10 DEF DecidedInv
  <2> QED BY <2>1, <2>2
<1>19. MeantInv'
  <2> SUFFICES ASSUME NEW n \in Motor, \A u \in Thread : ~ Decided(u, n)'
               PROVE  \/ missed'[n] \/ last[n] = Skip
                      \/ Agree(last[n], Mult(n) * cache'[n])
                      \/ last[n] = 0 /\ Stopped(n)'
    BY <1>1 DEF MeantInv, Mult, Agree, Near
  <2>1. n # m BY <1>8
  <2>2. \A u \in Thread : ~ Decided(u, n) BY <1>6, <1>8
  <2>3. Stopped(n) => Stopped(n)' BY <2>1, <1>1, <1>15 DEF Stopped
  <2> QED BY <2>1, <2>2, <2>3, <1>10 DEF MeantInv
<1> QED BY <1>5, <1>14, <1>17, <1>18, <1>19

\* A motor has commands in one batch at most.
LEMMA OneBatch ==
  ASSUME Disjoint, TypeInv, CallInv, NEW t \in Thread, NEW u \in Thread, t # u, NEW m \in Motor,
         ~ None(Out(t), m)
  PROVE  None(Out(u), m)
<1>1. None(<< >>, m) BY DEF None
<1>2. Out(t) = call[t].out /\ call[t].out # << >> BY <1>1 DEF Out
<1>3. call[t].pc # "idle" /\ m \in Asked(t) BY <1>2 DEF CallInv, CallOk
<1>4. CASE call[u].pc = "idle" BY <1>1, <1>4 DEF Out, CallInv, CallOk
<1>5. CASE call[u].pc # "idle"
  <2>1. m \notin Asked(u) BY <1>3, <1>5, OneCall
  <2>2. None(call[u].out, m) BY <2>1, <1>5 DEF CallInv, CallOk
  <2> QED BY <2>2, <1>1 DEF Out
<1> QED BY <1>4, <1>5

LEMMA FinishKeeps ==
  ASSUME Disjoint, PowerInv, NEW t \in Thread, Finish(t)
  PROVE  PowerInv'
<1> USE DEF PowerInv
<1>1. /\ call[t].pc = "open" /\ call[t].todo = {}
      /\ channel' = IF Dropped(t) THEN channel ELSE channel \o call[t].out
      /\ last' = [m \in Motor |-> IF call[t].asked[m] = Skip THEN last[m]
                                  ELSE IF call[t].clash THEN Skip
                                  ELSE Mult(m) * call[t].asked[m]]
      /\ call' = [call EXCEPT ![t] = NoCall]
      /\ UNCHANGED << hub, forward, cache, motor, missed >>
  BY DEF Finish
<1>2. \A u \in Thread \ {t} : Kept(u) BY <1>1 DEF TypeInv, Kept
<1>3. call'[t] = NoCall BY <1>1 DEF TypeInv
<1>4. channel' = channel \o Out(t)
  <2>1. channel \in Seq(Command) BY DEF TypeInv
  <2>2. channel \o << >> = channel BY <2>1
  <2> QED BY <1>1, <2>2 DEF Out
<1>5. TypeInv'
  <2>1. NoCall \in CallType BY CacheAssumption DEF NoCall, NoPower, CallType, Value
  <2>2. call' \in [Thread -> CallType] BY <1>1, <2>1 DEF TypeInv
  <2>3. channel' \in Seq(Command)
    <3>1. channel \in Seq(Command) /\ Out(t) \in Seq(Command) BY OutType DEF TypeInv
    <3> QED BY <3>1, <1>4
  <2>4. last' \in [Motor -> Value]
    <3>1. \A m \in Motor : call[t].asked[m] # Skip => Mult(m) * call[t].asked[m] \in Int
      BY Signed DEF TypeInv, CallType, Value
    <3> QED BY <1>1, <3>1 DEF TypeInv, Value
  <2> QED BY <1>1, <2>2, <2>3, <2>4 DEF TypeInv
<1>6. \A u \in Thread \ {t} : /\ Out(u)' = Out(u) /\ Asked(u)' = Asked(u)
                              /\ \A n : Decided(u, n)' = Decided(u, n)
                              /\ call'[u].asked = call[u].asked
  BY <1>1, <1>2, KeptCall DEF Kept
<1>7. Out(t)' = << >> BY <1>3 DEF Out, NoCall
<1>8. \A n : ~ Decided(t, n)' BY <1>3 DEF Decided, NoCall
<1>9. CallInv'
  <2> SUFFICES ASSUME NEW u \in Thread PROVE CallOk(u)' BY DEF CallInv
  <2>1. CASE u # t BY <2>1, <1>1, <1>2, CallOkKept DEF CallInv
  <2>2. CASE u = t BY <2>2, <1>3 DEF CallOk, NoCall
  <2> QED BY <2>1, <2>2
<1>10. \A n \in Motor : \A v : Ahead(n, v) => Ahead(n, v)'
  <2> SUFFICES ASSUME NEW n \in Motor, NEW v, Ahead(n, v) PROVE Ahead(n, v)' OBVIOUS
  <2> DEFINE y == [motor |-> n, power |-> v]
  <2>1. y.motor = n OBVIOUS
  <2> HIDE DEF y
  <2>2. channel \in Seq(Command) /\ Out(t) \in Seq(Command) BY OutType DEF TypeInv
  <2>3. None(Out(t)', n) BY <1>7 DEF None
  <2>4. CASE \E u \in Thread \ {t} : LastFor(Out(u), y)
    <3>1. PICK u \in Thread \ {t} : LastFor(Out(u), y) BY <2>4
    <3>2. LastFor(Out(u)', y) BY <3>1, <1>6
    <3>3. LastFor(Out(u), y)' BY <3>2 DEF LastFor, y
    <3> QED BY <3>3 DEF Ahead, y
  <2>5. CASE LastFor(Out(t), y)
    <3>1. LastFor(channel', y) BY <2>2, <2>5, <1>4, Concatenated
    <3>2. LastFor(channel, y)' BY <3>1 DEF LastFor, y
    <3>3. ~ None(Out(t), n) BY <2>1, <2>5 DEF LastFor, None
    <3>4. \A u \in Thread \ {t} : None(Out(u), n) BY <3>3, OneBatch
    <3>5. \A u \in Thread : None(Out(u), n)' BY <3>4, <2>3, <1>6 DEF None
    <3> QED BY <3>2, <3>5 DEF Ahead, y
  <2>6. CASE \A u \in Thread : ~ LastFor(Out(u), y)
    <3>1. \A u \in Thread : None(Out(u), n) BY <2>6 DEF Ahead, y
    <3>2. \A u \in Thread : None(Out(u), n)' BY <3>1, <2>3, <1>6 DEF None
    <3>3. LastFor(channel, y) \/ (None(channel, n) /\ motor[n] = v) BY <2>6 DEF Ahead, y
    <3>4. LastFor(channel', y) \/ (None(channel', n) /\ motor'[n] = v)
      <4>1. None(Out(t), y.motor) BY <3>1, <2>1
      <4>2. /\ LastFor(channel, y) => LastFor(channel \o Out(t), y)
            /\ None(channel, y.motor) => None(channel \o Out(t), y.motor)
        BY <4>1, <2>2, Concatenated
      <4> QED BY <4>2, <3>3, <2>1, <1>1, <1>4
    <3>5. LastFor(channel, y)' \/ (None(channel, n)' /\ motor'[n] = v)
      BY <3>4 DEF LastFor, None, y
    <3> QED BY <3>2, <3>5 DEF Ahead, y
  <2> QED BY <2>4, <2>5, <2>6
<1>11. AheadInv'
  <2> SUFFICES ASSUME NEW n \in Motor PROVE missed'[n] \/ Ahead(n, cache[n])' \/ Stopped(n)'
    BY DEF AheadInv
  <2>1. missed[n] \/ Ahead(n, cache[n]) \/ Stopped(n) BY DEF AheadInv
  <2>2. Ahead(n, cache[n]) => Ahead(n, cache[n])'
    <3> DEFINE v == cache[n]
    <3>1. v' = v BY <1>1
    <3>2. Ahead(n, v) => Ahead(n, v)' BY <3>1, <1>10 DEF Ahead, LastFor
    <3> QED BY <3>2
  <2> QED BY <2>1, <2>2, <1>1, <1>10 DEF Stopped
<1>12. DecidedInv'
  <2> SUFFICES ASSUME NEW u \in Thread, NEW n \in Motor, Decided(u, n)'
               PROVE  Agree(call'[u].asked[n], cache[n])
    BY <1>1 DEF DecidedInv, Agree, Near
  <2> QED BY <1>6, <1>8 DEF DecidedInv
<1>13. MeantInv'
  <2> SUFFICES ASSUME NEW n \in Motor, \A u \in Thread : ~ Decided(u, n)'
               PROVE  \/ missed[n] \/ last'[n] = Skip
                      \/ Agree(last'[n], Mult(n) * cache[n])
                      \/ last'[n] = 0 /\ Stopped(n)'
    BY <1>1 DEF MeantInv, Mult, Agree, Near
  <2>1. CASE call[t].asked[n] # Skip
    <3>1. Decided(t, n) BY <2>1, <1>1 DEF Decided, Asked, Given
    <3>2. Agree(call[t].asked[n], cache[n]) BY <3>1 DEF DecidedInv
    <3>3. call[t].asked[n] \in Int /\ cache[n] \in Int BY <2>1 DEF TypeInv, CallType, Value
    <3>4. Agree(Mult(n) * call[t].asked[n], Mult(n) * cache[n])
      BY <3>2, <3>3, AgreeSigned DEF TypeInv
    <3> QED BY <3>4, <2>1, <1>1
  <2>2. CASE call[t].asked[n] = Skip
    <3>1. \A u \in Thread : ~ Decided(u, n) BY <2>2, <1>6 DEF Decided, Asked, Given
    <3>2. last'[n] = last[n] BY <2>2, <1>1
    <3>3. Stopped(n) => Stopped(n)' BY <1>1, <1>10 DEF Stopped
    <3> QED BY <3>1, <3>2, <3>3 DEF MeantInv
  <2> QED BY <2>1, <2>2
<1> QED BY <1>5, <1>9, <1>11, <1>12, <1>13

\* What follows from the calls alone stays where they, the cache and the directions do.
LEMMA CallsKept ==
  ASSUME PowerInv, UNCHANGED << hub, forward, cache, call >>
  PROVE  /\ CallInv' /\ DecidedInv'
         /\ \A u \in Thread : Out(u)' = Out(u)
         /\ \A u \in Thread : \A n \in Motor : Decided(u, n)' = Decided(u, n)
         /\ \A n \in Motor : Mult(n)' = Mult(n)
<1> USE DEF PowerInv
<1>1. \A u \in Thread : Kept(u) BY DEF Kept
<1>2. CallInv' BY <1>1, CallOkKept DEF CallInv
<1>3. \A u \in Thread : Out(u)' = Out(u) /\ \A n \in Motor : Decided(u, n)' = Decided(u, n)
  BY <1>1, KeptCall
<1>4. DecidedInv' BY <1>3 DEF DecidedInv, Agree, Near
<1> QED BY <1>2, <1>3, <1>4 DEF Mult

LEMMA RunKeeps ==
  ASSUME PowerInv, Run
  PROVE  PowerInv'
<1> USE DEF PowerInv
<1> DEFINE c == Head(channel)
<1>1. /\ channel # << >> /\ motor' = [motor EXCEPT ![c.motor] = c.power]
      /\ channel' = Tail(channel)
      /\ UNCHANGED << hub, forward, cache, call, last, missed >>
  BY DEF Run
<1>2. c \in Command /\ channel' \in Seq(Command) BY <1>1 DEF TypeInv
<1> HIDE DEF c
<1>3. TypeInv' BY <1>1, <1>2 DEF TypeInv, Command
<1>4. /\ CallInv' /\ DecidedInv'
      /\ \A u \in Thread : Out(u)' = Out(u)
      /\ \A u \in Thread : \A n \in Motor : Decided(u, n)' = Decided(u, n)
      /\ \A n \in Motor : Mult(n)' = Mult(n)
  BY <1>1, CallsKept
<1>5. \A n \in Motor : \A v : Ahead(n, v) => Ahead(n, v)'
  <2> SUFFICES ASSUME NEW n \in Motor, NEW v, Ahead(n, v) PROVE Ahead(n, v)' OBVIOUS
  <2> DEFINE y == [motor |-> n, power |-> v]
  <2>1. y.motor = n /\ y.power = v OBVIOUS
  <2> HIDE DEF y
  <2>2. \A u \in Thread : LastFor(Out(u), y)' = LastFor(Out(u), y) /\ None(Out(u), n)' = None(Out(u), n)
    BY <1>4 DEF LastFor, None, y
  <2>3. CASE \E u \in Thread : LastFor(Out(u), y)
    BY <2>2, <2>3 DEF Ahead, y
  <2>4. CASE /\ \A u \in Thread : None(Out(u), n)
             /\ LastFor(channel, y) \/ (None(channel, n) /\ motor[n] = v)
    <3>1. LastFor(channel, y) => LastFor(channel', y) \/ (None(channel', n) /\ motor'[n] = v)
      <4> SUFFICES ASSUME LastFor(channel, y), ~ LastFor(channel', y)
                   PROVE  None(channel', n) /\ motor'[n] = v
        OBVIOUS
      <4>1. channel \in Seq(Command) BY DEF TypeInv
      <4>2. None(channel', n) /\ c = y BY <4>1, <2>1, <1>1, CarriedOut DEF c
      <4>3. motor'[n] = v BY <4>2, <2>1, <1>1 DEF TypeInv
      <4> QED BY <4>2, <4>3
    <3>2. None(channel, n) => None(channel', n) /\ motor'[n] = motor[n]
      <4>1. channel \in Seq(Command) BY DEF TypeInv
      <4>2. None(channel, n) => None(channel', n) /\ c.motor # n
        BY <4>1, <2>1, <1>1, CarriedOut DEF c
      <4> QED BY <4>2, <1>1 DEF TypeInv
    <3>3. LastFor(channel, y)' \/ (None(channel, n)' /\ motor'[n] = v)
      BY <2>4, <3>1, <3>2 DEF LastFor, None, y
    <3> QED BY <2>2, <2>4, <3>3 DEF Ahead, y
  <2> QED BY <2>3, <2>4 DEF Ahead, y
<1>6. AheadInv'
  <2> SUFFICES ASSUME NEW n \in Motor PROVE missed'[n] \/ Ahead(n, cache[n])' \/ Stopped(n)'
    BY DEF AheadInv
  <2>1. missed[n] \/ Ahead(n, cache[n]) \/ Stopped(n) BY DEF AheadInv
  <2>2. Ahead(n, cache[n]) => Ahead(n, cache[n])'
    <3> DEFINE v == cache[n]
    <3>1. v' = v BY <1>1
    <3>2. Ahead(n, v) => Ahead(n, v)' BY <3>1, <1>5 DEF Ahead, LastFor
    <3> QED BY <3>2
  <2> QED BY <2>1, <2>2, <1>1, <1>5 DEF Stopped
<1>7. MeantInv'
  <2>1. \A n \in Motor : Stopped(n) => Stopped(n)' BY <1>1, <1>5 DEF Stopped
  <2> QED BY <2>1, <1>1, <1>4 DEF MeantInv, Agree, Near
<1> QED BY <1>3, <1>4, <1>6, <1>7

LEMMA SdkStopKeeps ==
  ASSUME PowerInv, NEW m \in Motor, SdkStop(m)
  PROVE  PowerInv'
<1> USE DEF PowerInv
<1>1. /\ "sdk" \in hub.uses /\ channel = << >> /\ \A u \in Thread : call[u].pc = "idle"
      /\ motor' = [motor EXCEPT ![m] = 0] /\ last' = [last EXCEPT ![m] = 0]
      /\ missed' = [missed EXCEPT ![m] = FALSE]
      /\ UNCHANGED << hub, forward, cache, call, channel >>
  BY DEF SdkStop, Quiet, Idle
<1>2. TypeInv' BY <1>1 DEF TypeInv, Value
<1>3. /\ CallInv' /\ DecidedInv'
      /\ \A u \in Thread : Out(u)' = Out(u)
      /\ \A u \in Thread : \A n \in Motor : Decided(u, n)' = Decided(u, n)
      /\ \A n \in Motor : Mult(n)' = Mult(n)
  BY <1>1, CallsKept
<1>4. Stopped(m)'
  <2>1. \A u \in Thread : None(Out(u), m)'
    <3>1. \A u \in Thread : Out(u) = << >> BY <1>1 DEF CallInv, CallOk, Out
    <3> QED BY <3>1, <1>3 DEF None
  <2>2. None(channel, m)' /\ motor'[m] = 0 BY <1>1 DEF None, TypeInv
  <2> QED BY <2>1, <2>2, <1>1 DEF Stopped, Ahead
<1>5. \A n \in Motor \ {m} : \A v : Ahead(n, v)' = Ahead(n, v)
  <2>1. \A n \in Motor \ {m} : motor'[n] = motor[n] BY <1>1 DEF TypeInv
  <2> QED BY <2>1, <1>1, <1>3, AheadKept
<1>6. AheadInv'
  <2> SUFFICES ASSUME NEW n \in Motor, n # m
               PROVE  missed'[n] \/ Ahead(n, cache[n])' \/ Stopped(n)'
    BY <1>4 DEF AheadInv
  <2>1. missed[n] \/ Ahead(n, cache[n]) \/ Stopped(n) BY DEF AheadInv
  <2>2. Ahead(n, cache[n]) => Ahead(n, cache[n])'
    <3> DEFINE v == cache[n]
    <3>1. v' = v BY <1>1
    <3>2. Ahead(n, v) => Ahead(n, v)' BY <3>1, <1>5 DEF Ahead, LastFor
    <3> QED BY <3>2
  <2> QED BY <2>1, <2>2, <1>1, <1>5 DEF Stopped, TypeInv
<1>7. MeantInv'
  <2> SUFFICES ASSUME NEW n \in Motor, \A u \in Thread : ~ Decided(u, n)'
               PROVE  \/ missed'[n] \/ last'[n] = Skip
                      \/ Agree(last'[n], Mult(n) * cache[n])
                      \/ last'[n] = 0 /\ Stopped(n)'
    BY <1>1, <1>3 DEF MeantInv, Agree, Near
  <2>1. CASE n = m BY <2>1, <1>1, <1>4 DEF TypeInv
  <2>2. CASE n # m
    <3>1. \A u \in Thread : ~ Decided(u, n) BY <1>3
    <3>2. missed'[n] = missed[n] /\ last'[n] = last[n] BY <2>2, <1>1 DEF TypeInv
    <3>3. Stopped(n) => Stopped(n)' BY <2>2, <1>1, <1>5 DEF Stopped
    <3> QED BY <3>1, <3>2, <3>3 DEF MeantInv
  <2> QED BY <2>1, <2>2
<1> QED BY <1>2, <1>3, <1>6, <1>7

\* What a call of the hub asks of its motors.
LEMMA AskedType ==
  ASSUME PowerInv, NEW t \in Thread
  PROVE  /\ \A m \in hub.team[t] : \A p \in Power \cup {Skip} :
              LET a == [NoPower EXCEPT ![m] = IF p = Skip THEN 0 ELSE Mult(m) * p]
              IN a \in [Motor -> Value] /\ Given(a) \subseteq hub.team[t]
         /\ \A ps \in [Motor -> Power \cup {Skip}] : Given(ps) \subseteq hub.team[t] =>
              LET a == [m \in Motor |-> IF ps[m] = Skip THEN Skip ELSE Mult(m) * ps[m]]
              IN a \in [Motor -> Value] /\ Given(a) \subseteq hub.team[t]
<1>1. hub.team[t] \subseteq Motor BY TeamIsOfMotors DEF PowerInv, TypeInv
<1>2. \A m \in Motor : \A p \in Power : Mult(m) * p \in Int
  BY Signed, CacheAssumption DEF PowerInv, TypeInv
<1>3. ASSUME NEW m \in hub.team[t], NEW p \in Power \cup {Skip}
      PROVE  LET a == [NoPower EXCEPT ![m] = IF p = Skip THEN 0 ELSE Mult(m) * p]
             IN a \in [Motor -> Value] /\ Given(a) \subseteq hub.team[t]
  <2> DEFINE q == IF p = Skip THEN 0 ELSE Mult(m) * p
             a == [NoPower EXCEPT ![m] = q]
  <2>1. q \in Int BY <1>1, <1>2, <1>3
  <2> HIDE DEF q
  <2>2. a \in [Motor -> Value] BY <2>1 DEF NoPower, Value
  <2>3. Given(a) \subseteq {m} BY DEF Given, NoPower
  <2> QED BY <2>2, <2>3 DEF q
<1>4. ASSUME NEW ps \in [Motor -> Power \cup {Skip}], Given(ps) \subseteq hub.team[t]
      PROVE  LET a == [m \in Motor |-> IF ps[m] = Skip THEN Skip ELSE Mult(m) * ps[m]]
             IN a \in [Motor -> Value] /\ Given(a) \subseteq hub.team[t]
  <2> DEFINE a == [m \in Motor |-> IF ps[m] = Skip THEN Skip ELSE Mult(m) * ps[m]]
  <2>1. a \in [Motor -> Value] BY <1>2 DEF Value
  <2>2. Given(a) \subseteq Given(ps) BY DEF Given
  <2> QED BY <2>1, <2>2, <1>4
<1> QED BY <1>3, <1>4

\* The step changes nothing that PowerInv is about.
LEMMA PowersKept ==
  ASSUME PowerInv, UNCHANGED << hub, powers >>
  PROVE  PowerInv'
<1> USE DEF PowerInv
<1>1. UNCHANGED << hub, forward, cache, call, channel, motor, last, missed >> BY DEF powers
<1>2. /\ CallInv' /\ DecidedInv'
      /\ \A u \in Thread : Out(u)' = Out(u)
      /\ \A u \in Thread : \A n \in Motor : Decided(u, n)' = Decided(u, n)
      /\ \A n \in Motor : Mult(n)' = Mult(n)
  BY <1>1, CallsKept
<1>3. TypeInv' BY <1>1 DEF TypeInv
<1>4. \A n \in Motor : \A v : Ahead(n, v)' = Ahead(n, v) BY <1>1, <1>2, AheadKept
<1>5. AheadInv' BY <1>1, <1>4 DEF AheadInv, Stopped
<1>6. \A n \in Motor : Stopped(n)' = Stopped(n) BY <1>1, <1>4 DEF Stopped
<1>7. MeantInv' BY <1>1, <1>2, <1>6 DEF MeantInv, Agree, Near
<1> QED BY <1>2, <1>3, <1>5, <1>7

LEMMA PowerInit ==
  ASSUME Init
  PROVE  PowerInv
<1> USE DEF Init
<1>1. NoCall \in CallType BY CacheAssumption DEF NoCall, NoPower, CallType, Value
<1>2. \A t \in Thread : call[t] = NoCall OBVIOUS
<1> HIDE DEF NoCall
<1>3. TypeInv BY <1>1 DEF TypeInv, Value
<1>4. CallInv BY <1>2 DEF CallInv, CallOk, NoCall
<1>5. \A t \in Thread : \A m \in Motor : ~ Decided(t, m) BY <1>2 DEF Decided, NoCall
<1>6. \A t \in Thread : Out(t) = << >> BY <1>2 DEF Out, NoCall
<1>7. AheadInv BY <1>6 DEF AheadInv, Ahead, None
<1>8. \A m \in Motor : last[m] = 0 /\ Mult(m) * cache[m] = 0 BY DEF Mult
<1>9. MeantInv BY <1>8, CacheAssumption DEF MeantInv, Agree, Near
<1> QED BY <1>3, <1>4, <1>5, <1>7, <1>9 DEF PowerInv, DecidedInv

LEMMA PowerNext ==
  ASSUME Disjoint, PowerInv, [Next]_vars
  PROVE  PowerInv'
<1>1. CASE UNCHANGED vars BY <1>1, PowersKept DEF vars
<1>2. ASSUME NEW t \in Thread, Powers(t) PROVE PowerInv'
  <2>1. hub.team[t] \subseteq Motor BY TeamIsOfMotors DEF PowerInv, TypeInv
  <2>2. ASSUME NEW m \in hub.team[t], NEW fwd \in BOOLEAN, SetDirection(t, m, fwd) PROVE PowerInv'
    BY <2>1, <2>2, SetDirectionKeeps
  <2>3. ASSUME NEW m \in hub.team[t], NEW p \in Power \cup {Skip}, Single(t, m, p) PROVE PowerInv'
    <3> DEFINE a == [NoPower EXCEPT ![m] = IF p = Skip THEN 0 ELSE Mult(m) * p]
    <3>1. a \in [Motor -> Value] /\ Given(a) \subseteq hub.team[t] BY AskedType
    <3>2. Begin(t, FALSE, a) BY <2>3 DEF Single
    <3> HIDE DEF a
    <3> QED BY <3>1, <3>2, BeginKeeps
  <2>4. ASSUME NEW ps \in [Motor -> Power \cup {Skip}], Given(ps) \subseteq hub.team[t], Batch(t, ps)
        PROVE  PowerInv'
    <3> DEFINE a == [m \in Motor |-> IF ps[m] = Skip THEN Skip ELSE Mult(m) * ps[m]]
    <3>1. a \in [Motor -> Value] /\ Given(a) \subseteq hub.team[t] BY <2>4, AskedType
    <3>2. Begin(t, TRUE, a) BY <2>4 DEF Batch
    <3> HIDE DEF a
    <3> QED BY <3>1, <3>2, BeginKeeps
  <2>5. ASSUME NEW m \in Motor, Load(t, m) \/ Leave(t, m) \/ Store(t, m) PROVE PowerInv'
    BY <2>5, LoadKeeps, LeaveKeeps, StoreKeeps
  <2>6. CASE Finish(t) BY <2>6, FinishKeeps
  <2> QED BY <1>2, <2>2, <2>3, <2>4, <2>5, <2>6 DEF Powers
<1>3. ASSUME NEW t \in Thread, Behaviors(t) PROVE PowerInv'
  <2>1. UNCHANGED << hub, powers >>
    BY <1>3 DEF Behaviors, SetZeroPowerBehavior, SetMotorMode, SetBehavior, BeginSetting,
                SendBehavior, StoreMode, StoreZero
  <2> QED BY <2>1, PowersKept
<1>4. CASE Run BY <1>4, RunKeeps
<1>5. CASE Obey BY <1>5, PowersKept DEF Obey
<1>6. ASSUME NEW m \in Motor, SdkStop(m) \/ \E b \in Behavior : SdkBehave(m, b) PROVE PowerInv'
  BY <1>6, SdkStopKeeps, PowersKept DEF SdkBehave
<1> QED BY <1>1, <1>2, <1>3, <1>4, <1>5, <1>6 DEF Next

\* Where each motor has one thread that commands it, what is on its way to a motor always
\* agrees with the cache, and the cache with what was last asked for, but for what a dropped
\* batch or the SDK explains (hardware.rs:219).
THEOREM PowerInvariant ==
  ASSUME Disjoint
  PROVE  Spec => []PowerInv
<1>1. Init => PowerInv BY PowerInit
<1>2. PowerInv /\ [Next]_vars => PowerInv' BY PowerNext
<1> QED BY <1>1, <1>2, PTL DEF Spec

\* With nothing on its way, a motor is where the cache says, or stopped by the SDK.
LEMMA QuietAhead ==
  ASSUME PowerInv, Quiet, NEW m \in Motor, NEW v, Ahead(m, v)
  PROVE  motor[m] = v
<1>1. \A t \in Thread : Out(t) = << >> BY DEF Quiet, Idle, Out, PowerInv, CallInv, CallOk
<1>2. \A x : ~ LastFor(<< >>, x) BY DEF LastFor
<1> QED BY <1>1, <1>2 DEF Quiet, Ahead

\* A motor told to stop stands still when nothing is under way (hardware.rs:223, 251), for
\* any threads, powers and threshold, where each motor has one thread that commands it.
THEOREM MotorsStop ==
  ASSUME Disjoint
  PROVE  Spec => []StoppedWhenTold
<1>1. ASSUME PowerInv, Quiet, NEW m \in Motor, last[m] = 0, ~ missed[m]
      PROVE  motor[m] = 0
  <2>1. \A t \in Thread : ~ Decided(t, m) BY <1>1 DEF Quiet, Idle, Decided
  <2>2. Agree(last[m], Mult(m) * cache[m]) \/ Stopped(m)
    BY <1>1, <2>1, CacheAssumption DEF PowerInv, MeantInv
  <2>3. CASE Stopped(m) BY <1>1, <2>3, QuietAhead DEF Stopped
  <2>4. CASE Agree(last[m], Mult(m) * cache[m]) /\ ~ Stopped(m)
    <3>1. cache[m] \in Int /\ cache[m] = 0
      BY <1>1, <2>4 DEF PowerInv, TypeInv, Agree, Mult
    <3>2. Ahead(m, cache[m]) BY <1>1, <2>4 DEF PowerInv, AheadInv
    <3> QED BY <1>1, <3>1, <3>2, QuietAhead
  <2> QED BY <2>2, <2>3, <2>4
<1>2. PowerInv => StoppedWhenTold BY <1>1 DEF StoppedWhenTold
<1> QED BY <1>2, PowerInvariant, PTL

\* Bulk data show each motor at what was last asked of it, within the threshold, when nothing
\* is under way: commands left out never add up (hardware.rs:222), whatever the directions
\* (hardware.rs:97, 211).
THEOREM MotorsClose ==
  ASSUME Disjoint
  PROVE  Spec => []CloseToAsked
<1>1. ASSUME PowerInv, Quiet, NEW m \in Motor, last[m] # Skip, ~ missed[m],
             ~ ("sdk" \in hub.uses /\ motor[m] = 0)
      PROVE  Near(Shown(m), last[m])
  <2>1. \A t \in Thread : ~ Decided(t, m) BY <1>1 DEF Quiet, Idle, Decided
  <2>2. ~ Stopped(m) BY <1>1, QuietAhead DEF Stopped
  <2>3. Agree(last[m], Mult(m) * cache[m]) BY <1>1, <2>1, <2>2 DEF PowerInv, MeantInv
  <2>4. motor[m] = cache[m] BY <1>1, <2>2, QuietAhead DEF PowerInv, AheadInv
  <2> QED BY <2>3, <2>4 DEF Agree, Shown
<1>2. PowerInv => CloseToAsked BY <1>1 DEF CloseToAsked
<1> QED BY <1>2, PowerInvariant, PTL

-----------------------------------------------------------------------------
(* Behaviours.                                                             *)

SettingType ==
  [pc : {"idle", "read", "sent", "half"}, motor : Motor, what : SUBSET Part, to : Behavior,
   clash : BOOLEAN]

\* All of a setting but its clash stays.
SettingKept(u) ==
  /\ setting'[u].pc = setting[u].pc /\ setting'[u].motor = setting[u].motor
  /\ setting'[u].what = setting[u].what /\ setting'[u].to = setting[u].to

LEMMA SettingClashKeeps ==
  ASSUME ModeTypeInv, NEW U, NEW u \in Thread
  PROVE  /\ Clash(setting, U)[u] \in SettingType
         /\ Clash(setting, U)[u].pc = setting[u].pc /\ Clash(setting, U)[u].motor = setting[u].motor
         /\ Clash(setting, U)[u].what = setting[u].what /\ Clash(setting, U)[u].to = setting[u].to
BY DEF ModeTypeInv, SettingType, Clash

\* Behaviours on their way stay where nothing is sent or carried out.
LEMMA DrivenKept ==
  ASSUME orders' = orders, NEW m, drive'[m] = drive[m], NEW b
  PROVE  Driven(m, b)' = Driven(m, b)
BY DEF Driven, LastFor, None

\* Threads set the behaviours of their own motors.
LEMMA OneSetting ==
  ASSUME Disjoint, ModeTypeInv, SettingInv, NEW t \in Thread, NEW u \in Thread, t # u,
         setting[t].pc # "idle", setting[u].pc # "idle"
  PROVE  setting[t].motor # setting[u].motor
<1>1. setting[t].motor \in hub.team[t] /\ setting[u].motor \in hub.team[u]
  BY DEF SettingInv, SettingOk
<1> QED BY <1>1 DEF Disjoint, ModeTypeInv

LEMMA BeginSettingKeeps ==
  ASSUME ModeInv, NEW t \in Thread, NEW m \in hub.team[t], NEW what \in SUBSET Part,
         NEW to \in Behavior,
         "mode" \notin what => to.mode = behaviors[m].mode,
         "zero" \notin what => to.zero = behaviors[m].zero,
         BeginSetting(t, m, what, to)
  PROVE  ModeInv'
<1> USE DEF ModeInv
<1> DEFINE R == RivalSettings(t, m)
           new == [pc |-> "read", motor |-> m, what |-> what, to |-> to, clash |-> R # {}]
<1>1. /\ setting[t].pc = "idle"
      /\ setting' = [Clash(setting, R) EXCEPT ![t] = new]
      /\ UNCHANGED << hub, behaviors, orders, drive, wanted >>
  BY DEF BeginSetting, Idle
<1>2. m \in Motor BY TeamIsOfMotors DEF ModeTypeInv
<1>3. setting'[t] = new /\ \A u \in Thread \ {t} : setting'[u] = Clash(setting, R)[u]
  BY <1>1 DEF Clash
<1>4. \A u \in Thread \ {t} : SettingKept(u) BY <1>3, SettingClashKeeps DEF SettingKept
<1>5. ModeTypeInv'
  <2>1. new \in SettingType BY <1>2 DEF SettingType
  <2> HIDE DEF new
  <2>2. \A u \in Thread : setting'[u] \in SettingType BY <1>3, <2>1, SettingClashKeeps
  <2>3. setting' = [u \in Thread |-> setting'[u]] BY <1>1 DEF Clash
  <2>4. setting' \in [Thread -> SettingType] BY <2>2, <2>3
  <2> QED BY <1>1, <2>4 DEF ModeTypeInv, SettingType
<1>6. \A n, b : Driven(n, b)' = Driven(n, b) BY <1>1, DrivenKept
<1>7. SettingInv'
  <2> SUFFICES ASSUME NEW u \in Thread, setting'[u].pc # "idle" PROVE SettingOk(u)'
    BY DEF SettingInv
  <2>1. CASE u = t BY <2>1, <1>1, <1>3 DEF SettingOk
  <2>2. CASE u # t BY <2>2, <1>1, <1>4, <1>6 DEF SettingInv, SettingOk, SettingKept
  <2> QED BY <2>1, <2>2
<1>8. \A u \in Thread : \A n : Storing(u, n)' <=> Storing(u, n)
  BY <1>1, <1>3, <1>4 DEF Storing, SettingKept
<1>9. GrantInv' BY <1>1, <1>6, <1>8 DEF GrantInv, Grants
<1>10. KeptInv'
  <2> SUFFICES ASSUME NEW u \in Thread, setting'[u].pc \in {"sent", "half"} PROVE KeptOk(u)'
    BY DEF KeptInv
  <2>1. u # t BY <1>3
  <2> QED BY <2>1, <1>1, <1>4 DEF KeptInv, KeptOk, SettingKept
<1> QED BY <1>5, <1>7, <1>9, <1>10

LEMMA SendBehaviorKeeps ==
  ASSUME Disjoint, ModeInv, NEW t \in Thread, SendBehavior(t)
  PROVE  ModeInv'
<1> USE DEF ModeInv
<1> DEFINE s == setting[t]
           x == [motor |-> s.motor, to |-> s.to]
<1>1. /\ s.pc = "read" /\ orders' = Append(orders, x)
      /\ setting' = [setting EXCEPT ![t].pc = "sent"]
      /\ UNCHANGED << hub, behaviors, drive, wanted >>
  BY DEF SendBehavior
<1>2. s \in SettingType BY DEF ModeTypeInv, SettingType
<1>3. x \in Order /\ x.motor = s.motor BY <1>2 DEF SettingType, Order
<1>4. orders \in Seq(Order) BY DEF ModeTypeInv
<1> HIDE DEF x
<1>5. /\ setting'[t].pc = "sent" /\ setting'[t].motor = s.motor
      /\ setting'[t].what = s.what /\ setting'[t].to = s.to
  BY <1>1, <1>2 DEF ModeTypeInv, SettingType
<1>6. \A u \in Thread \ {t} : setting'[u] = setting[u] BY <1>1 DEF ModeTypeInv
<1>7. ModeTypeInv'
  <2>1. orders' \in Seq(Order) BY <1>1, <1>3, <1>4
  <2> QED BY <1>1, <2>1 DEF ModeTypeInv
<1>8. \A n : n # s.motor => \A b : Driven(n, b) => Driven(n, b)'
  <2> SUFFICES ASSUME NEW n, n # s.motor, NEW b, Driven(n, b) PROVE Driven(n, b)' OBVIOUS
  <2> DEFINE y == [motor |-> n, to |-> b]
  <2>1. y.motor = n OBVIOUS
  <2> HIDE DEF y
  <2>2. LastFor(orders, y) \/ (None(orders, n) /\ drive[n] = b) BY DEF Driven, y
  <2>3. LastFor(orders', y) \/ (None(orders', n) /\ drive[n] = b)
    BY <2>1, <2>2, <1>1, <1>3, <1>4, AppendedElsewhere
  <2>4. LastFor(orders, y)' \/ (None(orders, n)' /\ drive[n] = b) BY <2>3 DEF LastFor, None, y
  <2> QED BY <2>4, <1>1 DEF Driven, y
<1>9. Driven(s.motor, s.to)'
  <2>1. LastFor(orders', x) BY <1>1, <1>3, <1>4, AppendedIsLast
  <2>2. x' = [motor |-> s'.motor, to |-> s'.to] BY DEF x
  <2>3. x' = x BY <1>5 DEF x
  <2>4. LastFor(orders, x)' BY <2>1, <2>3 DEF LastFor
  <2> QED BY <2>4 DEF Driven, x
<1>10. \A u \in Thread \ {t} : setting[u].pc # "idle" => setting[u].motor # s.motor
  BY <1>1, OneSetting
<1>11. SettingInv'
  <2> SUFFICES ASSUME NEW u \in Thread, setting'[u].pc # "idle" PROVE SettingOk(u)'
    BY DEF SettingInv
  <2>1. CASE u = t
    <3>1. SettingOk(t) BY <1>1 DEF SettingInv
    <3> QED BY <2>1, <3>1, <1>1, <1>5, <1>9 DEF SettingOk
  <2>2. CASE u # t
    <3>1. SettingOk(u) BY <2>2, <1>6 DEF SettingInv
    <3>2. Driven(setting[u].motor, setting[u].to) => Driven(setting[u].motor, setting[u].to)'
      <4> DEFINE n == setting[u].motor
                 b == setting[u].to
      <4>1. n' = n /\ b' = b BY <2>2, <1>6
      <4>2. Driven(n, b) => Driven(n, b)'
        BY <2>2, <4>1, <1>6, <1>8, <1>10 DEF Driven, LastFor, None
      <4> QED BY <4>2
    <3> QED BY <2>2, <3>1, <3>2, <1>1, <1>6 DEF SettingOk
  <2> QED BY <2>1, <2>2
<1>12. \A u \in Thread : \A n : Storing(u, n)' <=> (Storing(u, n) \/ (u = t /\ n = s.motor))
  BY <1>1, <1>5, <1>6 DEF Storing
<1>13. GrantInv'
  <2> SUFFICES ASSUME NEW n \in Motor, \A u \in Thread : ~ Storing(u, n)'
               PROVE  /\ Grants(wanted[n], behaviors[n])
                      /\ \E b \in Behavior : Driven(n, b)' /\ Grants(wanted[n], b)
    BY <1>1 DEF GrantInv, Grants
  <2>1. n # s.motor /\ \A u \in Thread : ~ Storing(u, n) BY <1>12
  <2> QED BY <2>1, <1>8 DEF GrantInv
<1>14. KeptInv'
  <2> SUFFICES ASSUME NEW u \in Thread, setting'[u].pc \in {"sent", "half"} PROVE KeptOk(u)'
    BY DEF KeptInv
  <2>1. CASE u = t
    <3>1. \A v \in Thread : ~ Storing(v, s.motor) BY <1>1, <1>10 DEF Storing
    <3>2. Grants(wanted[s.motor], behaviors[s.motor])
      BY <3>1, <1>2 DEF GrantInv, SettingType
    <3>3. SettingOk(t) BY <1>1 DEF SettingInv
    <3> QED BY <2>1, <3>2, <3>3, <1>1, <1>5 DEF KeptOk, Grants, SettingOk
  <2>2. CASE u # t BY <2>2, <1>1, <1>6 DEF KeptInv, KeptOk
  <2> QED BY <2>1, <2>2
<1> QED BY <1>7, <1>11, <1>13, <1>14

LEMMA StoreModeKeeps ==
  ASSUME Disjoint, ModeInv, NEW t \in Thread, StoreMode(t)
  PROVE  ModeInv'
<1> USE DEF ModeInv
<1> DEFINE s == setting[t]
<1>1. /\ s.pc = "sent"
      /\ behaviors' = [behaviors EXCEPT ![s.motor].mode = s.to.mode]
      /\ setting' = [setting EXCEPT ![t].pc = "half"]
      /\ UNCHANGED << hub, orders, drive, wanted >>
  BY DEF StoreMode
<1>2. /\ s \in SettingType /\ s.motor \in Motor /\ s.to.mode \in RunMode
      /\ behaviors[s.motor] \in Behavior
  BY DEF ModeTypeInv, SettingType, Behavior
<1>3. /\ setting'[t].pc = "half" /\ setting'[t].motor = s.motor
      /\ setting'[t].what = s.what /\ setting'[t].to = s.to
  BY <1>1, <1>2 DEF ModeTypeInv, SettingType
<1>4. \A u \in Thread \ {t} : setting'[u] = setting[u] BY <1>1 DEF ModeTypeInv
<1>5. /\ behaviors'[s.motor].mode = s.to.mode
      /\ behaviors'[s.motor].zero = behaviors[s.motor].zero
      /\ \A n \in Motor : n # s.motor => behaviors'[n] = behaviors[n]
  BY <1>1, <1>2 DEF ModeTypeInv, Behavior
<1>6. ModeTypeInv' BY <1>1, <1>2, Zenon DEF ModeTypeInv, Behavior
<1>7. \A n, b : Driven(n, b)' = Driven(n, b) BY <1>1, DrivenKept
<1>8. \A u \in Thread \ {t} : setting[u].pc # "idle" => setting[u].motor # s.motor
  BY <1>1, OneSetting
<1>9. SettingInv'
  <2> SUFFICES ASSUME NEW u \in Thread, setting'[u].pc # "idle" PROVE SettingOk(u)'
    BY DEF SettingInv
  <2>1. CASE u = t
    <3>1. SettingOk(t) BY <1>1 DEF SettingInv
    <3> QED BY <2>1, <3>1, <1>1, <1>3, <1>5, <1>7 DEF SettingOk
  <2>2. CASE u # t
    <3>1. SettingOk(u) BY <2>2, <1>4 DEF SettingInv
    <3>2. setting[u].motor \in Motor BY DEF ModeTypeInv
    <3>3. behaviors'[setting[u].motor] = behaviors[setting[u].motor]
      BY <2>2, <3>2, <1>4, <1>5, <1>8
    <3> QED BY <2>2, <3>1, <3>3, <1>1, <1>4, <1>7 DEF SettingOk
  <2> QED BY <2>1, <2>2
<1>10. \A u \in Thread : \A n : Storing(u, n)' <=> Storing(u, n)
  BY <1>1, <1>3, <1>4 DEF Storing
<1>11. GrantInv'
  <2> SUFFICES ASSUME NEW n \in Motor, \A u \in Thread : ~ Storing(u, n)
               PROVE  /\ Grants(wanted[n], behaviors'[n])
                      /\ \E b \in Behavior : Driven(n, b) /\ Grants(wanted[n], b)
    BY <1>1, <1>7, <1>10 DEF GrantInv, Grants
  <2>1. n # s.motor BY <1>1 DEF Storing
  <2> QED BY <2>1, <1>5 DEF GrantInv
<1>12. KeptInv'
  <2> SUFFICES ASSUME NEW u \in Thread, setting'[u].pc \in {"sent", "half"} PROVE KeptOk(u)'
    BY DEF KeptInv
  <2>1. CASE u = t
    <3>1. KeptOk(t) BY <1>1 DEF KeptInv
    <3> QED BY <2>1, <3>1, <1>1, <1>3 DEF KeptOk
  <2>2. CASE u # t BY <2>2, <1>1, <1>4 DEF KeptInv, KeptOk
  <2> QED BY <2>1, <2>2
<1> QED BY <1>6, <1>9, <1>11, <1>12

LEMMA StoreZeroKeeps ==
  ASSUME Disjoint, ModeInv, NEW t \in Thread, StoreZero(t)
  PROVE  ModeInv'
<1> USE DEF ModeInv
<1> DEFINE s == setting[t]
           w == Wish(s, wanted[s.motor])
<1>1. /\ s.pc = "half"
      /\ behaviors' = [behaviors EXCEPT ![s.motor].zero = s.to.zero]
      /\ wanted' = [wanted EXCEPT ![s.motor] = w]
      /\ setting' = [setting EXCEPT ![t] = NoSetting]
      /\ UNCHANGED << hub, orders, drive >>
  BY DEF StoreZero
<1>2. /\ s \in SettingType /\ s.motor \in Motor /\ s.to \in Behavior
      /\ s.to.mode \in RunMode /\ s.to.zero \in ZeroPower
      /\ behaviors[s.motor] \in Behavior
  BY DEF ModeTypeInv, SettingType, Behavior
<1>3. setting'[t] = NoSetting /\ \A u \in Thread \ {t} : setting'[u] = setting[u]
  BY <1>1 DEF ModeTypeInv
<1>4. SettingOk(t) /\ KeptOk(t) BY <1>1 DEF SettingInv, KeptInv
<1>5. /\ behaviors'[s.motor].mode = s.to.mode /\ behaviors'[s.motor].zero = s.to.zero
      /\ \A n \in Motor : n # s.motor => behaviors'[n] = behaviors[n]
  BY <1>1, <1>2, <1>4 DEF ModeTypeInv, Behavior, SettingOk
<1>6. w.mode \in {Skip, s.to.mode} /\ w.zero \in {Skip, s.to.zero} BY <1>4 DEF Wish, KeptOk
<1>7. \A n, b : Driven(n, b)' = Driven(n, b) BY <1>1, DrivenKept
<1>8. \A u \in Thread \ {t} : setting[u].pc # "idle" => setting[u].motor # s.motor
  BY <1>1, OneSetting
<1>9. wanted'[s.motor] = w /\ \A n \in Motor : n # s.motor => wanted'[n] = wanted[n]
  BY <1>1, <1>2 DEF ModeTypeInv
<1>10. w \in [mode : RunMode \cup {Skip}, zero : ZeroPower \cup {Skip}]
  <2>1. w = [mode |-> w.mode, zero |-> w.zero] BY DEF Wish
  <2> HIDE DEF w
  <2> QED BY <2>1, <1>2, <1>6
<1> HIDE DEF w
<1>11. ModeTypeInv'
  <2>1. setting'[t] \in SettingType
    <3>1. 0 \in Motor BY <1>2, CacheAssumption DEF Motor
    <3> QED BY <3>1, <1>3, CacheAssumption DEF NoSetting, SettingType, Behavior
  <2>2. setting' \in [Thread -> SettingType] BY <1>1, <1>3, <2>1 DEF ModeTypeInv, SettingType
  <2>3. behaviors' \in [Motor -> Behavior] BY <1>1, <1>2 DEF ModeTypeInv, Behavior
  <2>4. wanted' \in [Motor -> [mode : RunMode \cup {Skip}, zero : ZeroPower \cup {Skip}]]
    BY <1>1, <1>10 DEF ModeTypeInv
  <2> QED BY <1>1, <2>2, <2>3, <2>4 DEF ModeTypeInv, SettingType
<1>12. SettingInv'
  <2> SUFFICES ASSUME NEW u \in Thread, setting'[u].pc # "idle" PROVE SettingOk(u)'
    BY DEF SettingInv
  <2>1. u # t BY <1>3 DEF NoSetting
  <2>2. SettingOk(u) BY <2>1, <1>3 DEF SettingInv
  <2>3. setting[u].motor \in Motor BY DEF ModeTypeInv
  <2>4. behaviors'[setting[u].motor] = behaviors[setting[u].motor] BY <2>1, <2>3, <1>3, <1>5, <1>8
  <2> QED BY <2>1, <2>2, <2>4, <1>1, <1>3, <1>7 DEF SettingOk
<1>13. \A u \in Thread : \A n : Storing(u, n) => Storing(u, n)' \/ (u = t /\ n = s.motor)
  BY <1>3 DEF Storing
<1>14. GrantInv'
  <2> SUFFICES ASSUME NEW n \in Motor, \A u \in Thread : ~ Storing(u, n)'
               PROVE  /\ Grants(wanted'[n], behaviors'[n])
                      /\ \E b \in Behavior : Driven(n, b) /\ Grants(wanted'[n], b)
    BY <1>7 DEF GrantInv, Grants
  <2>1. CASE n = s.motor
    <3>1. Driven(n, s.to) BY <2>1, <1>1, <1>4 DEF SettingOk
    <3> QED BY <2>1, <3>1, <1>2, <1>5, <1>6, <1>9 DEF Grants
  <2>2. CASE n # s.motor
    <3>1. \A u \in Thread : ~ Storing(u, n) BY <2>2, <1>13
    <3> QED BY <2>2, <3>1, <1>5, <1>9 DEF GrantInv
  <2> QED BY <2>1, <2>2
<1>15. KeptInv'
  <2> SUFFICES ASSUME NEW u \in Thread, setting'[u].pc \in {"sent", "half"} PROVE KeptOk(u)'
    BY DEF KeptInv
  <2>1. u # t BY <1>3 DEF NoSetting
  <2>2. KeptOk(u) /\ setting[u].motor # s.motor BY <2>1, <1>3, <1>8 DEF KeptInv
  <2>3. wanted'[setting[u].motor] = wanted[setting[u].motor] BY <2>2, <1>9 DEF ModeTypeInv
  <2> QED BY <2>1, <2>2, <2>3, <1>3 DEF KeptOk
<1> QED BY <1>11, <1>12, <1>14, <1>15

LEMMA ObeyKeeps ==
  ASSUME ModeInv, Obey
  PROVE  ModeInv'
<1> USE DEF ModeInv
<1> DEFINE o == Head(orders)
<1>1. /\ orders # << >> /\ drive' = [drive EXCEPT ![o.motor] = o.to]
      /\ orders' = Tail(orders)
      /\ UNCHANGED << hub, behaviors, setting, wanted >>
  BY DEF Obey
<1>2. orders \in Seq(Order) /\ o \in Order /\ orders' \in Seq(Order) BY <1>1 DEF ModeTypeInv
<1> HIDE DEF o
<1>3. ModeTypeInv' BY <1>1, <1>2 DEF ModeTypeInv, Order
<1>4. \A n \in Motor : \A b : Driven(n, b) => Driven(n, b)'
  <2> SUFFICES ASSUME NEW n \in Motor, NEW b, Driven(n, b) PROVE Driven(n, b)' OBVIOUS
  <2> DEFINE y == [motor |-> n, to |-> b]
  <2>1. y.motor = n /\ y.to = b OBVIOUS
  <2>2. LastFor(orders, y) \/ (None(orders, n) /\ drive[n] = b) BY DEF Driven
  <2> HIDE DEF y
  <2>3. LastFor(orders, y) => LastFor(orders', y) \/ (None(orders', n) /\ o = y)
    BY <2>1, <1>1, <1>2, CarriedOut DEF o
  <2>4. None(orders, n) => None(orders', n) /\ o.motor # n
    BY <2>1, <1>1, <1>2, CarriedOut DEF o
  <2>5. /\ o = y => drive'[n] = b
        /\ o.motor # n => drive'[n] = drive[n]
    BY <2>1, <1>1 DEF ModeTypeInv
  <2>6. LastFor(orders', y) \/ (None(orders', n) /\ drive'[n] = b) BY <2>2, <2>3, <2>4, <2>5
  <2>7. LastFor(orders, y)' \/ (None(orders, n)' /\ drive'[n] = b) BY <2>6 DEF LastFor, None, y
  <2> QED BY <2>7 DEF Driven, y
<1>5. SettingInv'
  <2> SUFFICES ASSUME NEW u \in Thread, setting'[u].pc # "idle" PROVE SettingOk(u)'
    BY DEF SettingInv
  <2>1. SettingOk(u) BY <1>1 DEF SettingInv
  <2>2. Driven(setting[u].motor, setting[u].to) => Driven(setting[u].motor, setting[u].to)'
    <3> DEFINE n == setting[u].motor
               b == setting[u].to
    <3>1. n' = n /\ b' = b BY <1>1
    <3>2. n \in Motor BY DEF ModeTypeInv
    <3>3. Driven(n, b) => Driven(n, b)' BY <3>1, <3>2, <1>4 DEF Driven, LastFor, None
    <3> QED BY <3>3
  <2> QED BY <2>1, <2>2, <1>1 DEF SettingOk
<1>6. GrantInv' BY <1>1, <1>4 DEF GrantInv, Grants, Storing
<1>7. KeptInv' BY <1>1 DEF KeptInv, KeptOk
<1> QED BY <1>3, <1>5, <1>6, <1>7

LEMMA SdkBehaveKeeps ==
  ASSUME ModeInv, NEW m \in Motor, NEW b \in Behavior, SdkBehave(m, b)
  PROVE  ModeInv'
<1> USE DEF ModeInv
<1>1. /\ orders = << >> /\ \A u \in Thread : setting[u].pc = "idle"
      /\ drive' = [drive EXCEPT ![m] = b]
      /\ wanted' = [wanted EXCEPT ![m] = [mode |-> Skip, zero |-> Skip]]
      /\ UNCHANGED << hub, behaviors, setting, orders >>
  BY DEF SdkBehave, Quiet, Idle
<1>2. ModeTypeInv' BY <1>1 DEF ModeTypeInv
<1>3. SettingInv' /\ KeptInv' BY <1>1 DEF SettingInv, KeptInv
<1>4. GrantInv'
  <2> SUFFICES ASSUME NEW n \in Motor
               PROVE  /\ Grants(wanted'[n], behaviors[n])
                      /\ \E c \in Behavior : Driven(n, c)' /\ Grants(wanted'[n], c)
    BY <1>1 DEF GrantInv, Grants
  <2>1. CASE n = m
    <3>1. Driven(m, b)' BY <1>1 DEF Driven, None, ModeTypeInv
    <3>2. wanted'[m] = [mode |-> Skip, zero |-> Skip] BY <1>1 DEF ModeTypeInv
    <3> QED BY <2>1, <3>1, <3>2 DEF Grants
  <2>2. CASE n # m
    <3>1. drive'[n] = drive[n] /\ wanted'[n] = wanted[n] BY <2>2, <1>1 DEF ModeTypeInv
    <3>2. \A c : Driven(n, c)' = Driven(n, c) BY <3>1, <1>1, DrivenKept
    <3>3. \A u \in Thread : ~ Storing(u, n) BY <1>1 DEF Storing
    <3> QED BY <3>1, <3>2, <3>3 DEF GrantInv
  <2> QED BY <2>1, <2>2
<1> QED BY <1>2, <1>3, <1>4

LEMMA ModesKept ==
  ASSUME ModeInv, UNCHANGED << hub, modes >>
  PROVE  ModeInv'
<1>1. UNCHANGED << hub, behaviors, setting, orders, drive, wanted >> BY DEF modes
<1>2. \A n, b : Driven(n, b)' = Driven(n, b) BY <1>1, DrivenKept
<1>3. ModeTypeInv' BY <1>1 DEF ModeInv, ModeTypeInv
<1>4. SettingInv' BY <1>1, <1>2 DEF ModeInv, SettingInv, SettingOk
<1>5. GrantInv' BY <1>1, <1>2 DEF ModeInv, GrantInv, Grants, Storing
<1>6. KeptInv' BY <1>1 DEF ModeInv, KeptInv, KeptOk
<1> QED BY <1>3, <1>4, <1>5, <1>6 DEF ModeInv

LEMMA ModeInit ==
  ASSUME Init
  PROVE  ModeInv
<1> USE DEF Init
<1>2. /\ hub \in Instances /\ setting = [t \in Thread |-> NoSetting] /\ orders = << >>
      /\ behaviors = [m \in Motor |-> [mode |-> 0, zero |-> 0]]
      /\ drive = [m \in Motor |-> [mode |-> 0, zero |-> 0]]
      /\ wanted = [m \in Motor |-> [mode |-> 0, zero |-> 0]]
  OBVIOUS
<1> HIDE DEF Init
<1>3. ModeTypeInv
  <2>1. [mode |-> 0, zero |-> 0] \in Behavior BY CacheAssumption DEF Behavior
  <2>2. NoSetting \in SettingType BY <2>1, CacheAssumption DEF NoSetting, SettingType, Motor
  <2>3. setting \in [Thread -> SettingType] BY <1>2, <2>2
  <2> QED BY <1>2, <2>1, <2>3, CacheAssumption DEF ModeTypeInv, SettingType
<1>4. \A t \in Thread : setting[t].pc = "idle" BY <1>2 DEF NoSetting
<1>5. SettingInv /\ KeptInv BY <1>4 DEF SettingInv, KeptInv
<1>6. \A m \in Motor : drive[m] \in Behavior /\ Driven(m, drive[m])
  BY <1>2, <1>3 DEF Driven, None, ModeTypeInv
<1>7. GrantInv BY <1>2, <1>6 DEF GrantInv, Grants
<1> QED BY <1>3, <1>5, <1>7 DEF ModeInv

LEMMA ModeNext ==
  ASSUME Disjoint, ModeInv, [Next]_vars
  PROVE  ModeInv'
<1>1. CASE UNCHANGED vars BY <1>1, ModesKept DEF vars
<1>2. ASSUME NEW t \in Thread, Powers(t) PROVE ModeInv'
  <2>1. UNCHANGED << hub, modes >>
    BY <1>2 DEF Powers, SetDirection, Single, Batch, Begin, Load, Leave, Store, Finish
  <2> QED BY <2>1, ModesKept
<1>3. ASSUME NEW t \in Thread, Behaviors(t) PROVE ModeInv'
  <2>1. hub.team[t] \subseteq Motor BY TeamIsOfMotors DEF ModeInv, ModeTypeInv
  <2>2. \A m \in Motor : behaviors[m] \in Behavior BY DEF ModeInv, ModeTypeInv
  <2>3. ASSUME NEW m \in hub.team[t], NEW z \in ZeroPower, SetZeroPowerBehavior(t, m, z)
        PROVE  ModeInv'
    <3> DEFINE to == [mode |-> behaviors[m].mode, zero |-> z]
    <3>1. to \in Behavior /\ to.mode = behaviors[m].mode BY <2>1, <2>2 DEF Behavior
    <3>2. BeginSetting(t, m, {"zero"}, to) BY <2>3 DEF SetZeroPowerBehavior
    <3> HIDE DEF to
    <3>3. {"zero"} \in SUBSET Part /\ "zero" \in {"zero"} BY DEF Part
    <3> QED BY <3>1, <3>2, <3>3, BeginSettingKeeps
  <2>4. ASSUME NEW m \in hub.team[t], NEW r \in RunMode, SetMotorMode(t, m, r)
        PROVE  ModeInv'
    <3> DEFINE to == [mode |-> r, zero |-> behaviors[m].zero]
    <3>1. to \in Behavior /\ to.zero = behaviors[m].zero BY <2>1, <2>2 DEF Behavior
    <3>2. BeginSetting(t, m, {"mode"}, to) BY <2>4 DEF SetMotorMode
    <3> HIDE DEF to
    <3>3. {"mode"} \in SUBSET Part /\ "mode" \in {"mode"} BY DEF Part
    <3> QED BY <3>1, <3>2, <3>3, BeginSettingKeeps
  <2>5. ASSUME NEW m \in hub.team[t], NEW b \in Behavior, SetBehavior(t, m, b) PROVE ModeInv'
    BY <2>5, BeginSettingKeeps DEF SetBehavior, Part
  <2>6. CASE SendBehavior(t) BY <2>6, SendBehaviorKeeps
  <2>7. CASE StoreMode(t) BY <2>7, StoreModeKeeps
  <2>8. CASE StoreZero(t) BY <2>8, StoreZeroKeeps
  <2> QED BY <1>3, <2>3, <2>4, <2>5, <2>6, <2>7, <2>8 DEF Behaviors
<1>4. CASE Run BY <1>4, ModesKept DEF Run
<1>5. CASE Obey BY <1>5, ObeyKeeps
<1>6. ASSUME NEW m \in Motor, SdkStop(m) \/ \E b \in Behavior : SdkBehave(m, b) PROVE ModeInv'
  BY <1>6, SdkBehaveKeeps, ModesKept DEF SdkStop
<1> QED BY <1>1, <1>2, <1>3, <1>4, <1>5, <1>6 DEF Next

\* A motor has the run mode and the zero power behaviour last set here (hardware.rs:280):
\* setting one keeps the other, where each motor has one thread that commands it.
THEOREM BehaviorsKept ==
  ASSUME Disjoint
  PROVE  Spec => []BehaviorAsAsked
<1>1. Init => ModeInv BY ModeInit
<1>2. ModeInv /\ [Next]_vars => ModeInv' BY ModeNext
<1>3. ASSUME ModeInv, Quiet, NEW m \in Motor
      PROVE  wanted[m].mode \in {Skip, drive[m].mode} /\ wanted[m].zero \in {Skip, drive[m].zero}
  <2>1. \A t \in Thread : ~ Storing(t, m) BY <1>3 DEF Quiet, Idle, Storing
  <2>2. PICK b \in Behavior : Driven(m, b) /\ Grants(wanted[m], b) BY <2>1, <1>3 DEF ModeInv, GrantInv
  <2>3. drive[m] = b BY <2>2, <1>3 DEF Quiet, Driven, LastFor
  <2> QED BY <2>2, <2>3 DEF Grants
<1>4. ModeInv => BehaviorAsAsked BY <1>3 DEF BehaviorAsAsked
<1> QED BY <1>1, <1>2, <1>4, PTL DEF Spec

=============================================================================
