----------------------------- MODULE MotorCache -----------------------------
(***************************************************************************)
(* The motors of one hub (src/src/control/hardware.rs).  A hub remembers   *)
(* the last power it sent to each motor and leaves out commands that would *)
(* change it by no more than a threshold, except the one that stops the    *)
(* motor; and it remembers what behaviour it set, as a packet always sets  *)
(* both run mode and zero power behaviour.  Reading such a memory, writing *)
(* it and sending the packet are separate steps of whatever thread         *)
(* commands the motor, and other threads go on between them                *)
(* (send_prepared_packet may wait for the RS485 gate).  The hub lives as   *)
(* long as the process, over many OpModes, and the SDK's own packets do    *)
(* not pass its memories.                                                  *)
(*                                                                         *)
(* Powers are i16 values after clamping.  Powers and behaviours do not     *)
(* depend on each other and have a channel each here.                      *)
(***************************************************************************)
EXTENDS Integers, Sequences

CONSTANTS
  NumMotors,   \* 4 in the code
  Thread,      \* threads that command motors
  Instances,   \* environment: the hubs and OpModes considered, see Instance
  Power,       \* powers asked for
  RunMode, ZeroPower, \* what a behaviour consists of
  Threshold,   \* MOTOR_CACHING_THRESHOLD
  Caching,     \* DO_MOTOR_CACHING
  MaxOpen,     \* environment: bound on the commands on their way to the hub
  Skip         \* no value: NaN, or None in a batch

Motor == 0 .. NumMotors - 1
Behavior == [mode : RunMode, zero : ZeroPower]

\* over: is_over_rs.is_some(); team: the motors each thread commands; uses: what they use,
\* and whether the SDK sends packets of its own when nothing else does.
Instance ==
  [over : BOOLEAN, team : [Thread -> SUBSET Motor],
   uses : SUBSET {"power", "direction", "behavior", "sdk"}]

ASSUME CacheAssumption ==
  /\ NumMotors \in Nat \ {0} /\ Threshold \in Nat /\ MaxOpen \in Nat
  /\ Power \subseteq Int /\ Skip \notin Int \cup RunMode \cup ZeroPower
  /\ 0 \in RunMode /\ 0 \in ZeroPower
  /\ Caching \in BOOLEAN /\ Instances \subseteq Instance

VARIABLES
  hub,         \* the instance
  forward,     \* motor_directions
  cache,       \* last_motor_powers
  behaviors,   \* motor_modes and motor_zero_power_behaviors
  call,        \* the command of powers each thread is in: [pc, batch, asked, todo, old, out,
               \* clash], asked in the motors' directions
  setting,     \* the set_behavior each thread is in: [pc, motor, what, to, clash]
  channel,     \* commands of powers on their way to the hub
  orders,      \* behaviours on their way to the hub
  motor,       \* the power the hub gives each motor
  drive,       \* the behaviour the hub has for each motor
  last,        \* the power last asked for, by a call that returned (or by the SDK);
               \* Skip if two calls at once asked for one, or the direction has changed
  wanted,      \* the behaviour last asked for; a part Skip if two calls at once asked for one,
               \* or since the SDK set it
  missed       \* the last command decided on was in a batch that was not sent

powers == << forward, cache, call, channel, motor, last, missed >>
modes  == << behaviors, setting, orders, drive, wanted >>
vars   == << hub, powers, modes >>

NoPower == [m \in Motor |-> Skip]
NoCall == [pc |-> "idle", batch |-> FALSE, asked |-> NoPower, todo |-> {}, old |-> 0,
           out |-> << >>, clash |-> FALSE]
NoSetting == [pc |-> "idle", motor |-> 0, what |-> {}, to |-> [mode |-> 0, zero |-> 0],
              clash |-> FALSE]

Init ==
  /\ hub \in Instances
  /\ forward = [m \in Motor |-> TRUE]
  /\ cache = [m \in Motor |-> 0]
  /\ behaviors = [m \in Motor |-> [mode |-> 0, zero |-> 0]]
  /\ call = [t \in Thread |-> NoCall]
  /\ setting = [t \in Thread |-> NoSetting]
  /\ channel = << >> /\ orders = << >>
  /\ motor = [m \in Motor |-> 0]
  /\ drive = [m \in Motor |-> [mode |-> 0, zero |-> 0]]
  /\ last = [m \in Motor |-> 0]
  /\ wanted = [m \in Motor |-> [mode |-> 0, zero |-> 0]]
  /\ missed = [m \in Motor |-> FALSE]

Idle(t) == call[t].pc = "idle" /\ setting[t].pc = "idle"

Quiet == channel = << >> /\ orders = << >> /\ \A t \in Thread : Idle(t)

-----------------------------------------------------------------------------
(* Directions.                                                             *)

\* Direction::mult, for a power on its way out and for bulk data on their way in.
Mult(m) == IF forward[m] THEN 1 ELSE -1

\* Calls of other threads that command one of the motors.
Rivals(t, M) ==
  {u \in Thread \ {t} : call[u].pc # "idle" /\ \E m \in M : call[u].asked[m] # Skip}

Clash(calls, U) == [u \in Thread |-> IF u \in U THEN [calls[u] EXCEPT !.clash = TRUE] ELSE calls[u]]

SetDirection(t, m, fwd) ==
  /\ "direction" \in hub.uses /\ Idle(t)
  /\ forward' = [forward EXCEPT ![m] = fwd]
  /\ last' = [last EXCEPT ![m] = IF fwd = forward[m] \/ @ = 0 THEN @ ELSE Skip]
  /\ call' = Clash(call, Rivals(t, {m}))
  /\ UNCHANGED << hub, cache, channel, motor, missed, modes >>

-----------------------------------------------------------------------------
(* Powers.                                                                 *)

Given(asked) == {m \in Motor : asked[m] # Skip}

Begin(t, batch, asked) ==
  /\ "power" \in hub.uses /\ Idle(t) /\ Len(channel) < MaxOpen
  /\ call' = [Clash(call, Rivals(t, Given(asked))) EXCEPT
       ![t] = [pc |-> "open", batch |-> batch, asked |-> asked, todo |-> Given(asked), old |-> 0,
               out |-> << >>, clash |-> Rivals(t, Given(asked)) # {}]]
  /\ UNCHANGED << hub, forward, cache, channel, motor, last, missed, modes >>

\* send_motor_command, where NaN turns into 0, and send_motor_command_i16.
Single(t, m, p) ==
  Begin(t, FALSE, [NoPower EXCEPT ![m] = IF p = Skip THEN 0 ELSE Mult(m) * p])

\* send_motor_commands, where NaN is nothing asked, and send_motor_commands_i16.
Batch(t, ps) ==
  Begin(t, TRUE, [m \in Motor |-> IF ps[m] = Skip THEN Skip ELSE Mult(m) * ps[m]])

\* The motor whose turn it is: they come by number.
Turn(t, m) == m \in call[t].todo /\ \A n \in call[t].todo : m <= n

\* The cached power of the next motor is read.
Load(t, m) ==
  /\ call[t].pc = "open" /\ Turn(t, m)
  /\ call' = [call EXCEPT ![t].pc = "loaded", ![t].old = cache[m]]
  /\ UNCHANGED << hub, forward, cache, channel, motor, last, missed, modes >>

Near(a, b) == a - b <= Threshold /\ b - a <= Threshold

\* Mutant: stopping the motor is no exception.
CachedStop(old, power) == Caching /\ Near(old, power)

\* The command would change little; but a motor is always stopped.
Cached(old, power) == Caching /\ Near(old, power) /\ ~ (power = 0 /\ old # 0)

\* send_packets gives up at once if the hub is behind the RS485 link.
Dropped(t) == call[t].batch /\ hub.over

\* The call goes on with the motors after m.
Sent(t, m) ==
  [call EXCEPT ![t].pc = "open", ![t].todo = @ \ {m}, ![t].old = 0,
               ![t].out = Append(@, [motor |-> m, power |-> call[t].asked[m]])]
LeftOut(t, m) == [call EXCEPT ![t].pc = "open", ![t].todo = @ \ {m}, ![t].old = 0]

Leave(t, m) ==
  /\ call[t].pc = "loaded" /\ Turn(t, m) /\ Cached(call[t].old, call[t].asked[m])
  /\ call' = LeftOut(t, m)
  /\ UNCHANGED << hub, forward, cache, channel, motor, last, missed, modes >>

\* Mutant: the power that is sent is not stored.
StoreUnsaved(t, m) ==
  /\ call[t].pc = "loaded" /\ Turn(t, m) /\ ~ Cached(call[t].old, call[t].asked[m])
  /\ missed' = [missed EXCEPT ![m] = Dropped(t)]
  /\ call' = Sent(t, m)
  /\ UNCHANGED << hub, forward, cache, channel, motor, last, modes >>

\* The cache is set, and the command will be sent.
Store(t, m) ==
  /\ call[t].pc = "loaded" /\ Turn(t, m) /\ ~ Cached(call[t].old, call[t].asked[m])
  /\ cache' = [cache EXCEPT ![m] = call[t].asked[m]]
  /\ missed' = [missed EXCEPT ![m] = Dropped(t)]
  /\ call' = Sent(t, m)
  /\ UNCHANGED << hub, forward, channel, motor, last, modes >>

\* The commands are sent, all in one go, and the call returns.
Finish(t) ==
  /\ call[t].pc = "open" /\ call[t].todo = {}
  /\ channel' = IF Dropped(t) THEN channel ELSE channel \o call[t].out
  /\ last' = [m \in Motor |-> IF call[t].asked[m] = Skip THEN last[m]
                              ELSE IF call[t].clash THEN Skip
                              ELSE Mult(m) * call[t].asked[m]]
  /\ call' = [call EXCEPT ![t] = NoCall]
  /\ UNCHANGED << hub, forward, cache, motor, missed, modes >>

\* The hub carries out the next command.
Run ==
  /\ channel # << >>
  /\ LET c == Head(channel) IN motor' = [motor EXCEPT ![c.motor] = c.power]
  /\ channel' = Tail(channel)
  /\ UNCHANGED << hub, forward, cache, call, last, missed, modes >>

\* The OpMode is over and the SDK stops the motor, by a packet of its own.
SdkStop(m) ==
  /\ {"power", "sdk"} \subseteq hub.uses /\ Quiet
  /\ motor' = [motor EXCEPT ![m] = 0]
  /\ last' = [last EXCEPT ![m] = 0]
  /\ missed' = [missed EXCEPT ![m] = FALSE]
  /\ UNCHANGED << hub, forward, cache, call, channel, modes >>

-----------------------------------------------------------------------------
(* Behaviours.                                                             *)

RivalSettings(t, m) == {u \in Thread \ {t} : setting[u].pc # "idle" /\ setting[u].motor = m}

BeginSetting(t, m, what, to) ==
  /\ "behavior" \in hub.uses /\ Idle(t) /\ Len(orders) < MaxOpen
  /\ setting' = [Clash(setting, RivalSettings(t, m)) EXCEPT
       ![t] = [pc |-> "read", motor |-> m, what |-> what, to |-> to,
               clash |-> RivalSettings(t, m) # {}]]
  /\ UNCHANGED << hub, powers, behaviors, orders, drive, wanted >>

\* The part that is not set is the one the hub remembers, not the one the motor has.
SetZeroPowerBehavior(t, m, z) ==
  BeginSetting(t, m, {"zero"}, [mode |-> behaviors[m].mode, zero |-> z])
SetMotorMode(t, m, r) ==
  BeginSetting(t, m, {"mode"}, [mode |-> r, zero |-> behaviors[m].zero])
SetBehavior(t, m, b) == BeginSetting(t, m, {"mode", "zero"}, b)

\* set_behavior sends the packet before it stores what is in it.
SendBehavior(t) ==
  /\ setting[t].pc = "read"
  /\ orders' = Append(orders, [motor |-> setting[t].motor, to |-> setting[t].to])
  /\ setting' = [setting EXCEPT ![t].pc = "sent"]
  /\ UNCHANGED << hub, powers, behaviors, drive, wanted >>

StoreMode(t) ==
  /\ setting[t].pc = "sent"
  /\ behaviors' = [behaviors EXCEPT ![setting[t].motor].mode = setting[t].to.mode]
  /\ setting' = [setting EXCEPT ![t].pc = "half"]
  /\ UNCHANGED << hub, powers, orders, drive, wanted >>

\* What is asked for by the time the call returns.
Wish(s, b) ==
  [mode |-> IF s.clash THEN Skip ELSE IF "mode" \in s.what THEN s.to.mode ELSE b.mode,
   zero |-> IF s.clash THEN Skip ELSE IF "zero" \in s.what THEN s.to.zero ELSE b.zero]

\* Mutant: the run mode alone is remembered.
StoreZeroNot(t) ==
  /\ setting[t].pc = "half"
  /\ wanted' = [wanted EXCEPT ![setting[t].motor] = Wish(setting[t], @)]
  /\ setting' = [setting EXCEPT ![t] = NoSetting]
  /\ UNCHANGED << hub, powers, behaviors, orders, drive >>

StoreZero(t) ==
  /\ setting[t].pc = "half"
  /\ behaviors' = [behaviors EXCEPT ![setting[t].motor].zero = setting[t].to.zero]
  /\ wanted' = [wanted EXCEPT ![setting[t].motor] = Wish(setting[t], @)]
  /\ setting' = [setting EXCEPT ![t] = NoSetting]
  /\ UNCHANGED << hub, powers, orders, drive >>

\* The hub carries out the next one.
Obey ==
  /\ orders # << >>
  /\ LET o == Head(orders) IN drive' = [drive EXCEPT ![o.motor] = o.to]
  /\ orders' = Tail(orders)
  /\ UNCHANGED << hub, powers, behaviors, setting, wanted >>

\* The SDK sets a behaviour by a packet of its own, which the hub does not look at.
SdkBehave(m, b) ==
  /\ {"behavior", "sdk"} \subseteq hub.uses /\ Quiet
  /\ drive' = [drive EXCEPT ![m] = b]
  /\ wanted' = [wanted EXCEPT ![m] = [mode |-> Skip, zero |-> Skip]]
  /\ UNCHANGED << hub, powers, behaviors, setting, orders >>

-----------------------------------------------------------------------------
Powers(t) ==
  \/ \E m \in hub.team[t] : \/ \E fwd \in BOOLEAN : SetDirection(t, m, fwd)
                            \/ \E p \in Power \cup {Skip} : Single(t, m, p)
  \/ \E ps \in [Motor -> Power \cup {Skip}] : Given(ps) \subseteq hub.team[t] /\ Batch(t, ps)
  \/ \E m \in Motor : Load(t, m) \/ Leave(t, m) \/ Store(t, m)
  \/ Finish(t)

Behaviors(t) ==
  \/ \E m \in hub.team[t] : \/ \E z \in ZeroPower : SetZeroPowerBehavior(t, m, z)
                            \/ \E r \in RunMode : SetMotorMode(t, m, r)
                            \/ \E b \in Behavior : SetBehavior(t, m, b)
  \/ SendBehavior(t) \/ StoreMode(t) \/ StoreZero(t)

Next ==
  \/ \E t \in Thread : Powers(t) \/ Behaviors(t)
  \/ Run \/ Obey
  \/ \E m \in Motor : SdkStop(m) \/ \E b \in Behavior : SdkBehave(m, b)

Spec == Init /\ [][Next]_vars

-----------------------------------------------------------------------------
(* Properties.                                                             *)

\* When nothing is under way, a motor that was told to stop stands still ("always
\* actually pass on 0 values to shut motors off. this is very important",
\* hardware.rs:251), unless it is behind RS485 and the batch that told it was dropped after
\* the cache was set (hardware.rs:174).
StoppedWhenTold == Quiet => \A m \in Motor : last[m] = 0 => motor[m] = 0 \/ missed[m]

\* When nothing is under way, bulk data show each motor at what was last asked of it within
\* the threshold, in its direction: the commands left out never add up (hardware.rs:222,
\* 228), and the sign a command is given is the one that data are given (hardware.rs:97,
\* 211).  One the SDK stopped behind the cache's back may stand still instead.
Shown(m) == Mult(m) * motor[m]
CloseToAsked ==
  Quiet => \A m \in Motor : \/ last[m] = Skip
                            \/ Near(Shown(m), last[m])
                            \/ missed[m]
                            \/ "sdk" \in hub.uses /\ motor[m] = 0

\* When nothing is under way, each motor has the run mode and the zero power behaviour last
\* set here: setting one keeps the other, although the packet has both (hardware.rs:280).
BehaviorAsAsked ==
  Quiet => \A m \in Motor : /\ wanted[m].mode \in {Skip, drive[m].mode}
                             /\ wanted[m].zero \in {Skip, drive[m].zero}

=============================================================================
