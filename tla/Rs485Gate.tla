----------------------------- MODULE Rs485Gate -----------------------------
(***************************************************************************)
(* The gate before the RS485 link (src/src/control/hardware.rs).  The      *)
(* expansion hub behind the link must get one packet at a time.  A call    *)
(* that sends one takes the token of a channel of capacity 1, and the read *)
(* thread puts the token back when it sees the hub's answer.  Answers get  *)
(* lost, so a call waits 25 ms at most; then it goes on without the token, *)
(* unless another call gave up waiting in the last 25 ms.                  *)
(*                                                                         *)
(* Calls of the SDK come through Proxy::write, which holds the mutex of    *)
(* the interceptors while it waits at the gate; a packet of the SDK for    *)
(* the parent hub needs the same mutex, though not the gate.               *)
(*                                                                         *)
(* Each call sends one packet, once.  Time passes in ticks.                *)
(***************************************************************************)
EXTENDS Integers, FiniteSets

CONSTANTS
  BlazeCall,   \* packets Blaze's threads send to the hub behind the link
  SdkCall,     \* packets the SDK sends to it
  ParentCall,  \* packets the SDK sends to the parent hub
  WaitTime,    \* ticks in the 25 ms of recv_timeout
  AnswerTime,  \* environment: ticks within which the hub answers
  MaxLost,     \* environment: bound on the answers lost
  None         \* no call

Gated  == BlazeCall \cup SdkCall
Sdk    == SdkCall \cup ParentCall
Call   == Gated \cup ParentCall

ASSUME GateAssumption ==
  /\ IsFiniteSet(BlazeCall) /\ IsFiniteSet(SdkCall)
  /\ BlazeCall \cap Sdk = {} /\ SdkCall \cap ParentCall = {}
  /\ WaitTime \in Nat \ {0}
  /\ AnswerTime \in Nat
  /\ MaxLost \in Nat
  /\ None \notin Call

VARIABLES
  at,          \* where each call, and then its packet, is
  token,       \* is_over_rs: the channel holds its one element
  forced,      \* calls that went on without the token
  clock,       \* ticks since a call began its wait, or its packet went out
  sinceReset,  \* ticks since last_lockout_reset
  lock         \* holder of the interceptors' mutex

vars == << at, token, forced, clock, sinceReset, lock >>

Stages == {"idle", "blocked", "locked", "waiting", "passed", "line", "lost", "done"}

Init ==
  /\ at = [c \in Call |-> "idle"]
  /\ token = TRUE
  /\ forced = {}
  /\ clock = [c \in Call |-> 0]
  /\ sinceReset = WaitTime + 1
  /\ lock = None

\* The clock of the call starts, or means nothing any more.
Reset(c) == clock' = [clock EXCEPT ![c] = 0]

-----------------------------------------------------------------------------
(* Proxy::write.                                                           *)

\* The SDK's thread calls Proxy::write and asks for the interceptors' mutex.
Write(c) ==
  /\ at[c] = "idle"
  /\ at' = [at EXCEPT ![c] = "blocked"]
  /\ UNCHANGED << token, forced, clock, sinceReset, lock >>

Lock(c) ==
  /\ at[c] = "blocked" /\ lock = None
  /\ lock' = c
  /\ at' = [at EXCEPT ![c] = "locked"]
  /\ UNCHANGED << token, forced, clock, sinceReset >>

\* Mutant: the mutex is not released.
SwallowLocked(c) ==
  /\ at[c] = "locked"
  /\ at' = [at EXCEPT ![c] = "done"]
  /\ UNCHANGED << token, forced, clock, sinceReset, lock >>

\* An interceptor keeps the packet; it never gets to the gate.
Swallow(c) ==
  /\ at[c] = "locked"
  /\ at' = [at EXCEPT ![c] = "done"]
  /\ lock' = None
  /\ UNCHANGED << token, forced, clock, sinceReset >>

\* The packet goes on, to the gate if its hub is behind the link.
PassOn(c) ==
  /\ at[c] = "locked"
  /\ at' = [at EXCEPT ![c] = IF c \in SdkCall THEN "waiting" ELSE "passed"]
  /\ Reset(c)
  /\ UNCHANGED << token, forced, sinceReset, lock >>

-----------------------------------------------------------------------------
(* notify_send_packet.                                                     *)

\* send_prepared_packet of one of Blaze's threads, or of the scheduler's.
Arrive(c) ==
  /\ at[c] = "idle"
  /\ at' = [at EXCEPT ![c] = "waiting"]
  /\ Reset(c)
  /\ UNCHANGED << token, forced, sinceReset, lock >>

\* Mutant: the token is looked at, not taken.
TakePeek(c) ==
  /\ at[c] = "waiting" /\ token
  /\ at' = [at EXCEPT ![c] = "passed"]
  /\ Reset(c)
  /\ UNCHANGED << token, forced, sinceReset, lock >>

\* recv_timeout returns the token.
Take(c) ==
  /\ at[c] = "waiting" /\ token
  /\ token' = FALSE
  /\ at' = [at EXCEPT ![c] = "passed"]
  /\ Reset(c)
  /\ UNCHANGED << forced, sinceReset, lock >>

\* recv_timeout gives up; the last reset, by whichever call, is long ago.
GiveUpWait(c) ==
  /\ at[c] = "waiting" /\ ~ token /\ clock[c] >= WaitTime
  /\ sinceReset > WaitTime
  /\ sinceReset' = 0
  /\ forced' = forced \cup {c}
  /\ at' = [at EXCEPT ![c] = "passed"]
  /\ Reset(c)
  /\ UNCHANGED << token, lock >>

\* recv_timeout gives up; the last reset is recent, so the wait starts again.
WaitAgain(c) ==
  /\ at[c] = "waiting" /\ ~ token /\ clock[c] >= WaitTime
  /\ sinceReset <= WaitTime
  /\ sinceReset' = 0
  /\ Reset(c)
  /\ UNCHANGED << at, token, forced, lock >>

\* The packet is handed to the write proxy, and out; Proxy::write returns.
Send(c) ==
  /\ at[c] = "passed"
  /\ at' = [at EXCEPT ![c] = IF c \in Gated THEN "line" ELSE "done"]
  /\ Reset(c)
  /\ lock' = IF c \in Sdk THEN None ELSE lock
  /\ UNCHANGED << token, forced, sinceReset >>

-----------------------------------------------------------------------------
(* The hub and the read thread.                                            *)

\* Mutant: the token is not put back.
AnswerQuiet(c) ==
  /\ at[c] = "line"
  /\ at' = [at EXCEPT ![c] = "done"]
  /\ Reset(c)
  /\ UNCHANGED << token, forced, sinceReset, lock >>

\* notify_receive_packet: put the token back, unless it is there already.
Answer(c) ==
  /\ at[c] = "line"
  /\ at' = [at EXCEPT ![c] = "done"]
  /\ token' = TRUE
  /\ Reset(c)
  /\ UNCHANGED << forced, sinceReset, lock >>

Lost == {c \in Gated : at[c] = "lost"}

\* The answer does not get past the read thread (bad checksum, noise).
Lose(c) ==
  /\ at[c] = "line" /\ Cardinality(Lost) < MaxLost
  /\ at' = [at EXCEPT ![c] = "lost"]
  /\ Reset(c)
  /\ UNCHANGED << token, forced, sinceReset, lock >>

\* No clock is followed further than it is compared.
Later(t, cap) == IF t < cap THEN t + 1 ELSE t

Tick ==
  /\ \A c \in Gated : at[c] = "line" => clock[c] < AnswerTime
  /\ clock' = [c \in Call |-> IF at[c] = "waiting" THEN Later(clock[c], WaitTime)
                              ELSE IF at[c] = "line" THEN clock[c] + 1 ELSE clock[c]]
  /\ sinceReset' = Later(sinceReset, WaitTime + 1)
  /\ UNCHANGED << at, token, forced, lock >>

-----------------------------------------------------------------------------
Next ==
  \/ \E c \in Sdk : Write(c) \/ Lock(c) \/ Swallow(c) \/ PassOn(c)
  \/ \E c \in BlazeCall : Arrive(c)
  \/ \E c \in Gated : Take(c) \/ GiveUpWait(c) \/ WaitAgain(c) \/ Answer(c) \/ Lose(c)
  \/ \E c \in Call : Send(c)
  \/ Tick

Spec == Init /\ [][Next]_vars

\* Threads run, time passes, mutex and channel serve whoever keeps asking.
Fairness ==
  /\ \A c \in Sdk : SF_vars(Lock(c)) /\ WF_vars(Swallow(c) \/ PassOn(c))
  /\ \A c \in Gated : /\ SF_vars(Take(c)) /\ WF_vars(GiveUpWait(c) \/ WaitAgain(c))
                      /\ WF_vars(Answer(c))
  /\ \A c \in Call : WF_vars(Send(c))
  /\ WF_vars(Tick)

FairSpec == Spec /\ Fairness

-----------------------------------------------------------------------------
(* Properties.                                                             *)

TypeOK ==
  /\ at \in [Call -> Stages]
  /\ token \in BOOLEAN
  /\ forced \in SUBSET Gated
  /\ clock \in [Call -> Nat]
  /\ sinceReset \in Nat
  /\ lock \in Sdk \cup {None}

\* Through the gate and not answered.
InFlight == {c \in Gated : at[c] \in {"passed", "line"}}

Tokens == IF token THEN 1 ELSE 0

\* The gate keeps its books whatever is lost, late or overtaken: each packet in flight
\* beyond the first is one that a call forced through, and a spare token is never made
\* (hardware.rs:110-120 puts one back, hardware.rs:124 takes one).
GateAccount ==
  Cardinality(InFlight) + Tokens + Cardinality(Lost) <= 1 + Cardinality(forced)

\* As long as no answer is lost the token is there or on its way back: no wait is in vain.
TokenKept == Lost = {} => token \/ InFlight # {}

\* "This forces us to only write one packet to it at a time" (robotics.md:132).
OnePacketOnLine == \A c, d \in Gated : at[c] = "line" /\ at[d] = "line" => c = d

\* As long as no answer is lost, a call that waits at the gate gets through, however many
\* calls take turns and give up meanwhile (hardware.rs:124-138; robotics.md:133,
\* "non-blocking as long as there is no packet in flight"); and a packet of the SDK for the
\* parent hub is not held up for good by the gate of the other hub, whose waits it has to
\* sit out at the mutex (proxy.rs:59-70).
ServedUnlessLost ==
  [](Lost = {}) =>
    /\ \A c \in Gated : at[c] = "waiting" ~> at[c] # "waiting"
    /\ \A c \in ParentCall : at[c] = "blocked" ~> at[c] = "done"

=============================================================================
