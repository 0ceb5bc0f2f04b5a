------------------------- MODULE PoolAndGateProofs -------------------------
(***************************************************************************)
(* The two places where a packet waits on its way out, for any number of   *)
(* packets, calls, panics and lost answers.  The two models share no name, *)
(* and each half of this module is about one of them.                      *)
(*                                                                         *)
(* The pool: no scheduled packet waits behind a sleeping thread, and every *)
(* step of the pool is a step of the timers it stands for.                 *)
(*                                                                         *)
(* The gate: how many packets can be in flight at once is settled by how   *)
(* many calls were forced through, and a token that is not there is on its *)
(* way back unless an answer was lost.                                     *)
(***************************************************************************)
EXTENDS SchedulerPool, Rs485Gate, FiniteSetTheorems, SequenceTheorems, TLAPS

\* Packets that have a thread to themselves.
Busy == {j \in Job : stage[j] \in {"asleep", "sent"}}

Pending == {j \in Job : stage[j] \in {"queued", "asleep"}}

QueueInv ==
  /\ \A i \in 1 .. Len(queue) : stage[queue[i]] = "queued"
  /\ \A i, k \in 1 .. Len(queue) : queue[i] = queue[k] => i = k

DueInv == due \subseteq Pending

LockInv == \A j \in Job : stage[j] = "counted" <=> mutex = j

\* What the two counters count.
Calls == IF mutex = NoJob THEN 0 ELSE 1
CountInv  == count = Len(queue) + Cardinality(Busy) + panics + Calls
ThreadInv == threads = idle + Cardinality(Busy) + panics

\* Between two calls there is a thread for each packet; during a call one may be missing,
\* and seen is no less than the count, which the threads may have lowered since.
EnoughInv == IF mutex = NoJob THEN count <= threads ELSE count <= seen /\ seen <= threads + 1

PoolInv == PoolTypeOK /\ QueueInv /\ DueInv /\ LockInv /\ CountInv /\ ThreadInv /\ EnoughInv

LEMMA BusyFinite ==
  ASSUME PoolTypeOK
  PROVE  IsFiniteSet(Busy) /\ Cardinality(Busy) \in Nat
BY PoolAssumption, FS_Subset, FS_CardinalityType DEF Busy

LEMMA PoolHoldsFirst == PoolInit => PoolInv
<1> SUFFICES ASSUME PoolInit PROVE PoolInv OBVIOUS
<1>1. PoolTypeOK BY DEF PoolInit, PoolTypeOK, JobStages
<1>2. Busy = {} /\ Pending = {} BY DEF PoolInit, Busy, Pending
<1>3. Cardinality(Busy) = 0 BY <1>2, FS_EmptySet
<1>4. LockInv BY PoolAssumption DEF PoolInit, LockInv
<1> QED
  BY <1>1, <1>2, <1>3, <1>4
  DEF PoolInv, PoolInit, QueueInv, DueInv, CountInv, ThreadInv, EnoughInv, Calls

LEMMA CountStep ==
  ASSUME PoolInv, NEW j \in Job, Count(j)
  PROVE  PoolInv'
<1> USE PoolAssumption DEF PoolInv
<1>1. PoolTypeOK' BY DEF Count, Move, PoolTypeOK, JobStages
<1>2. Busy' = Busy /\ Pending' = Pending BY DEF Count, Move, PoolTypeOK, Busy, Pending
<1>3. QueueInv' BY DEF Count, Move, PoolTypeOK, QueueInv
<1>4. LockInv' BY DEF Count, Move, PoolTypeOK, LockInv
<1>5. CountInv' /\ ThreadInv' /\ EnoughInv'
  BY <1>2, BusyFinite DEF Count, PoolTypeOK, CountInv, ThreadInv, EnoughInv, Calls
<1>6. DueInv' BY <1>2 DEF Count, DueInv
<1> QED BY <1>1, <1>3, <1>4, <1>5, <1>6

LEMMA EnqueueStep ==
  ASSUME PoolInv, NEW j \in Job, Enqueue(j)
  PROVE  PoolInv'
<1> USE PoolAssumption DEF PoolInv, Enqueue, EnqueueWhen
<1>1. PoolTypeOK' BY DEF Move, PoolTypeOK, JobStages
<1>2. Busy' = Busy /\ Pending' = Pending \cup {j} BY DEF Move, PoolTypeOK, Busy, Pending
<1>3. /\ Len(queue') = Len(queue) + 1
      /\ \A i \in 1 .. Len(queue) : queue'[i] = queue[i]
      /\ queue'[Len(queue) + 1] = j
  BY DEF PoolTypeOK
<1>4. QueueInv'
  <2>1. \A i \in 1 .. Len(queue) : queue[i] \in Job /\ queue[i] # j
    BY DEF PoolTypeOK, QueueInv
  <2> QED BY <1>3, <2>1 DEF Move, PoolTypeOK, QueueInv
<1>5. LockInv' /\ mutex = j BY DEF Move, PoolTypeOK, LockInv
<1>6. CountInv' /\ ThreadInv'
  <2>1. Cardinality(Busy) \in Nat /\ Cardinality(Busy') = Cardinality(Busy)
    BY <1>2, BusyFinite
  <2>2. Calls = 1 /\ Calls' = 0 BY <1>5 DEF Calls
  <2>3. /\ count' = count /\ panics' = panics
        /\ threads' - idle' = threads - idle /\ threads' \in Nat /\ idle' \in Nat
    BY DEF PoolTypeOK
  <2>4. CountInv' BY <1>3, <2>1, <2>2, <2>3 DEF PoolTypeOK, CountInv
  <2>5. ThreadInv'
    <3>1. threads \in Nat /\ idle \in Nat /\ panics \in Nat BY DEF PoolTypeOK
    <3>2. threads = idle + Cardinality(Busy) + panics BY DEF ThreadInv
    <3> HIDE DEF PoolInv, Enqueue, EnqueueWhen
    <3>3. threads' = idle' + Cardinality(Busy') + panics' BY <2>1, <2>3, <3>1, <3>2
    <3> QED BY <3>3 DEF ThreadInv
  <2> QED BY <2>4, <2>5
<1>7. EnoughInv' BY <1>5 DEF PoolTypeOK, EnoughInv
<1>8. DueInv' BY <1>2 DEF DueInv
<1> QED BY <1>1, <1>4, <1>5, <1>6, <1>7, <1>8

LEMMA ReceiveStep ==
  ASSUME PoolInv, NEW j \in Job, Receive(j)
  PROVE  PoolInv'
<1> USE PoolAssumption DEF PoolInv, Receive
<1>1. PoolTypeOK' BY DEF Move, PoolTypeOK, JobStages
<1>2. /\ Len(queue) > 0 /\ queue[1] = j /\ stage[j] = "queued"
      /\ Len(queue') = Len(queue) - 1
      /\ \A i \in 1 .. Len(queue') : queue'[i] = queue[i + 1]
  BY DEF PoolTypeOK, QueueInv
<1>3. Busy' = Busy \cup {j} /\ j \notin Busy /\ Pending' = Pending
  BY <1>2 DEF Move, PoolTypeOK, Busy, Pending
<1>4. QueueInv'
  <2>1. \A i \in 1 .. Len(queue') : i + 1 \in 1 .. Len(queue) /\ queue'[i] # j /\ queue'[i] \in Job
    BY <1>2 DEF PoolTypeOK, QueueInv
  <2> QED BY <1>2, <2>1 DEF Move, PoolTypeOK, QueueInv
<1>5. LockInv' BY <1>2 DEF Move, PoolTypeOK, LockInv
<1>6. Cardinality(Busy') = Cardinality(Busy) + 1 BY <1>3, BusyFinite, FS_AddElement
<1>7. CountInv' /\ ThreadInv' /\ EnoughInv'
  BY <1>2, <1>6, BusyFinite DEF PoolTypeOK, CountInv, ThreadInv, EnoughInv, Calls
<1>8. DueInv' BY <1>3 DEF DueInv
<1> QED BY <1>1, <1>4, <1>5, <1>7, <1>8

LEMMA DueStep ==
  ASSUME PoolInv, NEW j \in Job, Due(j)
  PROVE  PoolInv'
BY DEF PoolInv, Due, PoolTypeOK, QueueInv, DueInv, Pending, LockInv, CountInv, ThreadInv,
       EnoughInv, Busy, Calls

LEMMA SendStep ==
  ASSUME PoolInv, NEW j \in Job, SendJob(j)
  PROVE  PoolInv'
<1> USE PoolAssumption DEF PoolInv, SendJob
<1>1. PoolTypeOK' BY DEF Move, PoolTypeOK, JobStages
<1>2. Busy' = Busy /\ Pending' = Pending \ {j} BY DEF Move, PoolTypeOK, Busy, Pending
<1>3. QueueInv' BY DEF Move, PoolTypeOK, QueueInv
<1>4. LockInv' BY DEF Move, PoolTypeOK, LockInv
<1>5. CountInv' /\ ThreadInv' /\ EnoughInv'
  BY <1>2 DEF CountInv, ThreadInv, EnoughInv, Calls
<1>6. DueInv' BY <1>2 DEF DueInv
<1> QED BY <1>1, <1>3, <1>4, <1>5, <1>6

\* A packet leaves its thread, which goes on or is gone.
LEMMA FreeStep ==
  ASSUME PoolInv, NEW j \in Job, Uncount(j) \/ Panic(j)
  PROVE  PoolInv'
<1> USE PoolAssumption DEF PoolInv
<1>1. /\ stage[j] \in {"asleep", "sent"} /\ stage' = [stage EXCEPT ![j] = "idle"]
      /\ due' \subseteq due /\ (j \in due' => stage[j] = "sent")
      /\ queue' = queue /\ mutex' = mutex /\ seen' = seen /\ threads' = threads
      /\ \/ count' = count - 1 /\ idle' = idle + 1 /\ panics' = panics
         \/ count' = count /\ idle' = idle /\ panics' = panics + 1
  BY DEF Uncount, Panic, Move, PoolTypeOK
<1>2. Busy' = Busy \ {j} /\ j \in Busy BY <1>1 DEF PoolTypeOK, Busy
<1>3. Cardinality(Busy') = Cardinality(Busy) - 1 BY <1>2, BusyFinite, FS_RemoveElement
<1>4. CountInv' /\ ThreadInv'
  <2>1. Cardinality(Busy) \in Nat BY BusyFinite
  <2>2. Calls' = Calls /\ Calls \in {0, 1} BY <1>1 DEF Calls
  <2>3. CountInv' BY <1>1, <1>3, <2>1, <2>2 DEF PoolTypeOK, CountInv
  <2>4. ThreadInv' BY <1>1, <1>3, <2>1 DEF PoolTypeOK, ThreadInv
  <2> QED BY <2>3, <2>4
<1>5. PoolTypeOK'
  <2>1. Cardinality(Busy) >= 1 BY <1>2, <1>3, BusyFinite, FS_RemoveElement, FS_CardinalityType
  <2>2. count' \in Nat BY <1>1, <2>1, BusyFinite DEF PoolTypeOK, CountInv, Calls
  <2> QED BY <1>1, <2>2 DEF PoolTypeOK, JobStages
<1>6. QueueInv' BY <1>1 DEF PoolTypeOK, QueueInv
<1>7. LockInv' BY <1>1 DEF PoolTypeOK, LockInv
<1>8. EnoughInv' BY <1>1 DEF PoolTypeOK, EnoughInv
<1>9. DueInv' BY <1>1 DEF PoolTypeOK, DueInv, Pending
<1> QED BY <1>4, <1>5, <1>6, <1>7, <1>8, <1>9

LEMMA PoolHoldsNext == PoolInv /\ [PoolNext]_poolVars => PoolInv'
<1> SUFFICES ASSUME PoolInv, [PoolNext]_poolVars PROVE PoolInv' OBVIOUS
<1>1. CASE UNCHANGED poolVars
  BY <1>1 DEF poolVars, PoolInv, PoolTypeOK, QueueInv, DueInv, Pending, LockInv, CountInv,
              ThreadInv, EnoughInv, Busy, Calls
<1> QED
  BY <1>1, CountStep, EnqueueStep, ReceiveStep, DueStep, SendStep, FreeStep DEF PoolNext

LEMMA PoolInvariance == PoolSpec => []PoolInv
BY PoolHoldsFirst, PoolHoldsNext, PTL DEF PoolSpec

\* The counters never go below zero, and the channel holds scheduled packets only.
THEOREM PoolTypeCorrect == PoolSpec => []PoolTypeOK
<1>1. PoolInv => PoolTypeOK BY DEF PoolInv
<1> QED BY PoolInvariance, <1>1, PTL

\* There is a free thread for each packet in the channel, after any number of panics.
THEOREM NeverBehindASleeperAlways == PoolSpec => []NeverBehindASleeper
<1>1. PoolInv => NeverBehindASleeper
  <2> SUFFICES ASSUME PoolInv PROVE NeverBehindASleeper OBVIOUS
  <2> QED
    BY BusyFinite
    DEF PoolInv, PoolTypeOK, CountInv, ThreadInv, EnoughInv, Calls, NeverBehindASleeper
<1> QED BY PoolInvariance, <1>1, PTL

-----------------------------------------------------------------------------
(* The pool is one timer for each packet.                                  *)

LEMMA TimerStep == PoolInv /\ [PoolNext]_poolVars => [Timer!Next]_(Timer!vars)
<1> SUFFICES ASSUME PoolInv, [PoolNext]_poolVars PROVE [Timer!Next]_(Timer!vars) OBVIOUS
<1> USE DEF PoolInv, Pending, Move, PoolTypeOK
<1> DEFINE Stutter == Pending' = Pending /\ due' = due
<1>1. Stutter => [Timer!Next]_(Timer!vars) BY DEF Timer!vars
<1>2. ASSUME NEW j \in Job, Count(j) PROVE Stutter BY <1>2 DEF Count
<1>3. ASSUME NEW j \in Job, Enqueue(j) PROVE Timer!Schedule(j)
  BY <1>3 DEF Enqueue, EnqueueWhen, Timer!Schedule
<1>4. ASSUME NEW j \in Job, Receive(j) PROVE Stutter
  <2>1. stage[j] = "queued" BY <1>4 DEF Receive, QueueInv
  <2> QED BY <1>4, <2>1 DEF Receive
<1>5. ASSUME NEW j \in Job, Due(j) PROVE Timer!Due(j) BY <1>5 DEF Due, Timer!Due
<1>6. ASSUME NEW j \in Job, SendJob(j) \/ Panic(j) PROVE Timer!Fire(j)
  BY <1>6 DEF SendJob, Panic, Timer!Fire
<1>7. ASSUME NEW j \in Job, Uncount(j) PROVE Stutter BY <1>7 DEF Uncount
<1>8. CASE UNCHANGED poolVars
  <2>1. Stutter BY <1>8 DEF poolVars
  <2> QED BY <2>1, <1>1
<1> HIDE DEF Stutter
<1> QED
  BY <1>1, <1>2, <1>3, <1>4, <1>5, <1>6, <1>7, <1>8 DEF PoolNext, Timer!Next

\* Every step of the pool is a step of the timers, or none: a packet goes out once, and
\* not before its time (that it does go out is checked by the run scheduler_pool).
THEOREM PoolImplementsTimers == PoolSpec => Timer!Spec
<1>1. PoolInit => Timer!Init BY DEF PoolInit, Timer!Init
<1> QED BY PoolInvariance, TimerStep, <1>1, PTL DEF PoolSpec, Timer!Spec

-----------------------------------------------------------------------------
(* The gate.                                                               *)

\* A call forced through has left the gate: it is not forced through again.
ForcedPast == \A c \in forced : at[c] \in {"passed", "line", "lost", "done"}

GateInv == TypeOK /\ ForcedPast /\ GateAccount /\ TokenKept

LEMMA Finite ==
  ASSUME TypeOK
  PROVE  IsFiniteSet(Gated) /\ IsFiniteSet(InFlight) /\ IsFiniteSet(Lost) /\ IsFiniteSet(forced)
<1>1. IsFiniteSet(Gated) BY GateAssumption, FS_Union DEF Gated
<1>2. InFlight \subseteq Gated /\ Lost \subseteq Gated /\ forced \subseteq Gated
  BY DEF InFlight, Lost, TypeOK
<1> QED BY <1>1, <1>2, FS_Subset

LEMMA Counts ==
  ASSUME TypeOK
  PROVE  /\ Cardinality(InFlight) \in Nat /\ Cardinality(Lost) \in Nat
         /\ Cardinality(forced) \in Nat /\ Tokens \in {0, 1}
BY Finite, FS_CardinalityType DEF Tokens

LEMMA Callers ==
  /\ \A c \in Gated : c \in Call /\ (c \in BlazeCall \/ c \in SdkCall)
  /\ \A c \in Sdk : c \in Call /\ c \notin BlazeCall
  /\ \A c \in ParentCall : c \in Sdk /\ c \notin Gated
  /\ \A c \in SdkCall : c \in Gated
  /\ \A c \in BlazeCall : c \in Gated
BY GateAssumption DEF Gated, Sdk, Call

LEMMA TypeInit == Init => TypeOK
BY GateAssumption DEF Init, TypeOK, Stages, Call

LEMMA ResetType ==
  ASSUME TypeOK, NEW c, Reset(c)
  PROVE  clock' \in [Call -> Nat]
BY DEF TypeOK, Reset

LEMMA TypeNext == TypeOK /\ [Next]_vars => TypeOK'
<1> SUFFICES ASSUME TypeOK, [Next]_vars PROVE TypeOK' OBVIOUS
<1> USE GateAssumption, Callers DEF TypeOK, Stages
<1>1. ASSUME NEW c \in Sdk, Write(c) \/ Lock(c) \/ Swallow(c) PROVE TypeOK'
  BY <1>1 DEF Write, Lock, Swallow
<1>2. ASSUME NEW c \in Sdk, PassOn(c) PROVE TypeOK' BY <1>2, ResetType DEF PassOn
<1>3. ASSUME NEW c \in BlazeCall, Arrive(c) PROVE TypeOK' BY <1>3, ResetType DEF Arrive
<1>4. ASSUME NEW c \in Gated, Take(c) PROVE TypeOK' BY <1>4, ResetType DEF Take
<1>5. ASSUME NEW c \in Gated, GiveUpWait(c) PROVE TypeOK' BY <1>5, ResetType DEF GiveUpWait
<1>6. ASSUME NEW c \in Gated, WaitAgain(c) PROVE TypeOK' BY <1>6, ResetType DEF WaitAgain
<1>7. ASSUME NEW c \in Gated, Answer(c) PROVE TypeOK' BY <1>7, ResetType DEF Answer
<1>8. ASSUME NEW c \in Gated, Lose(c) PROVE TypeOK' BY <1>8, ResetType DEF Lose
<1>9. ASSUME NEW c \in Call, Send(c) PROVE TypeOK' BY <1>9, ResetType DEF Send
<1>10. CASE Tick
  <2>1. \A t \in Nat, cap \in Nat : Later(t, cap) \in Nat BY DEF Later
  <2>2. sinceReset' \in Nat BY <1>10, <2>1 DEF Tick
  <2>3. \A c \in Call : clock[c] \in Nat /\ clock[c] + 1 \in Nat OBVIOUS
  <2>4. clock' \in [Call -> Nat] BY <1>10, <2>1, <2>3 DEF Tick
  <2> QED BY <1>10, <2>2, <2>4 DEF Tick
<1>11. CASE UNCHANGED vars BY <1>11 DEF vars
<1> QED
  BY <1>1, <1>2, <1>3, <1>4, <1>5, <1>6, <1>7, <1>8, <1>9, <1>10, <1>11 DEF Next

\* Every step keeps the state of the gate well-formed.
THEOREM GateTypeCorrect == Spec => []TypeOK
<1> QED BY TypeInit, TypeNext, PTL DEF Spec

-----------------------------------------------------------------------------
(* The books.                                                              *)

LEMMA InvInit == Init => GateInv
<1> SUFFICES ASSUME Init PROVE GateInv OBVIOUS
<1>1. TypeOK BY TypeInit
<1>2. InFlight = {} /\ Lost = {} /\ forced = {}
  BY Callers DEF Init, InFlight, Lost
<1>3. Tokens = 1 /\ token BY DEF Init, Tokens
<1>4. GateAccount BY <1>2, <1>3, FS_EmptySet DEF GateAccount
<1> QED BY <1>1, <1>2, <1>3, <1>4 DEF GateInv, ForcedPast, TokenKept

\* A step that moves no packet in, through or out of the gate leaves the books alone.
LEMMA Aside ==
  ASSUME GateInv, TypeOK', UNCHANGED << token, forced >>,
         \A c \in Gated : /\ at'[c] \in {"passed", "line"} <=> at[c] \in {"passed", "line"}
                          /\ at'[c] = "lost" <=> at[c] = "lost"
                          /\ at[c] = "done" => at'[c] = "done"
  PROVE  GateInv'
<1>1. InFlight' = InFlight /\ Lost' = Lost BY DEF InFlight, Lost
<1>2. ForcedPast' BY DEF GateInv, ForcedPast, TypeOK
<1>3. GateAccount' /\ TokenKept' BY <1>1 DEF GateInv, GateAccount, TokenKept, Tokens
<1> QED BY <1>2, <1>3 DEF GateInv

LEMMA TakeInv ==
  ASSUME GateInv, TypeOK', NEW c \in Gated, Take(c)
  PROVE  GateInv'
<1> USE Callers
<1>1. TypeOK /\ at[c] = "waiting" /\ at'[c] = "passed" /\ \A d \in Call : d # c => at'[d] = at[d]
  BY DEF GateInv, TypeOK, Take
<1>2. InFlight' = InFlight \cup {c} /\ c \notin InFlight /\ Lost' = Lost
  BY <1>1 DEF InFlight, Lost
<1>3. Cardinality(InFlight') = Cardinality(InFlight) + 1 BY <1>1, <1>2, Finite, FS_AddElement
<1>4. Tokens = 1 /\ Tokens' = 0 BY DEF Take, Tokens
<1>5. GateAccount' BY <1>1, <1>2, <1>3, <1>4, Counts DEF GateInv, GateAccount, Take
<1>6. ForcedPast' BY <1>1 DEF GateInv, ForcedPast, TypeOK, Take
<1>7. TokenKept' BY <1>2 DEF TokenKept
<1> QED BY <1>5, <1>6, <1>7 DEF GateInv

LEMMA ForceInv ==
  ASSUME GateInv, TypeOK', NEW c \in Gated, GiveUpWait(c)
  PROVE  GateInv'
<1> USE Callers
<1>1. TypeOK /\ at[c] = "waiting" /\ at'[c] = "passed" /\ \A d \in Call : d # c => at'[d] = at[d]
  BY DEF GateInv, TypeOK, GiveUpWait
<1>2. InFlight' = InFlight \cup {c} /\ c \notin InFlight /\ Lost' = Lost
  BY <1>1 DEF InFlight, Lost
<1>3. forced' = forced \cup {c} /\ c \notin forced BY <1>1 DEF GiveUpWait, GateInv, ForcedPast
<1>4. /\ Cardinality(InFlight') = Cardinality(InFlight) + 1
      /\ Cardinality(forced') = Cardinality(forced) + 1
  BY <1>1, <1>2, <1>3, Finite, FS_AddElement
<1>5. Tokens' = Tokens BY DEF GiveUpWait, Tokens
<1>6. GateAccount' BY <1>1, <1>2, <1>4, <1>5, Counts DEF GateInv, GateAccount
<1>7. ForcedPast' BY <1>1, <1>3 DEF GateInv, ForcedPast, TypeOK
<1>8. TokenKept' BY <1>2 DEF TokenKept
<1> QED BY <1>6, <1>7, <1>8 DEF GateInv

LEMMA AnswerInv ==
  ASSUME GateInv, TypeOK', NEW c \in Gated, Answer(c)
  PROVE  GateInv'
<1> USE Callers
<1>1. TypeOK /\ at[c] = "line" /\ at'[c] = "done" /\ \A d \in Call : d # c => at'[d] = at[d]
  BY DEF GateInv, TypeOK, Answer
<1>2. InFlight' = InFlight \ {c} /\ c \in InFlight /\ Lost' = Lost /\ forced' = forced
  BY <1>1 DEF InFlight, Lost, Answer
<1>3. Cardinality(InFlight') = Cardinality(InFlight) - 1 BY <1>1, <1>2, Finite, FS_RemoveElement
<1>4. Tokens' = 1 /\ token' BY DEF Answer, Tokens
<1>5. GateAccount' BY <1>1, <1>2, <1>3, <1>4, Counts DEF GateInv, GateAccount
<1>6. ForcedPast' BY <1>1, <1>2 DEF GateInv, ForcedPast, TypeOK
<1>7. TokenKept' BY <1>4 DEF TokenKept
<1> QED BY <1>5, <1>6, <1>7 DEF GateInv

LEMMA LoseInv ==
  ASSUME GateInv, TypeOK', NEW c \in Gated, Lose(c)
  PROVE  GateInv'
<1> USE Callers
<1>1. TypeOK /\ at[c] = "line" /\ at'[c] = "lost" /\ \A d \in Call : d # c => at'[d] = at[d]
  BY DEF GateInv, TypeOK, Lose
<1>2. /\ InFlight' = InFlight \ {c} /\ c \in InFlight
      /\ Lost' = Lost \cup {c} /\ c \notin Lost /\ forced' = forced
  BY <1>1 DEF InFlight, Lost, Lose
<1>3. /\ Cardinality(InFlight') = Cardinality(InFlight) - 1
      /\ Cardinality(Lost') = Cardinality(Lost) + 1
  BY <1>1, <1>2, Finite, FS_RemoveElement, FS_AddElement
<1>4. Tokens' = Tokens BY DEF Lose, Tokens
<1>5. GateAccount' BY <1>1, <1>2, <1>3, <1>4, Counts DEF GateInv, GateAccount
<1>6. ForcedPast' BY <1>1, <1>2 DEF GateInv, ForcedPast, TypeOK
<1>7. TokenKept' BY <1>2 DEF TokenKept
<1> QED BY <1>5, <1>6, <1>7 DEF GateInv

LEMMA InvNext == GateInv /\ [Next]_vars => GateInv'
<1> SUFFICES ASSUME GateInv, [Next]_vars PROVE GateInv' OBVIOUS
<1> USE Callers
<1>0. TypeOK /\ TypeOK' BY TypeNext DEF GateInv
<1>1. ASSUME NEW c \in Sdk, Write(c) \/ Lock(c) \/ Swallow(c) PROVE GateInv'
  BY <1>0, <1>1, Aside DEF Write, Lock, Swallow, TypeOK
<1>2. ASSUME NEW c \in Sdk, PassOn(c) PROVE GateInv' BY <1>0, <1>2, Aside DEF PassOn, TypeOK
<1>3. ASSUME NEW c \in BlazeCall, Arrive(c) PROVE GateInv'
  BY <1>0, <1>3, Aside DEF Arrive, TypeOK
<1>4. ASSUME NEW c \in Gated, WaitAgain(c) PROVE GateInv'
  BY <1>0, <1>4, Aside DEF WaitAgain, TypeOK
<1>5. ASSUME NEW c \in Call, Send(c) PROVE GateInv' BY <1>0, <1>5, Aside DEF Send, TypeOK
<1>6. CASE Tick BY <1>0, <1>6, Aside DEF Tick
<1>7. CASE UNCHANGED vars BY <1>0, <1>7, Aside DEF vars
<1> QED
  BY <1>0, <1>1, <1>2, <1>3, <1>4, <1>5, <1>6, <1>7, TakeInv, ForceInv, AnswerInv, LoseInv
  DEF Next

\* However late or lost the answers: the packets in flight, the token and the answers
\* lost add up to no more than one and the calls forced through.
THEOREM GateAccountAlways == Spec => []GateAccount
<1>1. GateInv => GateAccount BY DEF GateInv
<1> QED BY InvInit, InvNext, <1>1, PTL DEF Spec

\* While no answer was lost, the token is in the channel or owed by a packet in flight.
THEOREM TokenKeptAlways == Spec => []TokenKept
<1>1. GateInv => TokenKept BY DEF GateInv
<1> QED BY InvInit, InvNext, <1>1, PTL DEF Spec

\* Before the first call gives up waiting, no two packets are on the line.
THEOREM OneUntilForced == Spec => [](forced = {} => OnePacketOnLine)
<1>1. ASSUME GateInv, forced = {}, NEW c \in Gated, NEW d \in Gated,
             at[c] = "line", at[d] = "line"
      PROVE  c = d
  <2> TypeOK BY <1>1 DEF GateInv
  <2>1. Cardinality(InFlight) <= 1
    <3>1. Cardinality(forced) = 0 BY <1>1, FS_EmptySet
    <3> QED BY <1>1, <3>1, Counts DEF GateInv, GateAccount
  <2>2. c \in InFlight /\ d \in InFlight BY <1>1 DEF InFlight
  <2>3. Cardinality(InFlight) = 0 \/ Cardinality(InFlight) = 1 BY <2>1, Counts
  <2>4. InFlight # {} BY <2>2
  <2>5. PICK x : InFlight = {x} BY <2>3, <2>4, Finite, FS_EmptySet, FS_Singleton
  <2> QED BY <2>2, <2>5
<1>2. GateInv => (forced = {} => OnePacketOnLine) BY <1>1 DEF OnePacketOnLine
<1> QED BY InvInit, InvNext, <1>2, PTL DEF Spec

=============================================================================
