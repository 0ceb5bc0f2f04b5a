--------------------------- MODULE SchedulerPool ---------------------------
(***************************************************************************)
(* The "best effort" scheduler (src/src/threads/scheduler.rs): packets to  *)
(* be sent at a later time go into one channel, from which a pool of       *)
(* threads takes them.  A thread sleeps until its packet's time, so a      *)
(* packet in the channel would be late if every thread were asleep over    *)
(* another; schedule_packet starts a thread whenever there are fewer       *)
(* threads than packets.  It decides by two counters: one is only touched  *)
(* under the scheduler's mutex, the other is also decremented by the       *)
(* threads, which hold no lock.                                            *)
(***************************************************************************)
EXTENDS Integers, Sequences, FiniteSets

CONSTANTS
  Job,         \* packets (with their times) scheduled at once, and again once sent
  MaxPanics,   \* environment: bound on the threads that die of a panic
  NoJob        \* no packet

ASSUME PoolAssumption == IsFiniteSet(Job) /\ MaxPanics \in Nat /\ NoJob \notin Job

VARIABLES
  stage,       \* where each packet is
  due,         \* packets whose time has come
  mutex,        \* the call that holds the mutex of SCHEDULER
  seen,        \* packet_count of that call
  count,       \* SCHEDULER_PACKET_COUNT
  threads,     \* SCHEDULER_COUNT
  idle,        \* threads at, or on their way to, packet_rx.recv
  queue,       \* packet_tx to packet_rx
  panics       \* threads that died

poolVars == << stage, due, mutex, seen, count, threads, idle, queue, panics >>

JobStages == {"idle", "counted", "queued", "asleep", "sent"}

PoolInit ==
  /\ stage = [j \in Job |-> "idle"]
  /\ due = {}
  /\ mutex = NoJob /\ seen = 0
  /\ count = 0 /\ threads = 0 /\ idle = 0
  /\ queue = << >>
  /\ panics = 0

Move(j, place) == stage' = [stage EXCEPT ![j] = place]

-----------------------------------------------------------------------------
(* schedule_packet, in the thread of the caller.                           *)

\* Take the mutex and count the packet.
Count(j) ==
  /\ stage[j] = "idle" /\ mutex = NoJob
  /\ mutex' = j
  /\ count' = count + 1
  /\ seen' = count + 1
  /\ Move(j, "counted")
  /\ UNCHANGED << due, threads, idle, queue, panics >>

\* Start a thread if there are too few, put the packet into the channel, unlock.
EnqueueWhen(j, tooFew) ==
  /\ stage[j] = "counted"
  /\ threads' = IF tooFew THEN threads + 1 ELSE threads
  /\ idle' = IF tooFew THEN idle + 1 ELSE idle
  /\ queue' = Append(queue, j)
  /\ mutex' = NoJob
  /\ Move(j, "queued")
  /\ UNCHANGED << due, seen, count, panics >>

\* Mutant: the counters are compared off by one.
EnqueueLate(j) == EnqueueWhen(j, threads + 1 < seen)

Enqueue(j) == EnqueueWhen(j, threads < seen)

-----------------------------------------------------------------------------
(* run_scheduler, in the pool's threads.                                   *)

\* A free thread receives the packet and sleeps until its time.
Receive(j) ==
  /\ queue # << >> /\ Head(queue) = j /\ idle > 0
  /\ queue' = Tail(queue)
  /\ idle' = idle - 1
  /\ Move(j, "asleep")
  /\ UNCHANGED << due, mutex, seen, count, threads, panics >>

\* The time of the packet comes, wherever it is.
Due(j) ==
  /\ stage[j] \in {"queued", "asleep"} /\ j \notin due
  /\ due' = due \cup {j}
  /\ UNCHANGED << stage, mutex, seen, count, threads, idle, queue, panics >>

\* The sleeper wakes and the packet goes through send_prepared_packet.
SendJob(j) ==
  /\ stage[j] = "asleep" /\ j \in due
  /\ due' = due \ {j}
  /\ Move(j, "sent")
  /\ UNCHANGED << mutex, seen, count, threads, idle, queue, panics >>

\* The packet no longer counts; the thread is free.
Uncount(j) ==
  /\ stage[j] = "sent"
  /\ count' = count - 1
  /\ idle' = idle + 1
  /\ Move(j, "idle")
  /\ UNCHANGED << due, mutex, seen, threads, queue, panics >>

\* send_prepared_packet panics (the write proxy is gone): the thread ends in catch,
\* and neither counter is set right.
Panic(j) ==
  /\ stage[j] = "asleep" /\ j \in due /\ panics < MaxPanics
  /\ due' = due \ {j}
  /\ panics' = panics + 1
  /\ Move(j, "idle")
  /\ UNCHANGED << mutex, seen, count, threads, idle, queue >>

-----------------------------------------------------------------------------
PoolNext ==
  \E j \in Job : \/ Count(j) \/ Enqueue(j) \/ Receive(j) \/ Due(j)
                 \/ SendJob(j) \/ Uncount(j) \/ Panic(j)

PoolSpec == PoolInit /\ [][PoolNext]_poolVars

\* Every thread that can take a step takes it; nobody need schedule anything, and no
\* packet's time need come.
PoolFairness ==
  \A j \in Job : /\ WF_poolVars(Enqueue(j)) /\ WF_poolVars(Receive(j))
                 /\ WF_poolVars(SendJob(j) \/ Panic(j)) /\ WF_poolVars(Uncount(j))

PoolFairSpec == PoolSpec /\ PoolFairness

-----------------------------------------------------------------------------
(* Properties.                                                             *)

PoolTypeOK ==
  /\ stage \in [Job -> JobStages]
  /\ due \in SUBSET Job
  /\ mutex \in Job \cup {NoJob}
  /\ seen \in Nat /\ count \in Nat /\ threads \in Nat /\ idle \in Nat
  /\ queue \in Seq(Job)
  /\ panics \in Nat

\* For each packet in the channel there is a thread that is free to take it: none waits
\* behind a sleeper, though the threads uncount their packets without the mutex and a
\* thread that panics sets neither counter right (scheduler.rs:18-24, 61).
NeverBehindASleeper == Len(queue) <= idle

\* The pool is one timer for each packet.
Timer == INSTANCE Timers WITH
  pending <- {j \in Job : stage[j] \in {"queued", "asleep"}},
  due     <- due

\* A packet whose time has come goes out, even if the time of every other packet the
\* pool's threads are asleep over never comes (scheduler.rs:52-61).
OneTimerEach == Timer!FairSpec

=============================================================================
