------------------------------- MODULE Timers -------------------------------
(***************************************************************************)
(* What schedule_packet promises (src/src/threads/scheduler.rs): a packet  *)
(* handed over with a time goes out once its time has come, whatever other *)
(* packets are waiting for.  Each packet has, so to speak, a timer of its  *)
(* own.                                                                    *)
(***************************************************************************)

CONSTANT Job     \* packets that may be scheduled at a time, again once sent

VARIABLES
  pending,       \* scheduled, not sent yet
  due            \* those of them whose time has come

vars == << pending, due >>

Init == pending = {} /\ due = {}

\* schedule_packet returns.
Schedule(j) ==
  /\ j \notin pending
  /\ pending' = pending \cup {j}
  /\ UNCHANGED due

\* The packet's time comes.
Due(j) ==
  /\ j \in pending \ due
  /\ due' = due \cup {j}
  /\ UNCHANGED pending

\* The packet is sent, or given up because sending it panicked.
Fire(j) ==
  /\ j \in due
  /\ pending' = pending \ {j}
  /\ due' = due \ {j}

Next == \E j \in Job : Schedule(j) \/ Due(j) \/ Fire(j)

Spec == Init /\ [][Next]_vars

\* No time need ever come; a packet whose time has come goes out.
FairSpec == Spec /\ \A j \in Job : WF_vars(Fire(j))

=============================================================================
