------------------------------- MODULE OpMode -------------------------------
(***************************************************************************)
(* The life of OpModes one after the other (src/src/control/robot.rs, the  *)
(* JNI entry points of src/src/lib.rs).  Running an OpMode builds a Robot  *)
(* and starts its reactor, which handles packets, its main thread and, for *)
(* each Java closure, a thread that calls it.  What tells them to stop     *)
(* belongs to no OpMode but to the process: one flag IS_RUNNING, one       *)
(* channel of kill messages, one map of properties, one list of            *)
(* interceptors and the receivers of the hubs.                             *)
(*                                                                         *)
(* Each OpMode attaches a Java closure to the bulk reads of a hub          *)
(* (src/src/control/java_closure_system.rs): a few reads are sent at first *)
(* and each answer that is handled sends the next.  The telemetry thread   *)
(* (src/src/telemetry/telemetry.rs), started once, follows the SDK's flag  *)
(* preventDangerousHardwareAccess.                                         *)
(***************************************************************************)
EXTENDS Integers, FiniteSets

CONSTANTS
  NumOps,      \* environment: OpModes Java runs, one after the other
  Reads,       \* bulk reads an OpMode sends at first
  Patient,     \* environment: Java prepares an OpMode only when the last one has ended
  MaxLost      \* environment: bound on the answers lost

Op == 1 .. NumOps

ASSUME OpAssumption ==
  /\ NumOps \in Nat /\ Reads \in Nat /\ MaxLost \in Nat
  /\ Patient \in BOOLEAN

VARIABLES
  java,        \* the OpMode Java is at and how far: [op, pc]
  prevent,     \* the SDK's flag
  access,      \* ALLOWED_TO_SEND_DANGEROUS_COMMANDS
  look,        \* telemetry thread: what it is about to store there; "none", or "off"
  running,     \* IS_RUNNING
  up,          \* RUNNING: the threads of the line go on
  faulty,      \* the OpModes' own code has panicked
  kills,       \* messages in KILL_CHANNEL
  props,       \* the OpMode whose properties the map holds, or 0
  hooks,       \* OpModes whose interceptors the proxy calls
  reactor,     \* the reactor of each OpMode
  main,        \* its main thread
  closure,     \* its closure's thread: [pc, data, signals]
  handler,     \* its bulk read handler: "none", "sending", "told" to stop, "silent"
  line,        \* bulk reads sent and not answered
  answers,     \* answers in the hub's receiver
  lost         \* answers lost

joined == << running, kills, props, hooks >>
threads == << reactor, main, closure, handler >>
bulk == << line, answers, lost >>
sdk == << prevent, access, look >>

vars == << java, sdk, joined, up, faulty, threads, bulk >>

NoClosure == [pc |-> "none", data |-> FALSE, signals |-> 0]

Init ==
  /\ java = [op |-> 0, pc |-> "closed"]
  /\ prevent = TRUE /\ access = FALSE /\ look = "off"
  /\ running = TRUE /\ up = TRUE /\ faulty = FALSE
  /\ kills = 0 /\ props = 0 /\ hooks = {}
  /\ reactor = [n \in Op |-> "none"] /\ main = [n \in Op |-> "none"]
  /\ closure = [n \in Op |-> NoClosure] /\ handler = [n \in Op |-> "none"]
  /\ line = 0 /\ answers = 0 /\ lost = 0

-----------------------------------------------------------------------------
(* The Java side: prepare an OpMode, run it, close it.                     *)

Over == {"none", "ended", "panicked"}

\* The last OpMode's reactor and main thread have ended.
Settled == \A n \in Op : reactor[n] \in Over /\ main[n] \in Over

\* The SDK starts an OpMode, which sends its properties.
Prepare ==
  /\ java.pc = "closed" /\ java.op < NumOps
  /\ Patient => Settled
  /\ java' = [op |-> java.op + 1, pc |-> "prepared"]
  /\ props' = java.op + 1
  /\ prevent' = FALSE
  /\ UNCHANGED << access, look, running, kills, hooks, up, faulty, threads, bulk >>

\* Mutant: properties are cleared as an OpMode starts, not as it ends.
RunNewCleared ==
  /\ java.pc = "prepared"
  /\ java' = [java EXCEPT !.pc = "new"]
  /\ access' = TRUE /\ running' = TRUE /\ props' = 0
  /\ look' = IF look = "off" THEN "none" ELSE look
  /\ UNCHANGED << prevent, kills, hooks, up, faulty, threads, bulk >>

\* run: allow access, see to it that telemetry is there, Robot::new.
RunNew ==
  /\ java.pc = "prepared"
  /\ java' = [java EXCEPT !.pc = "new"]
  /\ access' = TRUE /\ running' = TRUE
  /\ look' = IF look = "off" THEN "none" ELSE look
  /\ UNCHANGED << prevent, kills, props, hooks, up, faulty, threads, bulk >>

\* The OpMode's init function puts on the robot what the properties say.
RunInit ==
  LET n == java.op IN
    /\ java.pc = "new"
    /\ java' = [java EXCEPT !.pc = "init"]
    /\ IF props = n
         THEN /\ handler' = [handler EXCEPT ![n] = "sending"]
              /\ closure' = [closure EXCEPT ![n].pc = "waiting"]
              /\ line' = line + Reads
         ELSE UNCHANGED << handler, closure, line >>
    /\ UNCHANGED << sdk, joined, up, faulty, reactor, main, answers, lost >>

\* Hand the interceptors to the proxy, start the reactor and the main thread.
RunLaunch ==
  LET n == java.op IN
    /\ java.pc = "init"
    /\ java' = [java EXCEPT !.pc = "running"]
    /\ hooks' = hooks \cup {n}
    /\ reactor' = [reactor EXCEPT ![n] = "check"]
    /\ main' = [main EXCEPT ![n] = "on"]
    /\ UNCHANGED << sdk, running, kills, props, up, faulty, closure, handler, bulk >>

\* The SDK stops the OpMode: hardware may not move any more.
Stop ==
  /\ ~ prevent
  /\ java.pc \in {"running", "closed"}
  /\ prevent' = TRUE
  /\ UNCHANGED << java, access, look, joined, up, faulty, threads, bulk >>

\* Mutant: the kill is sent twice, as the kill signals are.
CloseTwice ==
  /\ java.pc = "running"
  /\ java' = [java EXCEPT !.pc = "closed"]
  /\ access' = FALSE
  /\ kills' = kills + 2
  /\ UNCHANGED << prevent, look, running, props, hooks, up, faulty, threads, bulk >>

\* close.  KILL_CHANNEL is there once an OpMode has been run.
Close ==
  /\ java.pc = "running"
  /\ java' = [java EXCEPT !.pc = "closed"]
  /\ access' = FALSE
  /\ kills' = kills + 1
  /\ UNCHANGED << prevent, look, running, props, hooks, up, faulty, threads, bulk >>

-----------------------------------------------------------------------------
(* The reactor: Robot::run as long as IS_RUNNING.                          *)

To(n, pc) == reactor' = [reactor EXCEPT ![n] = pc]

\* Mutant: the reactor loops for ever.
CheckNot(n) ==
  /\ reactor[n] = "check" /\ To(n, "select")
  /\ UNCHANGED << java, sdk, joined, up, faulty, main, closure, handler, bulk >>

Check(n) ==
  /\ reactor[n] = "check"
  /\ To(n, IF running THEN "select" ELSE "ended")
  /\ UNCHANGED << java, sdk, joined, up, faulty, main, closure, handler, bulk >>

\* Mutant: IS_RUNNING is cleared by close itself, so the reactor need not.
TakeKillOn(n) ==
  /\ reactor[n] = "select" /\ kills > 0
  /\ kills' = kills - 1
  /\ To(n, "unhook")
  /\ UNCHANGED << java, sdk, running, props, hooks, up, faulty, main, closure, handler, bulk >>

\* The kill arm.
TakeKill(n) ==
  /\ reactor[n] = "select" /\ kills > 0
  /\ kills' = kills - 1
  /\ running' = FALSE
  /\ To(n, "unhook")
  /\ UNCHANGED << java, sdk, props, hooks, up, faulty, main, closure, handler, bulk >>

\* Mutant: interceptors stay with the proxy.
UnhookNone(n) ==
  /\ reactor[n] = "unhook" /\ To(n, "signal")
  /\ UNCHANGED << java, sdk, joined, up, faulty, main, closure, handler, bulk >>

Unhook(n) ==
  /\ reactor[n] = "unhook"
  /\ hooks' = {}
  /\ To(n, "signal")
  /\ UNCHANGED << java, sdk, running, kills, props, up, faulty, main, closure, handler, bulk >>

\* Each kill signal is sent twice, if there is a thread to receive it; then on_kill.
Signal(n) ==
  /\ reactor[n] = "signal"
  /\ closure' = [closure EXCEPT ![n].signals = IF closure[n].pc \in Over THEN @ ELSE @ + 2]
  /\ To(n, "reset")
  /\ UNCHANGED << java, sdk, joined, up, faulty, main, handler, bulk >>

ResetProperties(n) ==
  /\ reactor[n] = "reset"
  /\ props' = 0
  /\ To(n, "check")
  /\ UNCHANGED << java, sdk, running, kills, hooks, up, faulty, main, closure, handler, bulk >>

\* A gamepad, a property or a target comes in.
Other(n) ==
  /\ reactor[n] = "select"
  /\ To(n, "check")
  /\ UNCHANGED << java, sdk, joined, up, faulty, main, closure, handler, bulk >>

\* Mutant: an answer that is handled is not followed by a read.
HandleLast(n) ==
  /\ reactor[n] = "select" /\ answers > 0
  /\ answers' = answers - 1
  /\ To(n, "check")
  /\ UNCHANGED << java, sdk, joined, up, faulty, main, closure, handler, line, lost >>

\* A bulk answer: send the next read unless the closure asked to stop, pass the data on.
Handle(n) ==
  LET now == IF handler[n] = "told" THEN "silent" ELSE handler[n] IN
    /\ reactor[n] = "select" /\ answers > 0
    /\ answers' = answers - 1
    /\ handler' = [handler EXCEPT ![n] = now]
    /\ line' = IF now = "sending" THEN line + 1 ELSE line
    /\ closure' = [closure EXCEPT ![n].data = @ \/ closure[n].pc \notin Over]
    /\ To(n, "check")
    /\ UNCHANGED << java, sdk, joined, up, faulty, main, lost >>

\* The reactor panics, as a handler does or as the channel of targets has lost its sender,
\* which the main thread had.  It ends, and catch ends the threads of the line.
Panic(n) ==
  /\ reactor[n] = "select"
  /\ \/ answers > 0 /\ answers' = answers - 1 /\ faulty' = TRUE
     \/ main[n] = "ended" /\ UNCHANGED << answers, faulty >>
  /\ up' = FALSE
  /\ To(n, "panicked")
  /\ UNCHANGED << java, sdk, joined, main, closure, handler, line, lost >>

\* MainThread looks at IS_RUNNING every 10 ms ...
MainEnd(n) ==
  /\ main[n] = "on" /\ ~ running
  /\ main' = [main EXCEPT ![n] = "ended"]
  /\ UNCHANGED << java, sdk, joined, up, faulty, reactor, closure, handler, bulk >>

\* ... and its own code may panic.
MainPanic(n) ==
  /\ main[n] = "on"
  /\ main' = [main EXCEPT ![n] = "ended"]
  /\ faulty' = TRUE
  /\ UNCHANGED << java, sdk, joined, up, reactor, closure, handler, bulk >>

-----------------------------------------------------------------------------
(* The closure's thread.                                                   *)

\* Nobody holds the Robot any more: the senders it had are gone, and both channels of the
\* closure's thread are ready.
Dropped(n) == reactor[n] \in {"ended", "panicked"} /\ n \notin hooks

Told(n) == IF handler[n] = "sending" THEN "told" ELSE handler[n]

ClosureKill(n) ==
  /\ closure[n].pc = "waiting"
  /\ closure[n].signals > 0 \/ Dropped(n)
  /\ closure' = [closure EXCEPT ![n] = [pc |-> "ended", data |-> FALSE, signals |-> 0]]
  /\ handler' = [handler EXCEPT ![n] = Told(n)]
  /\ UNCHANGED << java, sdk, joined, up, faulty, reactor, main, bulk >>

\* select! takes the channel of data although its sender is gone: unwrap panics.
ClosureOrphan(n) ==
  /\ closure[n].pc = "waiting" /\ ~ closure[n].data /\ Dropped(n)
  /\ closure' = [closure EXCEPT ![n] = [pc |-> "panicked", data |-> FALSE, signals |-> 0]]
  /\ up' = FALSE
  /\ UNCHANGED << java, sdk, joined, faulty, reactor, main, handler, bulk >>

\* Call the Java closure with the newest data.
ClosureCall(n) ==
  /\ closure[n].pc = "waiting" /\ closure[n].data
  /\ closure' = [closure EXCEPT ![n].pc = "calling", ![n].data = FALSE]
  /\ UNCHANGED << java, sdk, joined, up, faulty, reactor, main, handler, bulk >>

\* It returns; with [0] it asks to be called no more.
ClosureReturn(n) ==
  /\ closure[n].pc = "calling"
  /\ \/ closure' = [closure EXCEPT ![n].pc = "waiting"] /\ UNCHANGED handler
     \/ /\ closure' = [closure EXCEPT ![n] = [pc |-> "ended", data |-> FALSE, signals |-> 0]]
        /\ handler' = [handler EXCEPT ![n] = Told(n)]
  /\ UNCHANGED << java, sdk, joined, up, faulty, reactor, main, bulk >>

-----------------------------------------------------------------------------
(* The hub, and the telemetry thread.                                      *)

Answer ==
  /\ line > 0 /\ up
  /\ line' = line - 1 /\ answers' = answers + 1
  /\ UNCHANGED << java, sdk, joined, up, faulty, threads, lost >>

Lose ==
  /\ line > 0 /\ lost < MaxLost
  /\ line' = line - 1 /\ lost' = lost + 1
  /\ UNCHANGED << java, sdk, joined, up, faulty, threads, answers >>

\* check_dangerous_commands: read the SDK's flag ...
LookAtSdk ==
  /\ look = "none"
  /\ look' = IF prevent THEN "denied" ELSE "allowed"
  /\ UNCHANGED << java, prevent, access, joined, up, faulty, threads, bulk >>

\* Mutant: only a permission is passed on.
StoreAllowed ==
  /\ look \in {"denied", "allowed"}
  /\ access' = (access \/ look = "allowed")
  /\ look' = "none"
  /\ UNCHANGED << java, prevent, joined, up, faulty, threads, bulk >>

\* ... and store what it says.
StoreAccess ==
  /\ look \in {"denied", "allowed"}
  /\ access' = (look = "allowed")
  /\ look' = "none"
  /\ UNCHANGED << java, prevent, joined, up, faulty, threads, bulk >>

-----------------------------------------------------------------------------
Java == Prepare \/ RunNew \/ RunInit \/ RunLaunch \/ Stop \/ Close

Reactor(n) ==
  \/ Check(n) \/ TakeKill(n) \/ Unhook(n) \/ Signal(n) \/ ResetProperties(n)
  \/ Other(n) \/ Handle(n) \/ Panic(n)

Closure(n) == ClosureKill(n) \/ ClosureOrphan(n) \/ ClosureCall(n) \/ ClosureReturn(n)

Next ==
  \/ Java
  \/ \E n \in Op : Reactor(n) \/ MainEnd(n) \/ MainPanic(n) \/ Closure(n)
  \/ Answer \/ Lose \/ LookAtSdk \/ StoreAccess

Spec == Init /\ [][Next]_vars

\* Threads run, and Java finishes a call of run and the closure's code.  select! picks at
\* random among the channels that are ready, so no kill waits for ever (SF).
Fairness ==
  /\ WF_vars(RunNew) /\ WF_vars(RunInit) /\ WF_vars(RunLaunch)
  /\ WF_vars(LookAtSdk) /\ WF_vars(StoreAccess)
  /\ \A n \in Op :
       /\ WF_vars(Check(n)) /\ SF_vars(TakeKill(n)) /\ WF_vars(Unhook(n))
       /\ WF_vars(Signal(n)) /\ WF_vars(ResetProperties(n)) /\ WF_vars(MainEnd(n))
       /\ SF_vars(ClosureKill(n)) /\ WF_vars(ClosureReturn(n))

FairSpec == Spec /\ Fairness

-----------------------------------------------------------------------------
(* Properties.                                                             *)

JavaType == [op : Op \cup {0}, pc : {"closed", "prepared", "new", "init", "running"}]

ClosureType ==
  [pc : {"none", "waiting", "calling", "ended", "panicked"}, data : BOOLEAN, signals : Nat]

TypeOK ==
  /\ java \in JavaType
  /\ prevent \in BOOLEAN /\ access \in BOOLEAN
  /\ look \in {"off", "none", "denied", "allowed"}
  /\ running \in BOOLEAN /\ up \in BOOLEAN /\ faulty \in BOOLEAN
  /\ kills \in Nat
  /\ props \in Op \cup {0}
  /\ hooks \in SUBSET Op
  /\ reactor \in [Op -> {"none", "check", "select", "unhook", "signal", "reset", "ended", "panicked"}]
  /\ main \in [Op -> {"none", "on", "ended"}]
  /\ closure \in [Op -> ClosureType]
  /\ handler \in [Op -> {"none", "sending", "told", "silent"}]
  /\ line \in Nat /\ answers \in Nat /\ lost \in Nat

Closed(n) == java.op > n \/ (java.op = n /\ java.pc = "closed")

Sound == \A n \in Op : reactor[n] # "panicked"

\* As long as no reactor has panicked, an OpMode is stopped only by its own close: the kill
\* of an earlier one is never left for its reactor in the channel they share
\* (robot.rs:184), nor is IS_RUNNING still down from the last one (robot.rs:53, 119).
StoppedByOwnClose ==
  Sound => \A n \in Op : reactor[n] \in {"unhook", "signal", "reset", "ended"} => Closed(n)

\* A kill "should stop us from running" (robot.rs:186): when an OpMode has been closed and
\* the kill was taken, its reactor does not come back to its channels.
StopsWhenKilled ==
  Sound => \A n \in Op : Closed(n) /\ kills = 0 => reactor[n] # "select"

\* As long as the OpModes' own code does not panic, no reactor does: none comes back to its
\* channels after its main thread, the sender of targets, has ended (robot.rs:119, 152).
ReactorBeforeMain == ~ faulty => Sound

\* Nor does anything else that an OpMode leaves behind end the threads of the line: the
\* thread of a closure shuts down "if we get a kill channel signal *or* java sends us a [0]
\* array" (java_closure_system.rs:329).
LineOutlivesOpModes == ~ faulty => up

\* When an OpMode's reactor has ended, the proxy calls none of its interceptors any more
\* (robot.rs:189-196).
HooksOfTheLiving == Sound => \A n \in hooks : reactor[n] # "ended"

\* An OpMode finds the properties that were sent for it (robot.rs:204 clears the last one's).
FindsItsProperties == \A n \in Op : main[n] # "none" => handler[n] # "none"

\* While an OpMode runs and its closure wants data, its reads go on: no fewer are under way
\* than it sent at first, as long as none is lost (java_closure_system.rs:188-190).  Answers
\* that an OpMode leaves in the hub's receiver are handled by the next (robot.rs:167), but
\* reads add up no faster than by what each OpMode sent at first.
ReadsKept ==
  /\ \A n \in Op : up /\ lost = 0 /\ handler[n] = "sending" /\ ~ Closed(n) => line + answers >= Reads
  /\ line + answers <= Reads * Cardinality({n \in Op : handler[n] # "none"})

\* Once an OpMode is closed all its threads end, as long as no reactor has panicked
\* (robot.rs:184-205, 402-404; java_closure_system.rs:298-302): closeBlazeFTC "tells Blaze
\* to stop" (readme.md:153).
EndsWhenClosed ==
  []Sound => \A n \in Op : Closed(n) /\ reactor[n] # "none"
                             ~> reactor[n] = "ended" /\ main[n] = "ended" /\ closure[n].pc \in Over

\* If the SDK denies access for good, Blaze knows in the end: a permission that the
\* telemetry thread read before and stored late does not last (telemetry.rs:201-203).
AccessFollows == <>[]prevent => <>[]~ access

=============================================================================
