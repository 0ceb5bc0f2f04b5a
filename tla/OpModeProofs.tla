---------------------------- MODULE OpModeProofs ----------------------------
(***************************************************************************)
(* Proofs about OpModes that follow one another, for any number of them:   *)
(* as long as Java prepares none before the last one has ended, the flag   *)
(* and the channel they share serve each as if they were its own.          *)
(*                                                                         *)
(* The invariant follows an OpMode through its phases: at any time all     *)
(* threads but those of the newest OpMode have ended or not begun, and     *)
(* while no reactor has panicked, kills, IS_RUNNING and the place of the   *)
(* newest reactor agree on what it has still to do.                        *)
(***************************************************************************)
EXTENDS OpMode, FiniteSetTheorems, TLAPS

Early == {"prepared", "new", "init"}
Handling == {"check", "select"}

\* Threads of later OpModes, and of one that is being prepared, have not begun ...
NotBegun ==
  \A n \in Op :
    n > java.op \/ (n = java.op /\ java.pc \in Early) => reactor[n] = "none" /\ main[n] = "none"

\* ... and those of earlier ones have ended.
LongOver == \A n \in Op : n < java.op => reactor[n] \in Over /\ main[n] \in Over

\* Properties stay until the OpMode has read them.
PropertiesStay ==
  /\ java.pc \in {"prepared", "new"} => props = java.op
  /\ java.pc = "init" => handler[java.op] # "none"
  /\ \A n \in Op : main[n] # "none" => handler[n] # "none"

Phase ==
  LET r == reactor[java.op] IN
    \/ java.op = 0 /\ java.pc = "closed" /\ kills = 0
    \/ java.op \in Op /\ java.pc = "prepared" /\ kills = 0
    \/ java.op \in Op /\ java.pc \in {"new", "init"} /\ kills = 0 /\ running
    \/ java.op \in Op /\ java.pc = "running" /\ kills = 0 /\ running /\ r \in Handling
    \/ java.op \in Op /\ java.pc = "closed" /\ kills = 1 /\ running /\ r \in Handling
    \/ /\ java.op \in Op /\ java.pc = "closed" /\ kills = 0 /\ ~ running
       /\ r \in {"unhook", "signal", "reset", "check", "ended"}

\* Interceptors are those of the newest reactor, until it takes them away.
HooksNewest ==
  \A n \in hooks : n = java.op /\ (reactor[n] = "unhook" \/ (running /\ reactor[n] \in Handling))

\* The main thread outlives the time in which its reactor comes back to the channels.
MainThere ==
  java.op \in Op /\ java.pc \in {"running", "closed"} /\ running /\ reactor[java.op] \in Handling
    => main[java.op] = "on"

TypeInv == TypeOK /\ (java.pc # "closed" => java.op \in Op)

IInv ==
  /\ TypeInv
  /\ NotBegun /\ LongOver /\ PropertiesStay
  /\ Sound => Phase /\ HooksNewest
  /\ ~ faulty => Sound /\ MainThere

-----------------------------------------------------------------------------
LEMMA TypeInit == Init => TypeInv
<1> SUFFICES ASSUME Init PROVE TypeInv OBVIOUS
<1>1. java \in JavaType BY DEF Init, JavaType
<1>2. NoClosure \in ClosureType BY DEF NoClosure, ClosureType
<1> QED BY <1>1, <1>2 DEF Init, TypeOK, TypeInv, Op

LEMMA TypeNext == TypeInv /\ [Next]_vars => TypeInv'
<1> SUFFICES ASSUME TypeInv, [Next]_vars PROVE TypeInv' OBVIOUS
<1> USE OpAssumption DEF TypeInv, TypeOK, sdk, joined, threads, bulk
<1>1. CASE Prepare
  <2>1. java' \in JavaType BY <1>1 DEF Prepare, JavaType, Op
  <2>2. java'.op \in Op /\ props' = java'.op BY <1>1 DEF Prepare, JavaType, Op
  <2> QED BY <1>1, <2>1, <2>2 DEF Prepare
<1>2. CASE RunNew
  <2>1. java' \in JavaType BY <1>2 DEF RunNew, JavaType
  <2>2. java.op \in Op /\ java'.op = java.op BY <1>2 DEF RunNew, JavaType
  <2> QED BY <1>2, <2>1, <2>2 DEF RunNew
<1>3. CASE RunInit
  <2>1. java' \in JavaType BY <1>3 DEF RunInit, JavaType
  <2>2. closure' \in [Op -> ClosureType]
    <3>1. closure' = closure \/ closure' = [closure EXCEPT ![java.op].pc = "waiting"]
      BY <1>3 DEF RunInit
    <3> QED BY <3>1 DEF ClosureType
  <2>3. handler' \in [Op -> {"none", "sending", "told", "silent"}] BY <1>3 DEF RunInit
  <2>4. line' \in Nat
    <3>1. line' = line \/ line' = line + Reads BY <1>3 DEF RunInit
    <3> QED BY <3>1
  <2>5. java.op \in Op /\ java'.op = java.op BY <1>3 DEF RunInit, JavaType
  <2> QED BY <1>3, <2>1, <2>2, <2>3, <2>4, <2>5 DEF RunInit
<1>4. CASE RunLaunch
  <2>1. java' \in JavaType BY <1>4 DEF RunLaunch, JavaType
  <2>2. java.op \in Op /\ java'.op = java.op BY <1>4 DEF RunLaunch, JavaType
  <2> QED BY <1>4, <2>1, <2>2 DEF RunLaunch
<1>5. CASE Stop BY <1>5 DEF Stop
<1>6. CASE Close
  <2>1. java' \in JavaType BY <1>6 DEF Close, JavaType
  <2>2. kills' \in Nat BY <1>6 DEF Close
  <2>3. java'.pc = "closed" BY <1>6 DEF Close, JavaType
  <2> QED BY <1>6, <2>1, <2>2, <2>3 DEF Close
<1>7. CASE Answer BY <1>7 DEF Answer
<1>8. CASE Lose BY <1>8 DEF Lose
<1>9. CASE LookAtSdk BY <1>9 DEF LookAtSdk
<1>10. CASE StoreAccess BY <1>10 DEF StoreAccess
<1>11. ASSUME NEW n \in Op, Check(n) PROVE TypeInv' BY <1>11 DEF Check, To
<1>12. ASSUME NEW n \in Op, TakeKill(n) PROVE TypeInv'
  <2>1. kills' \in Nat BY <1>12 DEF TakeKill
  <2> QED BY <1>12, <2>1 DEF TakeKill, To
<1>13. ASSUME NEW n \in Op, Unhook(n) PROVE TypeInv' BY <1>13 DEF Unhook, To
<1>14. ASSUME NEW n \in Op, Signal(n) PROVE TypeInv'
  <2> DEFINE s == IF closure[n].pc \in Over THEN closure[n].signals ELSE closure[n].signals + 2
  <2>1. s \in Nat BY DEF ClosureType
  <2>2. closure' = [closure EXCEPT ![n].signals = s] BY <1>14 DEF Signal
  <2> HIDE DEF s
  <2>3. closure' \in [Op -> ClosureType] BY <2>1, <2>2 DEF ClosureType
  <2> QED BY <1>14, <2>3 DEF Signal, To
<1>15. ASSUME NEW n \in Op, ResetProperties(n) PROVE TypeInv' BY <1>15 DEF ResetProperties, To
<1>16. ASSUME NEW n \in Op, Other(n) PROVE TypeInv' BY <1>16 DEF Other, To
<1>17. ASSUME NEW n \in Op, Handle(n) PROVE TypeInv'
  <2>1. closure' \in [Op -> ClosureType] BY <1>17, Zenon DEF Handle, ClosureType
  <2>2. handler' \in [Op -> {"none", "sending", "told", "silent"}] BY <1>17 DEF Handle
  <2>3. line' \in Nat BY <1>17 DEF Handle
  <2> QED BY <1>17, <2>1, <2>2, <2>3 DEF Handle, To
<1>18. ASSUME NEW n \in Op, Panic(n) PROVE TypeInv'
  <2>1. answers' \in Nat BY <1>18 DEF Panic
  <2>2. faulty' \in BOOLEAN BY <1>18 DEF Panic
  <2> QED BY <1>18, <2>1, <2>2 DEF Panic, To
<1>19. ASSUME NEW n \in Op, MainEnd(n) PROVE TypeInv' BY <1>19 DEF MainEnd
<1>20. ASSUME NEW n \in Op, MainPanic(n) PROVE TypeInv' BY <1>20 DEF MainPanic
<1>21. ASSUME NEW n \in Op, ClosureKill(n) PROVE TypeInv'
  <2>1. closure' \in [Op -> ClosureType] BY <1>21 DEF ClosureKill, ClosureType
  <2> QED BY <1>21, <2>1 DEF ClosureKill, Told
<1>22. ASSUME NEW n \in Op, ClosureOrphan(n) PROVE TypeInv'
  <2>1. closure' \in [Op -> ClosureType] BY <1>22 DEF ClosureOrphan, ClosureType
  <2> QED BY <1>22, <2>1 DEF ClosureOrphan
<1>23. ASSUME NEW n \in Op, ClosureCall(n) PROVE TypeInv'
  <2>1. closure' \in [Op -> ClosureType] BY <1>23 DEF ClosureCall, ClosureType
  <2> QED BY <1>23, <2>1 DEF ClosureCall
<1>24. ASSUME NEW n \in Op, ClosureReturn(n) PROVE TypeInv'
  <2>1. closure' \in [Op -> ClosureType]
    <3>1. ASSUME closure' = [closure EXCEPT ![n].pc = "waiting"]
          PROVE  closure' \in [Op -> ClosureType]
      BY <3>1 DEF ClosureType
    <3>2. ASSUME closure' = [closure EXCEPT ![n] = [pc |-> "ended", data |-> FALSE, signals |-> 0]]
          PROVE  closure' \in [Op -> ClosureType]
      BY <3>2 DEF ClosureType
    <3> QED BY <1>24, <3>1, <3>2 DEF ClosureReturn
  <2>2. handler' \in [Op -> {"none", "sending", "told", "silent"}] BY <1>24 DEF ClosureReturn, Told
  <2> QED BY <1>24, <2>1, <2>2 DEF ClosureReturn
<1>25. CASE UNCHANGED vars BY <1>25 DEF vars
<1> QED BY <1>1, <1>2, <1>3, <1>4, <1>5, <1>6, <1>7, <1>8, <1>9, <1>10, <1>11, <1>12, <1>13, <1>14, <1>15, <1>16, <1>17, <1>18, <1>19, <1>20, <1>21, <1>22, <1>23, <1>24, <1>25 DEF Next, Java, Reactor, Closure

\* Every variable keeps its type, whatever Java, the hubs and the threads do.
THEOREM TypeCorrect == Spec => []TypeOK
<1>1. TypeInv => TypeOK BY DEF TypeInv
<1> QED BY TypeInit, TypeNext, <1>1, PTL DEF Spec

-----------------------------------------------------------------------------
LEMMA InitInv == Init => IInv
<1> SUFFICES ASSUME Init PROVE IInv OBVIOUS
<1>1. TypeInv BY TypeInit
<1>2. NotBegun /\ LongOver /\ PropertiesStay
  BY OpAssumption DEF Init, NotBegun, LongOver, PropertiesStay, Early, Op
<1>3. Phase /\ HooksNewest /\ MainThere
  BY DEF Init, Phase, HooksNewest, MainThere, Op
<1>4. Sound BY DEF Init, Sound
<1> QED BY <1>1, <1>2, <1>3, <1>4 DEF IInv

Grows == \A n \in Op : handler[n] # "none" => handler'[n] # "none"

\* Steps that the invariant does not notice.
LEMMA Quiet ==
  ASSUME IInv, TypeInv', Grows,
         UNCHANGED << java, running, kills, props, hooks, faulty, reactor, main >>
  PROVE  IInv'
<1>1. NotBegun' /\ LongOver' BY DEF IInv, NotBegun, LongOver
<1>2. PropertiesStay' BY DEF IInv, TypeInv, PropertiesStay, Grows
<1>3. Sound' <=> Sound BY DEF Sound
<1>4. Phase' <=> Phase BY DEF Phase
<1>5. HooksNewest' <=> HooksNewest BY DEF HooksNewest
<1>6. MainThere' <=> MainThere BY DEF MainThere
<1> QED BY <1>1, <1>2, <1>3, <1>4, <1>5, <1>6 DEF IInv

\* Only the newest OpMode has a reactor or a main thread at work.
LEMMA Newest ==
  ASSUME IInv, NEW n \in Op, reactor[n] \notin Over \/ main[n] \notin Over
  PROVE  n = java.op /\ java.pc \in {"running", "closed"}
<1>1. java.op \in Int /\ n \in Int /\ java.pc \in {"closed", "prepared", "new", "init", "running"}
  BY OpAssumption DEF IInv, TypeInv, TypeOK, JavaType, Op
<1>2. ~ (n < java.op) BY DEF IInv, LongOver
<1>3. ~ (n > java.op \/ (n = java.op /\ java.pc \in Early)) BY DEF IInv, NotBegun, Over
<1> QED BY <1>1, <1>2, <1>3 DEF Early

LEMMA ReactorStep ==
  ASSUME IInv, NEW n \in Op, reactor[n] \notin Over, NEW x,
         reactor' = [reactor EXCEPT ![n] = x], UNCHANGED << java, main >>, Grows
  PROVE  /\ n = java.op /\ java.pc \in {"running", "closed"} /\ reactor'[n] = x
         /\ NotBegun' /\ LongOver' /\ PropertiesStay'
         /\ x # "panicked" => (Sound' <=> Sound)
<1>1. n = java.op /\ java.pc \in {"running", "closed"} BY Newest
<1>2. \A m \in Op : reactor'[m] = IF m = n THEN x ELSE reactor[m] BY DEF IInv, TypeInv, TypeOK
<1>3. java.op \in Int BY OpAssumption, <1>1 DEF Op
<1>4. NotBegun' BY <1>1, <1>2, <1>3, OpAssumption DEF IInv, NotBegun, Early, Op
<1>5. LongOver' BY <1>1, <1>2, <1>3, OpAssumption DEF IInv, LongOver, Op
<1>6. PropertiesStay' BY <1>1 DEF IInv, PropertiesStay, Grows
<1>7. x # "panicked" => (Sound' <=> Sound) BY <1>2 DEF Sound, Over
<1> QED BY <1>1, <1>2, <1>4, <1>5, <1>6, <1>7

-----------------------------------------------------------------------------
(* Steps of the reactor.                                                   *)

LEMMA CheckStep ==
  ASSUME IInv, TypeInv', NEW n \in Op, Check(n)
  PROVE  IInv'
<1>1. Grows BY DEF Check, Grows
<1> DEFINE x == IF running THEN "select" ELSE "ended"
<1>2. /\ n = java.op /\ java.pc \in {"running", "closed"} /\ reactor'[n] = x
      /\ NotBegun' /\ LongOver' /\ PropertiesStay' /\ (Sound' <=> Sound)
  BY <1>1, ReactorStep DEF Check, To, Over
<1>3. Sound => Phase' /\ HooksNewest'
  BY <1>2 DEF IInv, Check, joined, Phase, HooksNewest, Handling
<1>4. MainThere /\ ~ faulty => MainThere' BY <1>2 DEF Check, joined, MainThere, Handling
<1> QED BY <1>2, <1>3, <1>4 DEF IInv, Check

LEMMA TakeKillStep ==
  ASSUME IInv, TypeInv', NEW n \in Op, TakeKill(n)
  PROVE  IInv'
<1>1. Grows BY DEF TakeKill, Grows
<1> DEFINE x == "unhook"
<1>2. /\ n = java.op /\ java.pc \in {"running", "closed"} /\ reactor'[n] = x
      /\ NotBegun' /\ LongOver' /\ PropertiesStay' /\ (Sound' <=> Sound)
  BY <1>1, ReactorStep DEF TakeKill, To, Over
<1>3. Sound => Phase' /\ HooksNewest'
  BY <1>2 DEF IInv, TakeKill, Phase, HooksNewest, Handling
<1>4. MainThere /\ ~ faulty => MainThere' BY <1>2 DEF TakeKill, MainThere, Handling
<1> QED BY <1>2, <1>3, <1>4 DEF IInv, TakeKill

LEMMA UnhookStep ==
  ASSUME IInv, TypeInv', NEW n \in Op, Unhook(n)
  PROVE  IInv'
<1>1. Grows BY DEF Unhook, Grows
<1> DEFINE x == "signal"
<1>2. /\ n = java.op /\ java.pc \in {"running", "closed"} /\ reactor'[n] = x
      /\ NotBegun' /\ LongOver' /\ PropertiesStay' /\ (Sound' <=> Sound)
  BY <1>1, ReactorStep DEF Unhook, To, Over
<1>3. Sound => Phase' /\ HooksNewest'
  BY <1>2 DEF IInv, Unhook, Phase, HooksNewest, Handling
<1>4. MainThere /\ ~ faulty => MainThere' BY <1>2 DEF Unhook, MainThere, Handling
<1> QED BY <1>2, <1>3, <1>4 DEF IInv, Unhook

LEMMA SignalStep ==
  ASSUME IInv, TypeInv', NEW n \in Op, Signal(n)
  PROVE  IInv'
<1>1. Grows BY DEF Signal, Grows
<1> DEFINE x == "reset"
<1>2. /\ n = java.op /\ java.pc \in {"running", "closed"} /\ reactor'[n] = x
      /\ NotBegun' /\ LongOver' /\ PropertiesStay' /\ (Sound' <=> Sound)
  BY <1>1, ReactorStep DEF Signal, To, Over
<1>3. Sound => Phase' /\ HooksNewest'
  BY <1>2 DEF IInv, Signal, joined, Phase, HooksNewest, Handling
<1>4. MainThere /\ ~ faulty => MainThere' BY <1>2 DEF Signal, joined, MainThere, Handling
<1> QED BY <1>2, <1>3, <1>4 DEF IInv, Signal

LEMMA ResetPropertiesStep ==
  ASSUME IInv, TypeInv', NEW n \in Op, ResetProperties(n)
  PROVE  IInv'
<1>1. Grows BY DEF ResetProperties, Grows
<1> DEFINE x == "check"
<1>2. /\ n = java.op /\ java.pc \in {"running", "closed"} /\ reactor'[n] = x
      /\ NotBegun' /\ LongOver' /\ PropertiesStay' /\ (Sound' <=> Sound)
  BY <1>1, ReactorStep DEF ResetProperties, To, Over
<1>3. Sound => Phase' /\ HooksNewest'
  BY <1>2 DEF IInv, ResetProperties, Phase, HooksNewest, Handling
<1>4. ~ faulty => MainThere'
  BY <1>2 DEF IInv, ResetProperties, Phase, MainThere, Handling, Op
<1> QED BY <1>2, <1>3, <1>4 DEF IInv, ResetProperties

LEMMA OtherStep ==
  ASSUME IInv, TypeInv', NEW n \in Op, Other(n)
  PROVE  IInv'
<1>1. Grows BY DEF Other, Grows
<1> DEFINE x == "check"
<1>2. /\ n = java.op /\ java.pc \in {"running", "closed"} /\ reactor'[n] = x
      /\ NotBegun' /\ LongOver' /\ PropertiesStay' /\ (Sound' <=> Sound)
  BY <1>1, ReactorStep DEF Other, To, Over
<1>3. Sound => Phase' /\ HooksNewest'
  BY <1>2 DEF IInv, Other, joined, Phase, HooksNewest, Handling
<1>4. MainThere /\ ~ faulty => MainThere' BY <1>2 DEF Other, joined, MainThere, Handling
<1> QED BY <1>2, <1>3, <1>4 DEF IInv, Other

LEMMA HandleStep ==
  ASSUME IInv, TypeInv', NEW n \in Op, Handle(n)
  PROVE  IInv'
<1>1. Grows BY DEF Handle, Grows, IInv, TypeInv, TypeOK
<1> DEFINE x == "check"
<1>2. /\ n = java.op /\ java.pc \in {"running", "closed"} /\ reactor'[n] = x
      /\ NotBegun' /\ LongOver' /\ PropertiesStay' /\ (Sound' <=> Sound)
  BY <1>1, ReactorStep DEF Handle, To, Over
<1>3. Sound => Phase' /\ HooksNewest'
  BY <1>2 DEF IInv, Handle, joined, Phase, HooksNewest, Handling
<1>4. MainThere /\ ~ faulty => MainThere' BY <1>2 DEF Handle, joined, MainThere, Handling
<1> QED BY <1>2, <1>3, <1>4 DEF IInv, Handle

\* Only the OpModes' own code can bring it about: before, the main thread is there.
LEMMA PanicStep ==
  ASSUME IInv, TypeInv', NEW n \in Op, Panic(n)
  PROVE  IInv'
<1>1. Grows BY DEF Panic, Grows
<1>2. /\ n = java.op /\ java.pc \in {"running", "closed"} /\ reactor'[n] = "panicked"
      /\ NotBegun' /\ LongOver' /\ PropertiesStay'
  BY <1>1, ReactorStep DEF Panic, To, Over
<1>3. ~ Sound' BY <1>2 DEF Sound
<1>4. faulty'
  <2>1. CASE faulty BY <2>1 DEF Panic
  <2>2. CASE ~ faulty
    <3>1. running /\ reactor[n] = "select" BY <1>2, <2>2 DEF IInv, Phase, Handling, Panic, Op
    <3>2. main[n] = "on" BY <1>2, <2>2, <3>1 DEF IInv, MainThere, Handling
    <3> QED BY <3>2 DEF Panic
  <2> QED BY <2>1, <2>2
<1> QED BY <1>2, <1>3, <1>4 DEF IInv

-----------------------------------------------------------------------------
(* Steps of Java and of the main threads.                                  *)

LEMMA JavaFact ==
  ASSUME TypeInv
  PROVE  /\ java.op \in Int /\ java.pc \in {"closed", "prepared", "new", "init", "running"}
         /\ java.pc # "closed" => java.op \in Op
BY OpAssumption DEF TypeInv, TypeOK, JavaType, Op

\* With the last OpMode's threads ended its kill has been taken, if no reactor has panicked.
LEMMA PrepareStep ==
  ASSUME IInv, TypeInv', Prepare, Patient
  PROVE  IInv'
<1>1. /\ java'.op = java.op + 1 /\ java'.pc = "prepared" /\ props' = java'.op
      /\ Settled /\ java.pc = "closed" /\ java'.op \in Op /\ java.op \in Int
      /\ UNCHANGED << running, kills, hooks, faulty, reactor, main, handler >>
  BY JavaFact DEF Prepare, IInv, TypeInv, threads
<1>2. NotBegun' BY <1>1, OpAssumption DEF IInv, NotBegun, Early, Op
<1>3. LongOver' BY <1>1, OpAssumption DEF IInv, LongOver, Settled, Op
<1>4. PropertiesStay' BY <1>1 DEF IInv, PropertiesStay
<1>5. Sound' <=> Sound BY <1>1 DEF Sound
<1>6. Sound => kills = 0 /\ hooks = {}
  <2> SUFFICES ASSUME Sound PROVE kills = 0 /\ hooks = {} OBVIOUS
  <2>1. \A n \in Op : reactor[n] \in {"none", "ended"} BY <1>1 DEF Settled, Sound, Over
  <2>2. kills = 0 BY <1>1, <2>1 DEF IInv, Phase, Handling
  <2>3. hooks = {} BY <2>1 DEF IInv, TypeInv, TypeOK, HooksNewest, Handling
  <2> QED BY <2>2, <2>3
<1>7. Sound => Phase' /\ HooksNewest' BY <1>1, <1>6 DEF Phase, HooksNewest
<1>8. MainThere' BY <1>1 DEF MainThere
<1> QED BY <1>1, <1>2, <1>3, <1>4, <1>5, <1>7, <1>8 DEF IInv

LEMMA RunNewStep ==
  ASSUME IInv, TypeInv', RunNew
  PROVE  IInv'
<1>1. /\ java'.op = java.op /\ java'.pc = "new" /\ java.pc = "prepared" /\ java.op \in Op
      /\ running' = TRUE
      /\ UNCHANGED << kills, props, hooks, faulty, reactor, main, handler >>
  BY JavaFact DEF RunNew, IInv, TypeInv, TypeOK, JavaType, threads
<1>2. NotBegun' /\ LongOver' BY <1>1 DEF IInv, NotBegun, LongOver, Early
<1>3. PropertiesStay' BY <1>1 DEF IInv, PropertiesStay
<1>4. Sound' <=> Sound BY <1>1 DEF Sound
<1>5. Sound => Phase' /\ HooksNewest' BY <1>1 DEF IInv, Phase, HooksNewest
<1>6. MainThere' BY <1>1 DEF MainThere
<1> QED BY <1>1, <1>2, <1>3, <1>4, <1>5, <1>6 DEF IInv

LEMMA RunInitStep ==
  ASSUME IInv, TypeInv', RunInit
  PROVE  IInv'
<1>1. /\ java'.op = java.op /\ java'.pc = "init" /\ java.pc = "new" /\ java.op \in Op
      /\ props = java.op
      /\ UNCHANGED << running, kills, hooks, faulty, reactor, main >>
  BY JavaFact DEF RunInit, IInv, TypeInv, TypeOK, JavaType, PropertiesStay, joined
<1>2. handler' = [handler EXCEPT ![java.op] = "sending"] BY <1>1 DEF RunInit
<1>3. NotBegun' /\ LongOver' BY <1>1 DEF IInv, NotBegun, LongOver, Early
<1>4. PropertiesStay' BY <1>1, <1>2 DEF IInv, TypeInv, TypeOK, PropertiesStay
<1>5. Sound' <=> Sound BY <1>1 DEF Sound
<1>6. Sound => Phase' /\ HooksNewest' BY <1>1 DEF IInv, Phase, HooksNewest
<1>7. MainThere' BY <1>1 DEF MainThere
<1> QED BY <1>1, <1>3, <1>4, <1>5, <1>6, <1>7 DEF IInv

LEMMA RunLaunchStep ==
  ASSUME IInv, TypeInv', RunLaunch
  PROVE  IInv'
<1>1. /\ java'.op = java.op /\ java'.pc = "running" /\ java.pc = "init"
      /\ java.op \in Op /\ java.op \in Int
      /\ hooks' = hooks \cup {java.op} /\ hooks \subseteq Op
      /\ UNCHANGED << running, kills, props, faulty, handler >>
  BY JavaFact DEF RunLaunch, IInv, TypeInv, TypeOK, JavaType
<1>2. /\ \A n \in Op : reactor'[n] = IF n = java.op THEN "check" ELSE reactor[n]
      /\ \A n \in Op : main'[n] = IF n = java.op THEN "on" ELSE main[n]
  BY DEF RunLaunch, IInv, TypeInv, TypeOK
<1>3. NotBegun' BY <1>1, <1>2, OpAssumption DEF IInv, NotBegun, Early, Op
<1>4. LongOver' BY <1>1, <1>2, OpAssumption DEF IInv, LongOver, Op
<1>5. PropertiesStay' BY <1>1, <1>2 DEF IInv, PropertiesStay
<1>6. reactor[java.op] = "none" BY <1>1 DEF IInv, NotBegun, Early
<1>7. Sound' <=> Sound BY <1>2, <1>6 DEF Sound
<1>8. Sound => Phase' BY <1>1, <1>2 DEF IInv, Phase, Handling
<1>9. Sound => HooksNewest'
  BY <1>1, <1>2, <1>6 DEF IInv, Phase, HooksNewest, Handling
<1>10. MainThere' BY <1>1, <1>2 DEF MainThere
<1> QED BY <1>1, <1>3, <1>4, <1>5, <1>7, <1>8, <1>9, <1>10 DEF IInv

LEMMA CloseStep ==
  ASSUME IInv, TypeInv', Close
  PROVE  IInv'
<1>1. /\ java'.op = java.op /\ java'.pc = "closed" /\ java.pc = "running" /\ java.op \in Op
      /\ kills' = kills + 1
      /\ UNCHANGED << running, props, hooks, faulty, reactor, main, handler >>
  BY JavaFact DEF Close, IInv, TypeInv, TypeOK, JavaType, threads
<1>2. NotBegun' /\ LongOver' BY <1>1 DEF IInv, NotBegun, LongOver, Early
<1>3. PropertiesStay' BY <1>1 DEF IInv, PropertiesStay
<1>4. Sound' <=> Sound BY <1>1 DEF Sound
<1>5. Sound => Phase' BY <1>1 DEF IInv, Phase
<1>6. HooksNewest' <=> HooksNewest BY <1>1 DEF HooksNewest
<1>7. MainThere => MainThere' BY <1>1 DEF MainThere
<1> QED BY <1>1, <1>2, <1>3, <1>4, <1>5, <1>6, <1>7 DEF IInv

\* MainEnd and MainPanic: IS_RUNNING is down, or the OpModes' own code is to blame.
LEMMA MainStep ==
  ASSUME IInv, TypeInv', NEW n \in Op, main[n] = "on", main' = [main EXCEPT ![n] = "ended"],
         UNCHANGED << java, joined, reactor, handler >>,
         faulty' \/ (faulty' = faulty /\ ~ running)
  PROVE  IInv'
<1>1. n = java.op /\ java.pc \in {"running", "closed"} BY Newest DEF Over
<1>2. \A m \in Op : main'[m] = IF m = n THEN "ended" ELSE main[m] BY DEF IInv, TypeInv, TypeOK
<1>3. java.op \in Int BY <1>1, OpAssumption DEF Op
<1>4. NotBegun' BY <1>1, <1>2, <1>3, OpAssumption DEF IInv, NotBegun, Early, Op
<1>5. LongOver' BY <1>1, <1>2, <1>3, OpAssumption DEF IInv, LongOver, Over, Op
<1>6. PropertiesStay' BY <1>1, <1>2 DEF IInv, PropertiesStay, joined
<1>7. Sound' <=> Sound BY DEF Sound
<1>8. (Phase' <=> Phase) /\ (HooksNewest' <=> HooksNewest) BY DEF Phase, HooksNewest, joined
<1>9. faulty' \/ (MainThere' /\ ~ faulty') \/ faulty BY DEF MainThere, joined
<1> QED BY <1>4, <1>5, <1>6, <1>7, <1>8, <1>9 DEF IInv

-----------------------------------------------------------------------------
LEMMA NextInv ==
  ASSUME IInv, [Next]_vars, Patient
  PROVE  IInv'
<1>1. TypeInv' BY TypeNext DEF IInv
<1>2. CASE Java
  <2>1. CASE Stop BY <1>1, <2>1, Quiet DEF Stop, Grows, joined, threads
  <2> QED
    BY <1>1, <1>2, <2>1, PrepareStep, RunNewStep, RunInitStep, RunLaunchStep, CloseStep DEF Java
<1>3. ASSUME NEW n \in Op, Reactor(n) PROVE IInv'
  BY <1>1, <1>3, CheckStep, TakeKillStep, UnhookStep, SignalStep, ResetPropertiesStep,
     OtherStep, HandleStep, PanicStep DEF Reactor
<1>4. ASSUME NEW n \in Op, MainEnd(n) \/ MainPanic(n) PROVE IInv'
  BY <1>1, <1>4, MainStep DEF MainEnd, MainPanic
<1>5. ASSUME NEW n \in Op, Closure(n) PROVE IInv'
  <2>1. Grows BY <1>5 DEF Closure, ClosureKill, ClosureOrphan, ClosureCall, ClosureReturn,
                          Told, Grows, IInv, TypeInv, TypeOK
  <2>2. UNCHANGED << java, joined, faulty, reactor, main >>
    BY <1>5 DEF Closure, ClosureKill, ClosureOrphan, ClosureCall, ClosureReturn
  <2> QED BY <1>1, <2>1, <2>2, Quiet DEF joined
<1>6. CASE Answer \/ Lose \/ LookAtSdk \/ StoreAccess
  BY <1>1, <1>6, Quiet DEF Answer, Lose, LookAtSdk, StoreAccess, Grows, joined, threads
<1>7. CASE UNCHANGED vars
  BY <1>1, <1>7, Quiet DEF vars, Grows, joined, threads
<1> QED BY <1>2, <1>3, <1>4, <1>5, <1>6, <1>7 DEF Next

THEOREM Invariance ==
  ASSUME Patient
  PROVE  Spec => []IInv
<1>1. IInv /\ [Next]_vars => IInv' BY NextInv
<1> QED BY InitInv, <1>1, PTL DEF Spec

\* However many OpModes follow one another, each is stopped only by its own close.
THEOREM StoppedByOwnCloseAlways ==
  ASSUME Patient
  PROVE  Spec => []StoppedByOwnClose
<1>1. IInv => StoppedByOwnClose
  <2> SUFFICES ASSUME IInv, Sound, NEW n \in Op,
                      reactor[n] \in {"unhook", "signal", "reset", "ended"}
               PROVE  Closed(n)
    BY DEF StoppedByOwnClose
  <2>1. java.op \in Int BY JavaFact DEF IInv
  <2>2. CASE n < java.op BY <2>1, <2>2, OpAssumption DEF Closed, Op
  <2>3. CASE n > java.op BY <2>3 DEF IInv, NotBegun
  <2>4. CASE n = java.op
    BY <2>4, OpAssumption DEF IInv, Phase, NotBegun, Early, Handling, Closed, Op
  <2> QED BY <2>1, <2>2, <2>3, <2>4, OpAssumption DEF Op
<1> QED BY Invariance, <1>1, PTL

\* Each kill stops its reactor for good.
THEOREM StopsWhenKilledAlways ==
  ASSUME Patient
  PROVE  Spec => []StopsWhenKilled
<1>1. IInv => StopsWhenKilled
  <2> SUFFICES ASSUME IInv, Sound, NEW n \in Op, Closed(n), kills = 0
               PROVE  reactor[n] # "select"
    BY DEF StopsWhenKilled
  <2>1. CASE n = java.op
    BY <2>1, OpAssumption DEF IInv, Phase, Closed, Op
  <2>2. CASE java.op > n BY <2>2, JavaFact, OpAssumption DEF IInv, LongOver, Over, Op
  <2> QED BY <2>1, <2>2 DEF Closed
<1> QED BY Invariance, <1>1, PTL

\* No reactor panics for want of its main thread, so a panic is the OpModes' own.
THEOREM ReactorBeforeMainAlways ==
  ASSUME Patient
  PROVE  Spec => []ReactorBeforeMain
<1>1. IInv => ReactorBeforeMain BY DEF IInv, ReactorBeforeMain
<1> QED BY Invariance, <1>1, PTL

\* The proxy calls no interceptor of a reactor that has ended.
THEOREM HooksOfTheLivingAlways ==
  ASSUME Patient
  PROVE  Spec => []HooksOfTheLiving
<1>1. IInv => HooksOfTheLiving BY DEF IInv, HooksNewest, HooksOfTheLiving, Handling
<1> QED BY Invariance, <1>1, PTL

\* Every OpMode finds its properties.
THEOREM FindsItsPropertiesAlways ==
  ASSUME Patient
  PROVE  Spec => []FindsItsProperties
<1>1. IInv => FindsItsProperties BY DEF IInv, PropertiesStay, FindsItsProperties
<1> QED BY Invariance, <1>1, PTL

-----------------------------------------------------------------------------
(* Bulk reads.                                                             *)

\* OpModes whose init function has not yet read the properties.
Unread(n) == n > java.op \/ (n = java.op /\ java.pc \in {"prepared", "new"})

UnderWay == line + answers

Attached == {n \in Op : handler[n] # "none"}

ReadsInv ==
  /\ \A n \in Op : Unread(n) => handler[n] = "none"
  /\ ReadsKept

LEMMA AttachedFinite == IsFiniteSet(Attached) /\ Cardinality(Attached) \in Nat
<1>1. IsFiniteSet(Op) BY OpAssumption, FS_Interval DEF Op
<1>2. IsFiniteSet(Attached) BY <1>1, FS_Subset DEF Attached
<1> QED BY <1>2, FS_CardinalityType

LEMMA InitReads == Init => ReadsInv
<1> SUFFICES ASSUME Init PROVE ReadsInv OBVIOUS
<1>1. \A n \in Op : handler[n] = "none" BY DEF Init
<1>2. Attached = {} BY <1>1 DEF Attached
<1>3. line + answers <= Reads * Cardinality(Attached)
  <2>1. Cardinality(Attached) = 0 BY <1>2, FS_EmptySet
  <2> QED BY <2>1, OpAssumption DEF Init
<1> QED BY <1>1, <1>3 DEF ReadsInv, ReadsKept, Attached

LEMMA UnderWayIs == TypeInv => UnderWay \in Nat
BY DEF TypeInv, TypeOK, UnderWay

LEMMA NatSum == \A a, b \in Nat : a + b \in Nat
OBVIOUS

LEMMA AtLeast == ASSUME NEW a \in Nat, NEW b \in Nat, NEW c \in Nat, a >= b, b >= c PROVE a >= c
OBVIOUS

\* A step that attaches no handler and sends no reads but for answers it handles.
LEMMA SameReads ==
  ASSUME TypeInv, TypeInv', ReadsInv,
         \A n \in Op : /\ handler'[n] = "none" <=> handler[n] = "none"
                       /\ handler'[n] = "sending" => handler[n] = "sending"
                       /\ Unread(n)' => Unread(n)
                       /\ Closed(n) => Closed(n)',
         up' => up, lost' = 0 => lost = 0,
         UnderWay >= UnderWay',
         \A n \in Op : up' /\ lost' = 0 /\ handler'[n] = "sending" /\ ~ Closed(n)' =>
           UnderWay' >= UnderWay
  PROVE  ReadsInv'
<1>1. UnderWay \in Nat /\ UnderWay' \in Nat /\ Reads \in Nat
  <2>1. line \in Nat /\ answers \in Nat /\ line' \in Nat /\ answers' \in Nat BY DEF TypeInv, TypeOK
  <2>2. UnderWay = line + answers /\ UnderWay' = line' + answers' BY DEF UnderWay
  <2> QED BY <2>1, <2>2, NatSum, OpAssumption
<1>2. Attached' = Attached BY DEF Attached
<1>3. Reads * Cardinality(Attached') >= UnderWay'
  <2> DEFINE k == Cardinality(Attached)
             c == Reads * k
  <2>1. k \in Nat BY AttachedFinite
  <2>2. c >= UnderWay BY <1>1, <2>1 DEF ReadsInv, ReadsKept, Attached, UnderWay
  <2>3. c \in Nat BY <1>1, <2>1
  <2> HIDE DEF c
  <2>4. c >= UnderWay' BY <1>1, <2>2, <2>3, AtLeast
  <2> QED BY <1>2, <2>4 DEF c
<1>4. ASSUME NEW n \in Op, up', lost' = 0, handler'[n] = "sending", ~ Closed(n)'
      PROVE  UnderWay' >= Reads
  <2>1. UnderWay >= Reads BY <1>4 DEF ReadsInv, ReadsKept, UnderWay
  <2>2. UnderWay' >= UnderWay BY <1>4
  <2> QED BY <1>1, <2>1, <2>2, AtLeast
<1>5. \A n \in Op : Unread(n)' => handler'[n] = "none" BY DEF ReadsInv
<1>6. UnderWay' <= Reads * Cardinality(Attached')
  <2> DEFINE c == Reads * Cardinality(Attached')
  <2>1. c >= UnderWay' BY <1>3
  <2> HIDE DEF c
  <2>2. UnderWay' <= c BY <2>1
  <2> QED BY <2>2 DEF c
<1> QED BY <1>4, <1>5, <1>6 DEF ReadsInv, ReadsKept, Attached, UnderWay

\* The OpMode's init function attaches the one handler and sends the first reads.
LEMMA RunInitReads ==
  ASSUME IInv, TypeInv', ReadsInv, RunInit
  PROVE  ReadsInv'
<1>1. /\ java'.op = java.op /\ java'.pc = "init" /\ java.pc = "new" /\ java.op \in Op
      /\ props = java.op
  BY JavaFact DEF RunInit, IInv, TypeInv, TypeOK, JavaType, PropertiesStay
<1>2. /\ handler' = [handler EXCEPT ![java.op] = "sending"]
      /\ line' = line + Reads /\ answers' = answers
  BY <1>1 DEF RunInit
<1>3. \A n \in Op : handler'[n] = IF n = java.op THEN "sending" ELSE handler[n]
  BY <1>2 DEF IInv, TypeInv, TypeOK
<1>4. handler[java.op] = "none" BY <1>1 DEF ReadsInv, Unread
<1>5. Attached' = Attached \cup {java.op} /\ java.op \notin Attached
  BY <1>1, <1>3, <1>4 DEF Attached
<1> DEFINE k == Cardinality(Attached)
<1>6. k \in Nat /\ Cardinality(Attached') = k + 1 BY <1>5, AttachedFinite, FS_AddElement
<1>7. line + answers <= Reads * k BY DEF ReadsInv, ReadsKept, Attached
<1> HIDE DEF k
<1>8. /\ line \in Nat /\ answers \in Nat /\ Reads \in Nat
  BY OpAssumption DEF IInv, TypeInv, TypeOK
<1>9. line' + answers' <= Reads * (k + 1)
  <2>1. Reads * (k + 1) = Reads * k + Reads /\ Reads * k \in Nat BY <1>6, <1>8
  <2> QED BY <1>2, <1>7, <1>8, <2>1
<1>10. line' + answers' >= Reads BY <1>2, <1>8
<1>11. \A n \in Op : Unread(n)' => handler'[n] = "none"
  BY <1>1, <1>3, OpAssumption DEF ReadsInv, Unread, Op
<1> QED BY <1>6, <1>9, <1>10, <1>11 DEF ReadsInv, ReadsKept, Attached

\* A bulk answer is handled by the newest OpMode's reactor, which sends the next read.
LEMMA HandleReads ==
  ASSUME IInv, TypeInv', ReadsInv, NEW n \in Op, Handle(n)
  PROVE  ReadsInv'
<1> DEFINE x == IF handler[n] = "told" THEN "silent" ELSE handler[n]
<1>1. /\ answers > 0 /\ answers' = answers - 1
      /\ handler' = [handler EXCEPT ![n] = x]
      /\ line' = IF x = "sending" THEN line + 1 ELSE line
      /\ UNCHANGED << java, up, lost >>
  BY DEF Handle
<1>2. n = java.op BY Newest DEF Handle, Over
<1>3. \A m \in Op : handler'[m] = IF m = n THEN x ELSE handler[m]
  BY <1>1 DEF IInv, TypeInv, TypeOK
<1>4. (x = "none" <=> handler[n] = "none") /\ (x = "sending" => handler[n] = "sending") OBVIOUS
<1> HIDE DEF x
<1>5. line \in Nat /\ answers \in Nat BY DEF IInv, TypeInv, TypeOK
<1>6. UnderWay >= UnderWay' BY <1>1, <1>5 DEF UnderWay
<1>7. ASSUME NEW m \in Op, handler'[m] = "sending", ~ Closed(m)'
      PROVE  UnderWay' >= UnderWay
  <2>1. ~ Unread(m) BY <1>3, <1>4, <1>7 DEF ReadsInv
  <2>2. java.op \in Int /\ m \in Int BY JavaFact, OpAssumption DEF IInv, Op
  <2>3. m = n BY <1>1, <1>2, <1>7, <2>1, <2>2 DEF Unread, Closed
  <2>4. x = "sending" BY <1>3, <1>7, <2>3
  <2> QED BY <1>1, <1>5, <2>4 DEF UnderWay
<1>8. \A m \in Op : /\ handler'[m] = "none" <=> handler[m] = "none"
                    /\ handler'[m] = "sending" => handler[m] = "sending"
                    /\ Unread(m)' => Unread(m)
                    /\ Closed(m) => Closed(m)'
  BY <1>1, <1>3, <1>4 DEF Unread, Closed
<1> QED BY <1>1, <1>6, <1>7, <1>8, SameReads DEF IInv

\* Java's steps but that one.
LEMMA JavaReads ==
  ASSUME IInv, TypeInv', ReadsInv, Prepare \/ RunNew \/ RunLaunch \/ Stop \/ Close
  PROVE  ReadsInv'
<1>1. UNCHANGED << handler, up, line, answers, lost >>
  BY DEF Prepare, RunNew, RunLaunch, Stop, Close, threads, bulk
<1>2. /\ java.op \in Int /\ line \in Nat /\ answers \in Nat /\ \A n \in Op : n \in Int
  BY JavaFact, OpAssumption DEF IInv, TypeInv, TypeOK, Op
<1>3. ASSUME NEW n \in Op PROVE (Unread(n)' => Unread(n)) /\ (Closed(n) => Closed(n)')
  <2>1. CASE Prepare
    <3>1. java.pc = "closed" /\ java'.op = java.op + 1 BY <2>1 DEF Prepare
    <3> QED BY <1>2, <3>1 DEF Unread, Closed
  <2>2. CASE RunNew \/ RunLaunch \/ Stop \/ Close
    <3>1. /\ java'.op = java.op
          /\ java'.pc \in {"prepared", "new"} => java.pc \in {"prepared", "new"}
          /\ java.pc = "closed" => java'.pc = "closed"
      BY <2>2 DEF RunNew, RunLaunch, Stop, Close, IInv, TypeInv, TypeOK, JavaType
    <3> QED BY <3>1 DEF Unread, Closed
  <2> QED BY <2>1, <2>2
<1>4. UnderWay' = UnderWay BY <1>1 DEF UnderWay
<1>5. UnderWay >= UnderWay' /\ UnderWay' >= UnderWay BY <1>4, UnderWayIs DEF IInv
<1> QED BY <1>1, <1>3, <1>5, SameReads DEF IInv

\* Steps that leave the handlers, or tell one to stop.
LEMMA OtherReads ==
  ASSUME IInv, TypeInv', ReadsInv, UNCHANGED java, up' => up, lost' = 0 => lost = 0,
         handler' = handler \/ \E n \in Op : handler' = [handler EXCEPT ![n] = Told(n)],
         UnderWay >= UnderWay',
         up' /\ lost' = 0 => UnderWay' >= UnderWay
  PROVE  ReadsInv'
<1>1. \A m \in Op : /\ handler'[m] = "none" <=> handler[m] = "none"
                    /\ handler'[m] = "sending" => handler[m] = "sending"
  BY DEF IInv, TypeInv, TypeOK, Told
<1>2. \A n \in Op : (Unread(n)' => Unread(n)) /\ (Closed(n) => Closed(n)') BY DEF Unread, Closed
<1> QED BY <1>1, <1>2, SameReads DEF IInv

LEMMA NextReads ==
  ASSUME IInv, ReadsInv, [Next]_vars
  PROVE  ReadsInv'
<1>1. TypeInv' BY TypeNext DEF IInv
<1>2. line \in Nat /\ answers \in Nat /\ lost \in Nat BY DEF IInv, TypeInv, TypeOK
<1>3. CASE Java BY <1>1, <1>3, JavaReads, RunInitReads DEF Java
<1>4. ASSUME NEW n \in Op, Check(n) \/ TakeKill(n) \/ Unhook(n) \/ Signal(n)
                           \/ ResetProperties(n) \/ Other(n) \/ MainEnd(n) \/ MainPanic(n)
      PROVE  ReadsInv'
  <2>1. UNCHANGED << java, up, handler, line, answers, lost >>
    BY <1>4 DEF Check, TakeKill, Unhook, Signal, ResetProperties, Other, MainEnd, MainPanic, bulk
  <2>2. UnderWay >= UnderWay' /\ UnderWay' >= UnderWay BY <1>2, <2>1 DEF UnderWay
  <2> QED BY <1>1, <2>1, <2>2, OtherReads
<1>5. ASSUME NEW n \in Op, Handle(n) PROVE ReadsInv' BY <1>1, <1>5, HandleReads
<1>6. ASSUME NEW n \in Op, Panic(n) PROVE ReadsInv'
  <2>1. ~ up' /\ UNCHANGED << java, handler, line, lost >> BY <1>6 DEF Panic
  <2>2. answers' = answers \/ (answers > 0 /\ answers' = answers - 1) BY <1>6 DEF Panic
  <2>3. UnderWay >= UnderWay' BY <1>2, <2>1, <2>2 DEF UnderWay
  <2> QED BY <1>1, <2>1, <2>3, OtherReads
<1>7. ASSUME NEW n \in Op, Closure(n) PROVE ReadsInv'
  <2>1. /\ UNCHANGED << java, line, answers, lost >> /\ (up' => up)
        /\ handler' = handler \/ handler' = [handler EXCEPT ![n] = Told(n)]
    <3>1. CASE ClosureKill(n) BY <3>1 DEF ClosureKill, bulk
    <3>2. CASE ClosureOrphan(n) BY <3>2 DEF ClosureOrphan, bulk
    <3>3. CASE ClosureCall(n) BY <3>3 DEF ClosureCall, bulk
    <3>4. CASE ClosureReturn(n) BY <3>4 DEF ClosureReturn, bulk
    <3> QED BY <1>7, <3>1, <3>2, <3>3, <3>4 DEF Closure
  <2>2. UnderWay >= UnderWay' /\ UnderWay' >= UnderWay BY <1>2, <2>1 DEF UnderWay
  <2> QED BY <1>1, <2>1, <2>2, OtherReads
<1>8. CASE Answer
  <2>1. UNCHANGED << java, up, handler, lost >> /\ line' = line - 1 /\ answers' = answers + 1
    BY <1>8 DEF Answer, threads
  <2>2. UnderWay >= UnderWay' /\ UnderWay' >= UnderWay BY <1>2, <2>1 DEF UnderWay
  <2> QED BY <1>1, <2>1, <2>2, OtherReads
<1>9. CASE Lose
  <2>1. UNCHANGED << java, up, handler, answers >> /\ line' = line - 1 /\ lost' = lost + 1
    BY <1>9 DEF Lose, threads
  <2>2. UnderWay >= UnderWay' /\ lost' # 0 BY <1>2, <2>1 DEF UnderWay
  <2> QED BY <1>1, <2>1, <2>2, OtherReads
<1>10. CASE LookAtSdk \/ StoreAccess \/ UNCHANGED vars
  <2>1. UNCHANGED << java, up, handler, line, answers, lost >>
    BY <1>10 DEF LookAtSdk, StoreAccess, vars, threads, bulk
  <2>2. UnderWay >= UnderWay' /\ UnderWay' >= UnderWay BY <1>2, <2>1 DEF UnderWay
  <2> QED BY <1>1, <2>1, <2>2, OtherReads
<1> QED BY <1>3, <1>4, <1>5, <1>6, <1>7, <1>8, <1>9, <1>10 DEF Next, Reactor

\* The bulk reads of a closure that wants data go on while its OpMode runs and the line is
\* sound, and they never add up to more than each OpMode sent at first, for any number of
\* OpModes and of reads.
THEOREM ReadsKeptAlways ==
  ASSUME Patient
  PROVE  Spec => []ReadsKept
<1>1. IInv /\ ReadsInv /\ [Next]_vars => ReadsInv' BY NextReads
<1>2. ReadsInv => ReadsKept BY DEF ReadsInv
<1> QED BY Invariance, InitReads, <1>1, <1>2, PTL DEF Spec

=============================================================================
