---------------------------- MODULE ReportsProofs ----------------------------
(***************************************************************************)
(* Theorems about Reports, for any children, bounds, faults and cap: types *)
(* are kept, no report that is due and no promise of one falls through,    *)
(* and the cap on wakes is kept.                                           *)
(***************************************************************************)
EXTENDS Reports, TLAPS

(***************************************************************************)
(* Types                                                                   *)
(***************************************************************************)
CallsType == call \in [Child -> Calls]
TasksType == tasks \subseteq Tasks
BoundsType == bounds \in [{"calls", "sends", "stops", "hours"} -> Nat]

\* A run of the parent that starts keeps the types of the parent.
LEMMA StartTypes ==
  ASSUME TypeOK, NEW from \in Position, Start(from), inbox' = inbox,
         queue' \in Seq(Position)
  PROVE  ParentTypes'
BY DEF TypeOK, ParentTypes, Start, PassOver, Position

\* A bounded count keeps its type.
LEMMA SpendTypes ==
  ASSUME TypeOK, NEW b \in {"calls", "sends", "stops", "hours"}, NEW max, Spend(b, max)
  PROVE  BoundsType'
BY DEF TypeOK, Spend, BoundsType

\* A call that goes on keeps its type.
LEMMA GoToTypes ==
  ASSUME TypeOK, NEW c \in Child, GoTo(c, "dispatch") \/ GoTo(c, "ask")
           \/ GoTo(c, "await") \/ GoTo(c, "later")
  PROVE  CallsType'
<1>1. call[c] \in Calls
  BY DEF TypeOK
<1>2. /\ [call[c] EXCEPT !.pc = "dispatch"] \in Calls
      /\ [call[c] EXCEPT !.pc = "ask"] \in Calls
      /\ [call[c] EXCEPT !.pc = "await"] \in Calls
      /\ [call[c] EXCEPT !.pc = "later"] \in Calls
  BY <1>1 DEF Calls
<1> HIDE DEF Calls
<1> QED  BY <1>2 DEF TypeOK, GoTo, CallsType

\* So does one that returns.
LEMMA ReturnTypes ==
  ASSUME TypeOK, NEW c \in Child, Return(c)
  PROVE  CallsType'
<1>1. NoCall \in Calls
  BY DEF NoCall, Calls, Position
<1> QED  BY <1>1 DEF TypeOK, Return, CallsType

\* And one that begins.
LEMMA NewCallTypes ==
  ASSUME TypeOK, NEW c \in Child, NEW wait \in BOOLEAN,
         NewCall(c, "dispatch", "spawn", wait) \/ NewCall(c, "deliver", "message", wait)
  PROVE  CallsType'
<1>1. /\ [pc |-> "dispatch", op |-> "spawn", wait |-> wait, by |-> None] \in Calls
      /\ [pc |-> "deliver", op |-> "message", wait |-> wait, by |-> None] \in Calls
  BY DEF Calls, Position
<1> HIDE DEF Calls
<1> QED  BY <1>1 DEF TypeOK, NewCall, CallsType

\* Promises are of ends, by number.
PromiseTypes ==
  /\ told \in [Child -> Nat] /\ asked \in [Child -> SUBSET Nat]
  /\ broken \in [Child -> SUBSET Nat]

LEMMA EndNumbers ==
  ASSUME TypeOK, NEW c \in Child
  PROVE  ended[c] \in Nat /\ NextEnd(c) \in Nat /\ LastEnd(c) \in Nat
BY DEF TypeOK, KidTypes, NextEnd, LastEnd

LEMMA PledgeTyped ==
  ASSUME TypeOK, NEW c \in Child, NEW k \in Nat, NEW lost, Pledge(c, k, lost)
  PROVE  PromiseTypes'
BY DEF TypeOK, KidTypes, Pledge, PromiseTypes

LEMMA PromiseTyped ==
  ASSUME TypeOK, NEW c \in Child, NEW k \in Nat, Promise(c, k)
  PROVE  PromiseTypes'
BY PledgeTyped DEF Promise

LEMMA BreakTyped ==
  ASSUME TypeOK, NEW c \in Child, NEW lost \in SUBSET Nat, Break(c, lost)
  PROVE  PromiseTypes'
BY DEF TypeOK, KidTypes, Break, PromiseTypes

\* A report is a task; a task that moves stays one.
LEMMA ReportTypes ==
  ASSUME NEW c \in Child, NEW n \in Nat, NEW stopped \in BOOLEAN
  PROVE  Report(c, n, stopped) \in Tasks
BY DEF Report, Tasks

LEMMA InitTypes == Init => TypeOK
<1> SUFFICES ASSUME Init
             PROVE  TypeOK
  OBVIOUS
<1>1. KidTypes
  BY DEF Init, KidTypes
<1>2. ParentTypes /\ WakeTypes
  BY DEF Init, ParentTypes, WakeTypes, Position
<1>3. call \in [Child -> Calls]
  BY DEF Init, Calls, NoCall, Position
<1> QED  BY <1>1, <1>2, <1>3 DEF Init, TypeOK

LEMMA BeginSpawnTypes ==
  ASSUME TypeOK, NEW c \in Child, NEW wait \in BOOLEAN, BeginSpawn(c, wait)
  PROVE  TypeOK'
<1>1. BoundsType'
  BY SpendTypes DEF BeginSpawn
<1>2. KidTypes'
  BY DEF BeginSpawn, TypeOK, KidTypes, Ask, Owe, promises
<1>4. CallsType'
  BY NewCallTypes DEF BeginSpawn
<1> QED  BY <1>1, <1>2, <1>4 DEF BeginSpawn, TypeOK, BoundsType, CallsType,
            ParentTypes, WakeTypes, parentRun, wakes, reports

LEMMA BeginMessageTypes ==
  ASSUME TypeOK, NEW c \in Child, NEW wait \in BOOLEAN, BeginMessage(c, wait)
  PROVE  TypeOK'
<1>1. BoundsType'
  BY SpendTypes DEF BeginMessage
<1>2. KidTypes'
  BY DEF BeginMessage, TypeOK, KidTypes, Ask, Owe, kids, promises
<1>4. CallsType'
  BY NewCallTypes DEF BeginMessage
<1> QED  BY <1>1, <1>2, <1>4 DEF BeginMessage, TypeOK, BoundsType, CallsType,
            ParentTypes, WakeTypes, parentRun, wakes, reports

\* A call that goes on waiting, or returns with a promise.
LEMMA AwaitsTypes ==
  ASSUME TypeOK, NEW c \in Child, AwaitsOrReturns(c)
  PROVE  CallsType' /\ PromiseTypes'
<1>1. CallsType'
  BY GoToTypes, ReturnTypes DEF AwaitsOrReturns
<1>2. ASSUME UNCHANGED promises
      PROVE  PromiseTypes'
  <2>1. told' = told /\ asked' = asked /\ broken' = broken
    BY <1>2 DEF promises
  <2> QED  BY <2>1 DEF TypeOK, KidTypes, PromiseTypes
<1>3. ASSUME Promise(c, NextEnd(c))
      PROVE  PromiseTypes'
  BY <1>3, EndNumbers, PromiseTyped
<1> QED  BY <1>1, <1>2, <1>3 DEF AwaitsOrReturns

LEMMA CallStepTypes ==
  ASSUME TypeOK, NEW c \in Child, CallStep(c)
  PROVE  TypeOK'
<1>1. CallsType'
  <2>1. CASE Deliver(c) \/ Launched(c)
    BY <2>1, AwaitsTypes, GoToTypes DEF Deliver, Launched
  <2>2. CASE Queued(c) \/ AskQueued(c) \/ NotStarted(c) \/ Answered(c) \/ TimesOut(c) \/ Look(c)
    BY <2>2, GoToTypes, ReturnTypes DEF Queued, AskQueued, NotStarted, Answered, TimesOut, Look
  <2>3. CASE AskLater(c)
    <3>1. [call[c] EXCEPT !.pc = "look", !.by = None] \in Calls
      BY DEF TypeOK, Calls, Position
    <3> QED  BY <2>3, <3>1 DEF AskLater, TypeOK, CallsType
  <2> QED  BY <2>1, <2>2, <2>3 DEF CallStep
<1>2. KidTypes'
  <2> USE EndNumbers DEF TypeOK, KidTypes, PromiseTypes, kids, promises
  <2>1. CASE Launched(c)
    <3>1. PromiseTypes'
      BY <2>1, AwaitsTypes DEF Launched
    <3> QED  BY <2>1, <3>1 DEF Launched
  <2>2. CASE Queued(c)
    BY <2>2 DEF Queued
  <2>3. CASE AskQueued(c)
    <3>1. PromiseTypes'
      BY <2>3, PledgeTyped DEF AskQueued
    <3> QED  BY <2>3, <3>1 DEF AskQueued, Owe
  <2>4. CASE NotStarted(c)
    <3>1. PICK kept \in BOOLEAN : /\ owed' = [owed EXCEPT ![c] = @ /\ kept]
                                 /\ Break(c, IF kept THEN {} ELSE {k \in asked[c] : ~ OnItsWay(c, k)})
      BY <2>4 DEF NotStarted, TypeOK, Calls
    <3>2. PromiseTypes'
      BY <3>1, BreakTyped
    <3> QED  BY <2>4, <3>1, <3>2 DEF NotStarted
  <2>5. CASE AskLater(c)
    BY <2>5 DEF AskLater, Owe
  <2>6. CASE Look(c)
    <3>1. PromiseTypes'
      BY <2>6, PromiseTyped DEF Look, PromiseLater
    <3> QED  BY <2>6, <3>1 DEF Look
  <2>7. CASE Deliver(c)
    <3>1. PromiseTypes'
      BY <2>7, AwaitsTypes DEF Deliver
    <3> QED  BY <2>7, <3>1 DEF Deliver
  <2>8. CASE UNCHANGED <<kids, owed, promises>>
    BY <2>8
  <2> QED  BY <2>1, <2>2, <2>3, <2>4, <2>5, <2>6, <2>7, <2>8
            DEF CallStep, Answered, TimesOut
<1>3. TasksType'
  BY ReportTypes DEF CallStep, Deliver, Launched, Queued, AskQueued, NotStarted,
     Answered, TimesOut, AskLater, Look, TasksType, TypeOK
<1>4. UNCHANGED <<inbox, parentRun, wakes, bounds, reports>>
  BY DEF CallStep, Deliver, Launched, Queued, AskQueued, NotStarted,
     Answered, TimesOut, AskLater, Look
<1> QED  BY <1>1, <1>2, <1>3, <1>4 DEF TypeOK, BoundsType, CallsType, TasksType,
            ParentTypes, WakeTypes, parentRun, wakes, reports

LEMMA ChildTypes ==
  ASSUME TypeOK, NEW c \in Child,
         PumpStarts(c) \/ PumpFails(c) \/ RunEnds(c) \/ KillChild(c)
  PROVE  TypeOK'
<1> USE EndNumbers
<1>1. KidTypes'
  <2> USE DEF TypeOK, KidTypes, PromiseTypes, promises
  <2>1. CASE PumpStarts(c)
    BY <2>1 DEF PumpStarts
  <2>2. CASE RunEnds(c)
    BY <2>2 DEF RunEnds
  <2>3. CASE KillChild(c)
    <3>1. ended' = [ended EXCEPT ![c] = @ + 1] \/ ended' = ended
      BY <2>3, Zenon DEF KillChild
    <3>2. ended' \in [Child -> Nat]
      BY <3>1
    <3>3. asked' \in [Child -> SUBSET Nat]
      BY <2>3 DEF KillChild
    <3> QED  BY <2>3, <3>2, <3>3 DEF KillChild
  <2>4. CASE PumpFails(c)
    <3> DEFINE lost == asked[c] \cap {NextEnd(c)}
    <3>1. Break(c, lost)
      BY <2>4 DEF PumpFails
    <3>2. lost \in SUBSET Nat
      BY DEF NextEnd
    <3> HIDE DEF lost
    <3>3. PromiseTypes'
      BY <3>1, <3>2, BreakTyped
    <3>4. waiting' \in [Child -> Nat] /\ ended' \in [Child -> Nat] /\ owed' \in [Child -> BOOLEAN]
      BY <2>4 DEF PumpFails
    <3>5. child' \in [Child -> {"absent", "made", "idle", "live", "killed"}]
      BY <2>4 DEF PumpFails
    <3> QED  BY <3>3, <3>4, <3>5
  <2> QED  BY <2>1, <2>2, <2>3, <2>4
<1>3. TasksType'
  <2>1. Report(c, NextEnd(c), TRUE) \in Tasks /\ Report(c, NextEnd(c), FALSE) \in Tasks
    BY ReportTypes
  <2>2. tasks' \subseteq tasks \cup {Report(c, NextEnd(c), TRUE), Report(c, NextEnd(c), FALSE)}
    BY DEF PumpStarts, PumpFails, RunEnds, KillChild
  <2> QED  BY <2>1, <2>2 DEF TypeOK, TasksType
<1>4. BoundsType'
  BY SpendTypes DEF PumpStarts, PumpFails, RunEnds, KillChild, TypeOK, BoundsType
<1>5. UNCHANGED <<call, inbox, parentRun, wakes, reports>>
  BY DEF PumpStarts, PumpFails, RunEnds, KillChild
<1> QED  BY <1>1, <1>3, <1>4, <1>5 DEF TypeOK, BoundsType, TasksType,
            ParentTypes, WakeTypes, parentRun, wakes, reports

\* What a report that is taken says, and what it does to the call it is taken from.
LEMMA TakeTypes ==
  ASSUME TypeOK, NEW t \in tasks, Take(t)
  PROVE  CallsType' /\ PromiseTypes' /\ TasksType'
<1>1. t \in Tasks /\ t.child \in Child
  BY DEF TypeOK, Tasks
<1>2. ended[t.child] \in Nat
  BY <1>1, EndNumbers
<1>3. CASE owed[t.child]
  <2>1. call[t.child] \in Calls
    BY <1>1 DEF TypeOK
  <2>2. [call[t.child] EXCEPT !.by = ended[t.child]] \in Calls
    BY <1>2, <2>1 DEF Calls, Position
  <2>3. CallsType'
    BY <1>1, <1>3, <2>1, <2>2 DEF Take, TypeOK, CallsType
  <2>4. asked[t.child] \in SUBSET Nat
    BY <1>1 DEF TypeOK, KidTypes
  <2>5. PromiseTypes'
    BY <1>1, <1>3, <2>4, BreakTyped DEF Take
  <2>6. [t EXCEPT !.pc = "deliver", !.tells = ended[t.child], !.dead = parent = "killed"] \in Tasks
    BY <1>1, <1>2 DEF Tasks
  <2> QED  BY <1>3, <2>3, <2>5, <2>6 DEF Take, Move, TypeOK, TasksType
<1>4. CASE ~ owed[t.child]
  BY <1>4 DEF Take, TypeOK, KidTypes, CallsType, PromiseTypes, TasksType, promises
<1> QED  BY <1>3, <1>4

LEMMA ReportStepTypes ==
  ASSUME TypeOK, NEW t \in tasks, Take(t) \/ Hand(t) \/ Allow(t) \/ Pend(t)
  PROVE  TypeOK'
<1>1. t \in Tasks
  BY DEF TypeOK
<1>2. inbox \in Nat
  BY DEF TypeOK, ParentTypes
<1>3. /\ [t EXCEPT !.pc = "allow", !.tells = 0, !.at = inbox] \in Tasks
      /\ [t EXCEPT !.pc = "pend"] \in Tasks
      /\ t.child \in Child /\ t.at \in Nat /\ t.tells \in Nat
  BY <1>1, <1>2 DEF Tasks
<1>4. TasksType' /\ CallsType'
  <2>1. CASE Take(t)
    BY <2>1, TakeTypes
  <2> QED  BY <1>3, <2>1 DEF Hand, Allow, Pend, Move, TypeOK, TasksType, CallsType
<1>5. KidTypes'
  <2>1. CASE Take(t)
    BY <1>3, <2>1, TakeTypes DEF Take, kids, TypeOK, KidTypes, PromiseTypes
  <2>2. CASE Hand(t)
    BY <1>3, <2>2 DEF Hand, kids, TypeOK, KidTypes
  <2> QED  BY <2>1, <2>2 DEF Allow, Pend, kids, promises, TypeOK, KidTypes
<1>6. ParentTypes'
  <2>1. CASE Hand(t)
    <3>1. inbox' = inbox + 1 /\ UNCHANGED parentRun
          /\ due' \subseteq due \cup {inbox + 1} /\ passed' \subseteq passed \cup {inbox + 1}
      BY <2>1 DEF Hand
    <3> QED  BY <3>1 DEF parentRun, TypeOK, ParentTypes
  <2> QED  BY <2>1 DEF Take, Allow, Pend, parentRun, reports, TypeOK, ParentTypes
<1>7. WakeTypes'
  BY <1>3 DEF Take, Hand, Allow, Pend, wakes, TypeOK, WakeTypes, Position
<1>8. bounds' = bounds
  BY DEF Take, Hand, Allow, Pend
<1> QED  BY <1>4, <1>5, <1>6, <1>7, <1>8 DEF TypeOK, TasksType, CallsType

ParentSteps ==
  Send \/ PumpStartsParent \/ PumpFailsParent \/ CompactionEnds \/ ParentLooks \/ ParentFails

LEMMA ParentStepTypes ==
  ASSUME TypeOK, ParentSteps
  PROVE  TypeOK'
<1>1. None \in Position /\ inbox \in Nat
  BY DEF Position, TypeOK, ParentTypes
<1>2. BoundsType'
  BY SpendTypes DEF ParentSteps, Send, PumpStartsParent, PumpFailsParent, CompactionEnds,
     ParentLooks, ParentFails, TypeOK, BoundsType
<1>3. ParentTypes'
  <2>0. queue # << >> => Head(queue) \in Position /\ Tail(queue) \in Seq(Position)
    BY DEF TypeOK, ParentTypes
  <2>1. CASE Send
    <3>1. queue' \in Seq(Position)
      <4>1. queue \in Seq(Position) /\ Append(queue, None) \in Seq(Position)
        BY <1>1 DEF TypeOK, ParentTypes
      <4> QED  BY <2>1, <4>1 DEF Send
    <3>2. CASE Start(None)
      BY <1>1, <2>1, <3>1, <3>2, StartTypes DEF Send
    <3>3. CASE StartCompaction
      BY <2>1, <3>1, <3>3 DEF Send, StartCompaction, PassOver, TypeOK, ParentTypes
    <3> QED  BY <2>1, <3>1, <3>2, <3>3 DEF Send, TypeOK, ParentTypes, reports
  <2>2. CASE PumpStartsParent
    <3>2. CASE Start(Head(queue))
      BY <2>0, <2>2, <3>2, StartTypes DEF PumpStartsParent
    <3>3. CASE StartCompaction
      BY <2>0, <2>2, <3>3 DEF PumpStartsParent, StartCompaction, PassOver, TypeOK, ParentTypes
    <3> QED  BY <2>2, <3>2, <3>3 DEF PumpStartsParent
  <2>3. CASE ParentLooks
    BY <2>3 DEF ParentLooks, TypeOK, ParentTypes, Position
  <2>4. CASE ParentFails
    BY <2>4 DEF ParentFails, TypeOK, ParentTypes, Position
  <2>5. CASE PumpFailsParent \/ CompactionEnds
    BY <2>0, <2>5 DEF PumpFailsParent, CompactionEnds, TypeOK, ParentTypes, reports
  <2> QED  BY <2>1, <2>2, <2>3, <2>4, <2>5 DEF ParentSteps
<1>4. UNCHANGED <<kids, owed, call, tasks, wakes, promises>>
  BY DEF ParentSteps, Send, PumpStartsParent, PumpFailsParent, CompactionEnds, ParentLooks,
     ParentFails
<1> QED  BY <1>2, <1>3, <1>4 DEF TypeOK, BoundsType, KidTypes, WakeTypes, kids, wakes, promises

LEMMA StopParentTypes == ASSUME TypeOK, StopParent PROVE TypeOK'
<1>1. BoundsType'
  BY SpendTypes DEF StopParent
<1>2. PICK D \in SUBSET Child :
        /\ call' = [c \in Child |-> IF c \in D /\ Waits(c) THEN NoCall ELSE call[c]]
        /\ tasks' = {t \in tasks : ~ (t.child \in D /\ OwnReport(t))}
        /\ broken' = [c \in Child |-> broken[c] \cup
              {k \in asked[c] : \E t \in tasks \ tasks' : t.child = c /\ k <= t.tells}]
  BY DEF StopParent
<1>3. NoCall \in Calls
  BY DEF NoCall, Calls, Position
<1>4. CallsType' /\ TasksType'
  BY <1>2, <1>3 DEF TypeOK, CallsType, TasksType
<1>5. broken' \in [Child -> SUBSET Nat]
  <2> DEFINE lost(c) == {k \in asked[c] : \E t \in tasks \ tasks' : t.child = c /\ k <= t.tells}
  <2>1. \A c \in Child : lost(c) \subseteq Nat /\ broken[c] \subseteq Nat
    BY DEF TypeOK, KidTypes
  <2>2. broken' = [c \in Child |-> broken[c] \cup lost(c)]
    BY <1>2
  <2> HIDE DEF lost
  <2> QED  BY <2>1, <2>2
<1>6. KidTypes'
  BY <1>5 DEF TypeOK, KidTypes, StopParent, kids
<1>7. ParentTypes' /\ WakeTypes'
  BY DEF TypeOK, ParentTypes, WakeTypes, StopParent, wakes
<1> QED  BY <1>1, <1>4, <1>6, <1>7 DEF TypeOK, BoundsType, CallsType, TasksType

LEMMA WakeStepTypes == ASSUME TypeOK, WakeStep \/ HourPasses PROVE TypeOK'
<1>1. WakeTypes'
  BY NoneAssumption DEF WakeStep, HourPasses, Fire, WakeLooks, WakeAllowed,
     WakeCounts, WakeDispatches, TypeOK, WakeTypes, Wakes, Position
<1>2. BoundsType'
  BY SpendTypes DEF WakeStep, HourPasses, Fire, WakeLooks, WakeAllowed,
     WakeCounts, WakeDispatches, TypeOK, BoundsType
<1>3. ParentTypes'
  <2>1. CASE WakeDispatches
    <3>1. wake.from \in Position
      BY <2>1 DEF WakeDispatches, TypeOK, WakeTypes, Wakes, Position
    <3>2. queue' \in Seq(Position) /\ inbox' = inbox
      BY <2>1, <3>1 DEF WakeDispatches, TypeOK, ParentTypes, parentRun
    <3>3. CASE Start(wake.from)
      BY <3>1, <3>2, <3>3, StartTypes
    <3> QED  BY <2>1, <3>2, <3>3 DEF WakeDispatches, TypeOK, ParentTypes, parentRun, PassOver,
                reports, Runs
  <2> QED  BY <2>1 DEF WakeStep, HourPasses, Fire, WakeLooks, WakeAllowed,
              WakeCounts, TypeOK, ParentTypes, parentRun, PassOver, reports
<1>4. UNCHANGED <<kids, owed, call, tasks, promises>>
  BY DEF WakeStep, HourPasses, Fire, WakeLooks, WakeAllowed, WakeCounts, WakeDispatches
<1> QED  BY <1>1, <1>2, <1>3, <1>4 DEF TypeOK, BoundsType, KidTypes, kids, promises

LEMMA CrashTypes == ASSUME TypeOK, Crash PROVE TypeOK'
<1>1. BoundsType'
  BY SpendTypes DEF Crash
<1>2. NoCall \in Calls
  BY DEF NoCall, Calls, Position
<1>3. queue' \in Seq(Position)
  BY DEF Crash, TypeOK, ParentTypes
<1>4. ParentTypes' /\ WakeTypes'
  BY <1>3 DEF Crash, TypeOK, ParentTypes, WakeTypes, Position
<1>5. asked' \in [Child -> SUBSET Nat]
  <2>1. \A c \in Child : NextEnd(c) \in Nat
    BY EndNumbers
  <2> QED  BY <2>1 DEF Crash
<1>6. KidTypes'
  BY <1>5 DEF Crash, TypeOK, KidTypes
<1> QED  BY <1>1, <1>2, <1>4, <1>6 DEF Crash, TypeOK, BoundsType

LEMMA StepTypes == TypeOK /\ [Next]_vars => TypeOK'
<1>1. ASSUME TypeOK, UNCHANGED vars
      PROVE  TypeOK'
  BY <1>1 DEF TypeOK, KidTypes, ParentTypes, WakeTypes, vars, kids, parentRun, wakes,
     reports, promises
<1> QED  BY <1>1, BeginSpawnTypes, BeginMessageTypes, CallStepTypes, ChildTypes,
            ReportStepTypes, ParentStepTypes, StopParentTypes, WakeStepTypes,
            CrashTypes DEF Next, ReportStep, ParentSteps

\* Every variable keeps its type: the module's type invariant.
THEOREM TypeCorrect == Spec => []TypeOK
<1>1. Init => TypeOK
  BY InitTypes
<1>2. TypeOK /\ [Next]_vars => TypeOK'
  BY StepTypes
<1> QED  BY <1>1, <1>2, PTL DEF Spec

(***************************************************************************)
(* The cap and the timer                                                   *)
(***************************************************************************)
\* A wake that was allowed is the only one under way, so the cap has room for it.
AllowedHasRoom == wake # None /\ wake.pc = "count" => woken < WakesPerHour

CapInv == TypeOK /\ PendingHasTimer /\ CapIsKept /\ AllowedHasRoom

LEMMA CapInit == Init => CapInv
BY InitTypes, WakesAssumption DEF Init, CapInv, PendingHasTimer, CapIsKept, AllowedHasRoom

LEMMA CapStep == CapInv /\ [Next]_vars => CapInv'
<1> SUFFICES ASSUME CapInv, [Next]_vars
             PROVE  CapInv'
  OBVIOUS
<1>1. TypeOK'
  BY StepTypes DEF CapInv
<1>2. CASE UNCHANGED wakes
  BY <1>1, <1>2 DEF CapInv, PendingHasTimer, CapIsKept, AllowedHasRoom, wakes
<1>3. ASSUME NEW t \in tasks, Pend(t)
      PROVE  CapInv'
  <2>1. t.at # None
    BY NoneAssumption DEF CapInv, TypeOK, Tasks
  <2>2. PendingHasTimer'
    BY <1>3, <2>1, NoneAssumption DEF Pend, CapInv, PendingHasTimer
  <2> QED  BY <1>1, <1>3, <2>2 DEF Pend, CapInv, CapIsKept, AllowedHasRoom
<1>4. CASE WakeStep
  <2> USE NoneAssumption, WakesAssumption DEF CapInv, TypeOK, WakeTypes, Wakes,
          Position, PendingHasTimer, CapIsKept, AllowedHasRoom
  <2>1. CASE Fire
    BY <1>1, <2>1 DEF Fire
  <2>2. CASE WakeLooks
    BY <1>1, <2>2 DEF WakeLooks
  <2>3. CASE WakeAllowed
    BY <1>1, <2>3 DEF WakeAllowed, MayWake
  <2>4. CASE WakeCounts
    BY <1>1, <2>4 DEF WakeCounts
  <2>5. CASE WakeDispatches
    BY <1>1, <2>5 DEF WakeDispatches
  <2> QED  BY <1>4, <2>1, <2>2, <2>3, <2>4, <2>5 DEF WakeStep
<1>5. CASE HourPasses
  <2>1. woken' < woken
    BY <1>5 DEF HourPasses, CapInv, TypeOK, WakeTypes
  <2> QED  BY <1>1, <1>5, <2>1, WakesAssumption DEF HourPasses, CapInv, TypeOK, WakeTypes,
              PendingHasTimer, CapIsKept, AllowedHasRoom
<1>6. CASE Crash
  BY <1>1, <1>6, WakesAssumption DEF Crash, CapInv, PendingHasTimer, CapIsKept, AllowedHasRoom
<1> QED
  <2>1. CASE UNCHANGED vars
    BY <1>2, <2>1 DEF vars, wakes
  <2>2. ASSUME NEW c \in Child, \/ \E wait \in BOOLEAN : BeginSpawn(c, wait) \/ BeginMessage(c, wait)
                               \/ CallStep(c) \/ PumpStarts(c) \/ PumpFails(c)
                               \/ RunEnds(c) \/ KillChild(c)
        PROVE  UNCHANGED wakes
    BY <2>2 DEF BeginSpawn, BeginMessage, CallStep, Deliver, Launched, Queued, AskQueued,
       NotStarted, Answered, TimesOut, AskLater, Look, PumpStarts, PumpFails, RunEnds, KillChild
  <2>3. ASSUME NEW t \in tasks, Take(t) \/ Hand(t) \/ Allow(t)
        PROVE  UNCHANGED wakes
    BY <2>3 DEF Take, Hand, Allow
  <2>4. CASE ParentSteps \/ StopParent
    BY <1>2, <2>4 DEF ParentSteps, Send, PumpStartsParent, PumpFailsParent, CompactionEnds,
       ParentLooks, ParentFails, StopParent
  <2> QED  BY <1>2, <1>3, <1>4, <1>5, <1>6, <2>1, <2>2, <2>3, <2>4 DEF Next, ReportStep,
              ParentSteps

\* A pending wake has exactly one timer (wake_later of wake.rs): no report is left
\* without a timer that sees to it, and no timer is left behind.
THEOREM TimerKept == Spec => []PendingHasTimer
<1>1. CapInv => PendingHasTimer
  BY DEF CapInv
<1> QED  BY <1>1, CapInit, CapStep, PTL DEF Spec

\* No more than WAKES_PER_HOUR wakes an hour are dispatched (WakeState::allow and
\* its second look before the dispatch), however reports and wakes interleave.
THEOREM CapKept == Spec => []CapIsKept
<1>1. CapInv => CapIsKept
  BY DEF CapInv
<1> QED  BY <1>1, CapInit, CapStep, PTL DEF Spec

(***************************************************************************)
(* Promises                                                                *)
(***************************************************************************)
\* A call about a child that was not started is yet to dispatch it.
HasChild(c) ==
  /\ child[c] = "absent" => call[c].pc = "none"
  /\ child[c] = "made" => call[c].pc \in {"none", "dispatch"}

\* Nobody is told of an end that is yet to come, nor promised what was told.
TellsEnds(c) ==
  /\ told[c] <= ended[c]
  /\ \A k \in asked[c] : told[c] < k
  /\ \A t \in tasks : t.child = c => t.tells <= ended[c]

\* What a call asked for is still owed, or was taken by a report of an end that
\* came; a call that looks hears of that end.
AskedFor(c) ==
  LET by == call[c].by IN
  /\ HasAsked(c) /\ by = None => owed[c]
  /\ by # None => by <= ended[c]
  /\ call[c].pc = "look" /\ by # None => OnItsWay(c, by) \/ by <= told[c]

PromiseHeld(c, k) ==
  OnItsWay(c, k) \/ (owed[c] /\ IF k <= ended[c] THEN WillWrite(c) ELSE k <= LastEnd(c))

Held(c) == \A k \in asked[c] \ broken[c] : PromiseHeld(c, k)

\* What is promised about c is kept, and its child, calls and reports agree.
Kept(c) == HasChild(c) /\ TellsEnds(c) /\ AskedFor(c) /\ Held(c)

PromiseInv == TypeOK /\ \A c \in Child : Kept(c)

LEMMA PromiseInit == Init => PromiseInv
<1> SUFFICES ASSUME Init, NEW c \in Child
             PROVE  Kept(c)
  BY InitTypes DEF PromiseInv
<1> QED  BY DEF Init, Kept, HasChild, TellsEnds, AskedFor, HasAsked, Held, NoCall

\* The numbers of ends that Kept(c) compares.
LEMMA KeptNumbers ==
  ASSUME TypeOK, NEW c \in Child
  PROVE  /\ ended[c] \in Nat /\ waiting[c] \in Nat /\ told[c] \in Nat
         /\ asked[c] \subseteq Nat /\ broken[c] \subseteq Nat
         /\ call[c] \in Calls /\ owed[c] \in BOOLEAN
         /\ \A t \in tasks : t \in Tasks /\ t.tells \in Nat
BY DEF TypeOK, KidTypes, Tasks

\* Nothing happens to c, and no report about c goes.
TasksStay(c) ==
  /\ \A t \in tasks : t.child = c /\ t.pc \in {"ended", "deliver"} => t \in tasks'
  /\ \A t \in tasks' : t.child = c => t \in tasks \/ t.tells = 0

Untouched(c) ==
  /\ child'[c] = child[c] /\ call'[c] = call[c] /\ waiting'[c] = waiting[c]
  /\ ended'[c] = ended[c] /\ owed'[c] = owed[c] /\ told'[c] = told[c]
  /\ asked'[c] = asked[c] /\ broken[c] \subseteq broken'[c]
  /\ TasksStay(c)

LEMMA TasksStayKeeps ==
  ASSUME NEW c \in Child, TasksStay(c)
  PROVE  /\ \A k : OnItsWay(c, k) => OnItsWay(c, k)'
         /\ WillWrite(c) => WillWrite(c)'
BY DEF TasksStay, OnItsWay, WillWrite

LEMMA UntouchedKeeps ==
  ASSUME TypeOK, NEW c \in Child, Kept(c), Untouched(c)
  PROVE  Kept(c)'
<1>1. HasChild(c)'
  BY DEF Kept, HasChild, Untouched
<1>2. TellsEnds(c)'
  BY KeptNumbers DEF Kept, TellsEnds, Untouched, TasksStay
<1>3. AskedFor(c)'
  BY TasksStayKeeps DEF Kept, AskedFor, HasAsked, Untouched
<1>4. Held(c)'
  BY TasksStayKeeps DEF Kept, Held, PromiseHeld, LastEnd, Untouched
<1> QED  BY <1>1, <1>2, <1>3, <1>4 DEF Kept

\* A step of the parent's calls about c, or of c itself, touches no other child.
LEMMA OthersUntouched ==
  ASSUME TypeOK, NEW c \in Child, NEW d \in Child, d # c,
         \/ \E wait \in BOOLEAN : BeginSpawn(c, wait) \/ BeginMessage(c, wait)
         \/ CallStep(c) \/ PumpStarts(c) \/ PumpFails(c) \/ RunEnds(c) \/ KillChild(c)
  PROVE  Untouched(d)
<1>0. TasksStay(d)
  <2>1. /\ tasks \subseteq tasks'
        /\ tasks' \subseteq tasks \cup {Report(c, 0, FALSE), Report(c, NextEnd(c), FALSE),
                                        Report(c, NextEnd(c), TRUE)}
    <3>1. CASE \/ \E wait \in BOOLEAN : BeginSpawn(c, wait) \/ BeginMessage(c, wait)
               \/ PumpStarts(c) \/ PumpFails(c) \/ RunEnds(c) \/ KillChild(c)
      BY <3>1 DEF BeginSpawn, BeginMessage, PumpStarts, PumpFails, RunEnds, KillChild
    <3>2. CASE CallStep(c)
      BY <3>2 DEF CallStep, Deliver, Launched, Queued, AskQueued, NotStarted, Answered,
         TimesOut, AskLater, Look
    <3> QED  BY <3>1, <3>2
  <2> QED  BY <2>1 DEF TasksStay, Report
<1> USE <1>0 DEF Untouched, TypeOK, KidTypes, kids, promises, Owe, GoTo, Return
<1>2. ASSUME NEW wait \in BOOLEAN, BeginSpawn(c, wait) \/ BeginMessage(c, wait)
      PROVE  Untouched(d)
  BY <1>2 DEF BeginSpawn, BeginMessage, Ask, NewCall
<1>3. CASE Deliver(c) \/ Launched(c)
  BY <1>3 DEF Deliver, Launched, AwaitsOrReturns, Promise, Pledge
<1>4. CASE Queued(c) \/ AskQueued(c)
  BY <1>4 DEF Queued, AskQueued, Pledge
<1>5. CASE NotStarted(c)
  BY <1>5 DEF NotStarted, Break
<1>6. CASE Answered(c) \/ TimesOut(c) \/ AskLater(c)
  BY <1>6 DEF Answered, TimesOut, AskLater
<1>7. CASE Look(c)
  BY <1>7 DEF Look, PromiseLater, Promise, Pledge
<1>8. CASE PumpStarts(c) \/ RunEnds(c)
  BY <1>8 DEF PumpStarts, RunEnds
<1>9. CASE PumpFails(c)
  BY <1>9 DEF PumpFails, Break
<1>10. CASE KillChild(c)
  BY <1>10 DEF KillChild
<1> QED  BY <1>2, <1>3, <1>4, <1>5, <1>6, <1>7, <1>8, <1>9, <1>10 DEF CallStep

\* A promise that is given when a report is owed and a run is there for end k, or
\* one is there to write a report of it, holds.
LEMMA PledgeKeeps ==
  ASSUME TypeOK, NEW c \in Child, NEW k \in Nat, NEW lost \in BOOLEAN, Pledge(c, k, lost),
         \A j \in asked[c] \ broken[c] : PromiseHeld(c, j)',
         ~ lost /\ told[c] < k => PromiseHeld(c, k)',
         \A j \in asked[c] : told[c] < j
  PROVE  /\ Held(c)'
         /\ told' = told /\ \A j \in asked'[c] : told'[c] < j
<1>1. /\ asked'[c] = IF k > told[c] THEN asked[c] \cup {k} ELSE asked[c]
      /\ broken'[c] = IF lost THEN broken[c] \cup {k} ELSE broken[c] \ {k}
      /\ told' = told
  BY DEF Pledge, TypeOK, KidTypes
<1>2. told[c] \in Nat
  BY KeptNumbers
<1>3. \A j \in asked'[c] : told'[c] < j
  BY <1>1, <1>2
<1>4. ASSUME NEW j \in asked'[c] \ broken'[c]
      PROVE  PromiseHeld(c, j)'
  <2>1. CASE j = k
    BY <1>1, <1>3, <1>4, <2>1
  <2>2. CASE j # k
    BY <1>1, <1>4, <2>2
  <2> QED  BY <2>1, <2>2
<1> QED  BY <1>1, <1>3, <1>4 DEF Held

\* While no run ends and no report goes, what is held stays so.
LEMMA HeldStays ==
  ASSUME TypeOK, NEW c \in Child, Held(c), TasksStay(c),
         ended'[c] = ended[c], LastEnd(c) <= LastEnd(c)', LastEnd(c)' \in Nat,
         owed[c] => owed'[c]
  PROVE  \A k \in asked[c] \ broken[c] : PromiseHeld(c, k)'
<1> TAKE k \in asked[c] \ broken[c]
<1>1. PromiseHeld(c, k)
  BY DEF Held
<1>2. k \in Nat /\ LastEnd(c) \in Nat
  BY KeptNumbers, EndNumbers
<1>3. k <= LastEnd(c) => k <= LastEnd(c)'
  BY <1>2
<1> QED  BY <1>1, <1>3, TasksStayKeeps DEF PromiseHeld

LEMMA TellsStay ==
  ASSUME TypeOK, NEW c \in Child, TellsEnds(c), TasksStay(c),
         ended'[c] = ended[c], told'[c] = told[c],
         \A j \in asked'[c] : told'[c] < j
  PROVE  TellsEnds(c)'
BY KeptNumbers DEF TellsEnds, TasksStay

\* What a call does next about its child keeps what is promised.
LEMMA BeginKeeps ==
  ASSUME TypeOK, NEW c \in Child, Kept(c), NEW wait \in BOOLEAN,
         BeginSpawn(c, wait) \/ BeginMessage(c, wait)
  PROVE  Kept(c)'
<1> USE DEF TypeOK, KidTypes, kids, promises, Ask, Owe, NewCall
<1>1. /\ child'[c] = child[c] \/ (child[c] = "absent" /\ child'[c] = "made")
      /\ waiting' = waiting /\ ended' = ended /\ tasks' = tasks
      /\ asked' = asked /\ broken' = broken /\ told' = told
  BY DEF BeginSpawn, BeginMessage
<1>a. /\ call'[c].pc \in {"deliver", "dispatch"} /\ call'[c].wait = wait
      /\ call'[c].by = None
  BY DEF BeginSpawn, BeginMessage
<1>o. (owed[c] => owed'[c]) /\ (wait \/ owed'[c])
  BY DEF BeginSpawn, BeginMessage
<1>2. HasChild(c)'
  BY DEF HasChild, BeginSpawn, BeginMessage
<1>3. TellsEnds(c)'
  BY <1>1 DEF Kept, TellsEnds
<1>4. AskedFor(c)'
  BY <1>a, <1>o DEF AskedFor, HasAsked
<1>5. Held(c)'
  BY <1>1, <1>o DEF Kept, Held, PromiseHeld, OnItsWay, WillWrite, LastEnd
<1> QED  BY <1>2, <1>3, <1>4, <1>5 DEF Kept

\* A call that waits goes on to; one that does not is promised the next end.
LEMMA AwaitsKeeps ==
  ASSUME TypeOK, NEW c \in Child, Kept(c), AwaitsOrReturns(c), call[c].pc \in {"deliver", "dispatch"},
         child'[c] = "live", UNCHANGED <<waiting, ended, owed, tasks>>
  PROVE  Kept(c)'
<1>0. TasksStay(c)
  BY DEF TasksStay
<1>k. PICK k \in Nat : k = NextEnd(c)
  BY EndNumbers
<1>l. PICK lost \in BOOLEAN : lost <=> call[c].by # None /\ call[c].by < k
  OBVIOUS
<1>1. /\ LastEnd(c)' = ended[c] + waiting[c] + 1 /\ LastEnd(c) <= LastEnd(c)'
      /\ LastEnd(c)' \in Nat /\ k <= LastEnd(c)' /\ k > ended[c]
  BY <1>k, KeptNumbers DEF LastEnd, NextEnd
<1>2. \A j \in asked[c] \ broken[c] : PromiseHeld(c, j)'
  BY <1>0, <1>1, HeldStays DEF Kept
<1>3. CASE call[c].wait
  <2>1. call'[c] = [call[c] EXCEPT !.pc = "await"] /\ UNCHANGED promises
    BY <1>3 DEF AwaitsOrReturns, GoTo, TypeOK
  <2>2. call'[c].pc = "await" /\ call'[c].by = call[c].by
    BY <2>1, KeptNumbers DEF Calls
  <2>3. HasChild(c)' /\ AskedFor(c)'
    BY <2>2 DEF HasChild, AskedFor, HasAsked, Kept
  <2>4. TellsEnds(c)' /\ Held(c)'
    BY <1>2, <2>1 DEF Kept, TellsEnds, Held, promises
  <2> QED  BY <2>3, <2>4 DEF Kept
<1>4. CASE ~ call[c].wait
  <2>1. call'[c].pc = "none" /\ call'[c].by = None /\ Pledge(c, k, lost)
    BY <1>4, <1>k, <1>l DEF AwaitsOrReturns, Return, NoCall, Promise, Pledge, TypeOK
  <2>2. ~ lost => owed[c]
    <3>1. call[c].by # None => call[c].by <= ended[c] /\ call[c].by \in Nat
      BY KeptNumbers DEF Kept, AskedFor, Calls, Position
    <3>2. call[c].by # None => lost
      BY <1>1, <1>l, <3>1, KeptNumbers
    <3> QED  BY <1>4, <3>2 DEF Kept, AskedFor, HasAsked
  <2>3. ~ lost => PromiseHeld(c, k)'
    BY <1>1, <2>2, KeptNumbers DEF PromiseHeld
  <2>4. \A j \in asked[c] : told[c] < j
    BY DEF Kept, TellsEnds
  <2>5. Held(c)' /\ told' = told /\ \A j \in asked'[c] : told'[c] < j
    BY <1>2, <2>1, <2>3, <2>4, PledgeKeeps
  <2>6. HasChild(c)' /\ AskedFor(c)'
    BY <2>1 DEF HasChild, AskedFor, HasAsked
  <2>7. TellsEnds(c)'
    BY <1>0, <2>5, TellsStay DEF Kept
  <2> QED  BY <2>5, <2>6, <2>7 DEF Kept
<1> QED  BY <1>3, <1>4

LEMMA AskQueuedKeeps ==
  ASSUME TypeOK, NEW c \in Child, Kept(c), AskQueued(c)
  PROVE  Kept(c)'
<1>k. PICK k \in Nat : k = IF AtRest(c) THEN ended[c] ELSE LastEnd(c)
  BY EndNumbers
<1>l. PICK late \in BOOLEAN : late <=> AtRest(c) /\ ~ WillWrite(c)
  OBVIOUS
<1>0. TasksStay(c)
  BY DEF TasksStay, AskQueued
<1>1. UNCHANGED <<kids, tasks>> /\ owed'[c] /\ call'[c].pc = "none" /\ call'[c].by = None
  BY DEF AskQueued, Owe, Return, NoCall, TypeOK, KidTypes
<1>2. \A j \in asked[c] \ broken[c] : PromiseHeld(c, j)'
  BY <1>0, <1>1, HeldStays, EndNumbers DEF Kept, LastEnd, kids
<1>3. ~ late => PromiseHeld(c, k)'
  <2>1. CASE AtRest(c)
    <3>1. k <= ended[c] /\ ended' = ended
      BY <1>1, <1>k, <2>1, KeptNumbers DEF kids
    <3>2. ~ late => WillWrite(c)'
      BY <1>0, <1>l, <2>1, TasksStayKeeps
    <3> QED  BY <1>1, <3>1, <3>2 DEF PromiseHeld
  <2>2. CASE ~ AtRest(c)
    <3>1. child[c] \notin {"absent", "made"}
      BY DEF AskQueued, Kept, HasChild
    <3>2. LastEnd(c) > ended[c] /\ LastEnd(c)' = LastEnd(c) /\ ended' = ended
      BY <1>1, <2>2, <3>1, KeptNumbers DEF LastEnd, AtRest, TypeOK, KidTypes, kids
    <3> QED  BY <1>1, <1>k, <2>2, <3>2, EndNumbers DEF PromiseHeld
  <2> QED  BY <2>1, <2>2
<1>4. Pledge(c, k, late) /\ \A j \in asked[c] : told[c] < j
  BY <1>k, <1>l DEF AskQueued, Pledge, Kept, TellsEnds
<1>5. Held(c)' /\ told' = told /\ \A j \in asked'[c] : told'[c] < j
  BY <1>2, <1>3, <1>4, PledgeKeeps
<1>6. HasChild(c)' /\ AskedFor(c)'
  BY <1>1 DEF HasChild, AskedFor, HasAsked, kids
<1>7. TellsEnds(c)'
  BY <1>0, <1>1, <1>5, TellsStay DEF Kept, kids
<1> QED  BY <1>5, <1>6, <1>7 DEF Kept

\* Who finds the child at rest has reported itself; else its run will.
LEMMA LookKeeps ==
  ASSUME TypeOK, NEW c \in Child, Kept(c), Look(c)
  PROVE  Kept(c)'
<1> DEFINE r == Report(c, 0, FALSE)
<1>k. PICK k \in Nat : k = IF AtRest(c) THEN ended[c] ELSE NextEnd(c)
  BY EndNumbers
<1>b. PICK by \in Position : by = call[c].by
  BY KeptNumbers DEF Calls
<1>l. PICK lost \in BOOLEAN : lost <=> by # None /\ by < k
  OBVIOUS
<1>1. /\ UNCHANGED <<kids, owed>> /\ call'[c].pc = "none" /\ call'[c].by = None
      /\ tasks' = IF AtRest(c) THEN tasks \cup {r} ELSE tasks
  BY DEF Look, Return, NoCall, TypeOK
<1>2. r.child = c /\ r.pc = "ended" /\ r.tells = 0
  BY DEF Report
<1>3. Pledge(c, k, lost) /\ \A j \in asked[c] : told[c] < j
  BY <1>k, <1>b, <1>l DEF Look, PromiseLater, Promise, Pledge, Kept, TellsEnds
<1> HIDE DEF r
<1>4. TasksStay(c)
  BY <1>1, <1>2 DEF TasksStay
<1>5. \A j \in asked[c] \ broken[c] : PromiseHeld(c, j)'
  BY <1>1, <1>4, HeldStays, EndNumbers DEF Kept, LastEnd, kids
<1>6. ASSUME ~ lost, told[c] < k
      PROVE  PromiseHeld(c, k)'
  <2>1. CASE by # None
    <3>1. by \in Nat /\ k <= by
      BY <1>6, <1>l, <2>1 DEF Position
    <3>2. OnItsWay(c, by)
      BY <1>6, <1>b, <2>1, <3>1, KeptNumbers DEF Look, Kept, AskedFor
    <3>3. OnItsWay(c, k)
      BY <3>1, <3>2, KeptNumbers DEF OnItsWay
    <3> QED  BY <1>4, <3>3, TasksStayKeeps DEF PromiseHeld
  <2>2. CASE by = None
    <3>1. owed'[c]
      BY <1>1, <1>b, <2>2 DEF Look, Kept, AskedFor, HasAsked
    <3>2. CASE AtRest(c)
      <4>1. WillWrite(c)'
        BY <1>1, <1>2, <3>2 DEF WillWrite
      <4>2. k <= ended[c] /\ ended' = ended
        BY <1>1, <1>k, <3>2, KeptNumbers DEF kids
      <4> QED  BY <3>1, <4>1, <4>2 DEF PromiseHeld
    <3>3. CASE ~ AtRest(c)
      <4>1. child[c] \notin {"absent", "made"}
        BY DEF Look, Kept, HasChild
      <4>2. /\ k = ended[c] + 1 /\ k <= LastEnd(c)
            /\ LastEnd(c)' = LastEnd(c) /\ ended' = ended
        BY <1>1, <1>k, <3>3, <4>1, KeptNumbers DEF LastEnd, NextEnd, AtRest, TypeOK, KidTypes, kids
      <4> QED  BY <3>1, <4>2, KeptNumbers DEF PromiseHeld
    <3> QED  BY <3>2, <3>3
  <2> QED  BY <2>1, <2>2
<1>7. Held(c)' /\ told' = told /\ \A j \in asked'[c] : told'[c] < j
  BY <1>3, <1>5, <1>6, PledgeKeeps
<1>8. HasChild(c)' /\ AskedFor(c)'
  BY <1>1 DEF HasChild, AskedFor, HasAsked, kids
<1>9. TellsEnds(c)'
  BY <1>1, <1>4, <1>7, TellsStay DEF Kept, kids
<1> QED  BY <1>7, <1>8, <1>9 DEF Kept

\* Who takes back what was asked for breaks what no report will tell.
LEMMA NotStartedKeeps ==
  ASSUME TypeOK, NEW c \in Child, Kept(c), NotStarted(c)
  PROVE  Kept(c)'
<1>1. PICK kept \in BOOLEAN :
        /\ owed' = [owed EXCEPT ![c] = @ /\ kept]
        /\ Break(c, IF kept THEN {} ELSE {k \in asked[c] : ~ OnItsWay(c, k)})
  BY DEF NotStarted
<1>2. /\ UNCHANGED <<waiting, ended, tasks, asked, told>>
      /\ call'[c].pc = "none" /\ call'[c].by = None
      /\ child'[c] # "absent" \/ child'[c] = child[c]
      /\ LastEnd(c)' = LastEnd(c)
  BY <1>1 DEF NotStarted, Break, Return, NoCall, TypeOK, KidTypes, LastEnd
<1>3. /\ broken'[c] = broken[c] \cup (IF kept THEN {} ELSE {k \in asked[c] : ~ OnItsWay(c, k)})
      /\ owed'[c] = (owed[c] /\ kept)
  BY <1>1 DEF Break, TypeOK, KidTypes
<1>4. HasChild(c)' /\ AskedFor(c)' /\ TellsEnds(c)'
  BY <1>2 DEF Kept, HasChild, AskedFor, HasAsked, TellsEnds
<1>5. Held(c)'
  <2>1. CASE kept
    BY <1>2, <1>3, <2>1 DEF Kept, Held, PromiseHeld, OnItsWay, WillWrite
  <2>2. CASE ~ kept
    <3>1. \A k \in asked'[c] \ broken'[c] : OnItsWay(c, k)
      BY <1>2, <1>3, <2>2
    <3> QED  BY <1>2, <3>1 DEF Held, PromiseHeld, OnItsWay
  <2> QED  BY <2>1, <2>2
<1> QED  BY <1>4, <1>5 DEF Kept

LEMMA CallKeeps ==
  ASSUME TypeOK, NEW c \in Child, Kept(c), CallStep(c)
  PROVE  Kept(c)'
<1>1. CASE Deliver(c)
  <2>1. CASE child[c] = "live"
    BY <1>1, <2>1, AwaitsKeeps DEF Deliver, kids
  <2>2. CASE child[c] # "live"
    <3>1. /\ call'[c] = [call[c] EXCEPT !.pc = "dispatch"]
          /\ UNCHANGED <<kids, owed, tasks, promises>>
      BY <1>1, <2>2 DEF Deliver, GoTo, TypeOK
    <3>2. call'[c].pc = "dispatch" /\ call'[c].by = call[c].by /\ call'[c].wait = call[c].wait
      BY <3>1, KeptNumbers DEF Calls
    <3>3. HasChild(c)'
      BY <1>1, <3>1, <3>2 DEF Deliver, Kept, HasChild, kids
    <3>4. AskedFor(c)'
      BY <1>1, <3>1, <3>2 DEF Deliver, Kept, AskedFor, HasAsked, kids
    <3>5. TellsEnds(c)' /\ Held(c)'
      BY <3>1 DEF Kept, TellsEnds, Held, PromiseHeld, OnItsWay, WillWrite, LastEnd, kids, promises
    <3> QED  BY <3>3, <3>4, <3>5 DEF Kept
  <2> QED  BY <2>1, <2>2
<1>2. CASE Launched(c)
  BY <1>2, AwaitsKeeps DEF Launched, TypeOK, KidTypes
<1>3. ASSUME NEW pc \in {"none", "ask", "await", "later"}, call'[c].pc = pc,
             call'[c].by \in {call[c].by, None},
             UNCHANGED <<ended, owed, tasks, promises>>, child'[c] # "absent",
             child'[c] = "made" => pc = "none",
             LastEnd(c) <= LastEnd(c)', LastEnd(c)' \in Nat
      PROVE  Kept(c)'
  <2>1. TasksStay(c)
    BY <1>3 DEF TasksStay
  <2>2. Held(c)'
    BY <1>3, <2>1, HeldStays DEF Kept, Held, promises
  <2>3. TellsEnds(c)'
    BY <1>3 DEF Kept, TellsEnds, promises
  <2>4. HasChild(c)' /\ AskedFor(c)'
    BY <1>3 DEF Kept, HasChild, AskedFor, HasAsked
  <2> QED  BY <2>2, <2>3, <2>4 DEF Kept
<1>4. CASE Queued(c)
  <2>1. /\ call'[c] = [call[c] EXCEPT !.pc = "ask"]
        /\ waiting'[c] = waiting[c] + 1 /\ ended' = ended
        /\ child'[c] = IF child[c] = "live" THEN "live" ELSE "idle"
    BY <1>4 DEF Queued, GoTo, TypeOK, KidTypes
  <2>2. call'[c].pc = "ask" /\ call'[c].by = call[c].by
    BY <2>1, KeptNumbers DEF Calls
  <2>3. LastEnd(c) <= LastEnd(c)' /\ LastEnd(c)' \in Nat
    BY <2>1, KeptNumbers DEF LastEnd
  <2> QED  BY <1>3, <1>4, <2>1, <2>2, <2>3 DEF Queued
<1>5. CASE Answered(c)
  <2>1. call'[c].pc = "none" /\ call'[c].by = None /\ LastEnd(c)' = LastEnd(c)
    BY <1>5 DEF Answered, Return, NoCall, TypeOK, LastEnd, kids
  <2> QED  BY <1>3, <1>5, <2>1, EndNumbers DEF Answered, AtRest, kids
<1>6. CASE TimesOut(c)
  <2>1. call'[c].pc = "later" /\ call'[c].by = call[c].by /\ LastEnd(c)' = LastEnd(c)
    BY <1>6, KeptNumbers DEF TimesOut, GoTo, TypeOK, LastEnd, kids, Calls
  <2>2. child[c] \notin {"absent", "made"}
    BY <1>6 DEF TimesOut, Kept, HasChild
  <2> QED  BY <1>3, <1>6, <2>1, <2>2, EndNumbers DEF TimesOut, kids
<1>7. CASE AskLater(c)
  <2>1. /\ call'[c].pc = "look" /\ call'[c].by = None /\ owed'[c]
        /\ UNCHANGED <<kids, tasks, promises>>
    BY <1>7, KeptNumbers DEF AskLater, Owe, TypeOK, KidTypes, Calls
  <2>2. HasChild(c)' /\ AskedFor(c)'
    BY <1>7, <2>1 DEF AskLater, Kept, HasChild, AskedFor, HasAsked, kids
  <2>3. TellsEnds(c)' /\ Held(c)'
    BY <2>1 DEF Kept, TellsEnds, Held, PromiseHeld, OnItsWay, WillWrite, LastEnd, kids, promises
  <2> QED  BY <2>2, <2>3 DEF Kept
<1> QED  BY <1>1, <1>2, <1>4, <1>5, <1>6, <1>7, AskQueuedKeeps, LookKeeps, NotStartedKeeps
         DEF CallStep

\* A run of the child, its end, and who stops it keep what is promised.
LEMMA ChildKeeps ==
  ASSUME TypeOK, NEW c \in Child, Kept(c),
         PumpStarts(c) \/ PumpFails(c) \/ RunEnds(c) \/ KillChild(c)
  PROVE  Kept(c)'
<1>0. /\ owed' = owed /\ call' = call /\ told' = told /\ tasks \subseteq tasks'
      /\ tasks' \subseteq tasks \cup {Report(c, NextEnd(c), FALSE), Report(c, NextEnd(c), TRUE)}
  BY DEF PumpStarts, PumpFails, RunEnds, KillChild, Break, promises
<1>1. TasksStay(c)
  BY <1>0 DEF TasksStay, Report
<1>2. /\ asked'[c] \subseteq asked[c] /\ broken[c] \subseteq broken'[c]
      /\ ended'[c] \in Nat /\ ended[c] <= ended'[c]
      /\ child'[c] \notin {"absent", "made"}
  <2> USE KeptNumbers DEF TypeOK, KidTypes
  <2>1. CASE PumpStarts(c)
    BY <2>1 DEF PumpStarts, promises
  <2>2. CASE PumpFails(c)
    BY <2>2 DEF PumpFails, Break
  <2>3. CASE RunEnds(c)
    BY <2>3 DEF RunEnds, promises
  <2>4. CASE KillChild(c)
    <3>1. ended'[c] = ended[c] + 1 \/ ended' = ended
      BY <2>4 DEF KillChild
    <3> QED  BY <2>4, <3>1 DEF KillChild
  <2> QED  BY <2>1, <2>2, <2>3, <2>4
<1>3. HasChild(c)'
  BY <1>2 DEF HasChild
<1>4. TellsEnds(c)'
  <2>1. \A t \in tasks' : t.child = c => t.tells <= ended'[c]
    <3> SUFFICES ASSUME NEW t \in tasks', t.child = c
                 PROVE  t.tells <= ended'[c]
      OBVIOUS
    <3>1. t \in tasks => t.tells <= ended[c] /\ t.tells \in Nat
      BY KeptNumbers DEF Kept, TellsEnds
    <3> QED  BY <1>1, <1>2, <3>1, KeptNumbers DEF TasksStay
  <2>2. told'[c] <= ended'[c] /\ \A j \in asked'[c] : told'[c] < j
    BY <1>0, <1>2, KeptNumbers DEF Kept, TellsEnds
  <2> QED  BY <2>1, <2>2 DEF TellsEnds
<1>5. AskedFor(c)'
  <2>1. call[c].by # None => call[c].by \in Nat /\ call[c].by <= ended[c]
    BY KeptNumbers DEF Kept, AskedFor, Calls, Position
  <2>2. call[c].by # None => call[c].by <= ended'[c]
    BY <1>2, <2>1, KeptNumbers
  <2>3. \A k : OnItsWay(c, k) => OnItsWay(c, k)'
    BY <1>1, TasksStayKeeps
  <2> QED  BY <1>0, <2>2, <2>3 DEF Kept, AskedFor, HasAsked
<1>6. ASSUME NEW k \in asked'[c] \ broken'[c], ~ OnItsWay(c, k)'
      PROVE  owed'[c] /\ IF k <= ended'[c] THEN WillWrite(c)' ELSE k <= LastEnd(c)'
  <2>0. /\ k \in asked[c] \ broken[c] /\ k \in Nat
    BY <1>2, KeptNumbers
  <2>1. owed[c] /\ IF k <= ended[c] THEN WillWrite(c) ELSE k <= LastEnd(c)
    BY <1>1, <1>6, <2>0, TasksStayKeeps DEF Kept, Held, PromiseHeld
  <2>2. owed'[c] /\ (k <= ended[c] => WillWrite(c)' /\ k <= ended'[c])
    BY <1>0, <1>1, <1>2, <2>0, <2>1, TasksStayKeeps, KeptNumbers
  <2>3. CASE k <= ended[c]
    BY <2>2, <2>3
  <2>4. CASE ~ (k <= ended[c])
    <3> USE <2>0, <2>1, <2>4, KeptNumbers DEF TypeOK, KidTypes
    <3>1. CASE PumpStarts(c)
      <4>1. ended' = ended /\ LastEnd(c)' = LastEnd(c)
        BY <3>1 DEF PumpStarts, LastEnd
      <4> QED  BY <2>2, <4>1
    <3>2. CASE PumpFails(c)
      <4>1. ended'[c] = ended[c] + 1 /\ LastEnd(c)' = LastEnd(c) /\ NextEnd(c) \in Nat
        BY <3>2 DEF PumpFails, LastEnd, NextEnd
      <4>2. k # ended[c] + 1
        BY <1>6, <3>2 DEF PumpFails, Break, NextEnd
      <4> QED  BY <2>2, <4>1, <4>2
    <3>3. CASE RunEnds(c)
      <4>1. ended'[c] = ended[c] + 1 /\ LastEnd(c)' = LastEnd(c)
        BY <3>3 DEF RunEnds, LastEnd
      <4>2. Report(c, NextEnd(c), FALSE) \in tasks'
        BY <3>3 DEF RunEnds
      <4>3. WillWrite(c)'
        BY <4>2 DEF WillWrite, Report
      <4> QED  BY <2>2, <4>1, <4>3
    <3>4. CASE KillChild(c)
      <4>1. k <= ended'[c]
        BY <1>6, <3>4 DEF KillChild
      <4>2. CASE child[c] = "live"
        <5>1. Report(c, NextEnd(c), TRUE) \in tasks'
          BY <3>4, <4>2 DEF KillChild
        <5>2. WillWrite(c)'
          BY <5>1 DEF WillWrite, Report
        <5> QED  BY <2>2, <4>1, <5>2
      <4>3. CASE child[c] # "live"
        BY <3>4, <4>1, <4>3 DEF KillChild
      <4> QED  BY <4>2, <4>3
    <3> QED  BY <3>1, <3>2, <3>3, <3>4
  <2> QED  BY <2>3, <2>4
<1>7. Held(c)'
  BY <1>6 DEF Held, PromiseHeld
<1> QED  BY <1>3, <1>4, <1>5, <1>7 DEF Kept

\* A report that is taken tells of every end there was; later ones are broken.
LEMMA TakeKeeps ==
  ASSUME TypeOK, NEW t \in tasks, Take(t), NEW c \in Child, Kept(c)
  PROVE  Kept(c)'
<1> USE DEF TypeOK, KidTypes, kids, promises
<1> DEFINE u == [t EXCEPT !.pc = "deliver", !.tells = ended[t.child],
                          !.dead = parent = "killed"]
<1>0. t \in Tasks /\ t.child \in Child /\ t.pc = "ended"
  BY DEF Tasks, Take
<1>1. u.child = t.child /\ u.pc = "deliver" /\ u.tells = ended[t.child]
  BY <1>0 DEF Tasks
<1> HIDE DEF u
<1>2. /\ UNCHANGED <<kids, asked, told>>
      /\ tasks' = (tasks \ {t}) \cup (IF owed[t.child] THEN {u} ELSE {})
      /\ owed' = [owed EXCEPT ![t.child] = FALSE]
  BY DEF Take, Move, Break, u
<1>3. CASE t.child # c
  <2>1. broken'[c] = broken[c] /\ call'[c] = call[c]
    BY <1>0, <1>3 DEF Take, Break
  <2>2. TasksStay(c)
    BY <1>1, <1>2, <1>3 DEF TasksStay
  <2>3. Untouched(c)
    BY <1>0, <1>2, <1>3, <2>1, <2>2 DEF Untouched
  <2> QED  BY <2>3, UntouchedKeeps
<1>4. CASE t.child = c
  <2>1. HasChild(c)'
    <3>1. call'[c].pc = call[c].pc
      BY <1>0, KeptNumbers DEF Take, Calls
    <3> QED  BY <1>2, <3>1 DEF Kept, HasChild
  <2>2. TellsEnds(c)'
    BY <1>1, <1>2, <1>4, KeptNumbers DEF Kept, TellsEnds
  <2>3. \A k : OnItsWay(c, k) => OnItsWay(c, k)'
    BY <1>0, <1>2 DEF OnItsWay
  <2>4. CASE owed[c]
    <3>1. \A k \in Nat : k <= ended[c] => OnItsWay(c, k)'
      BY <1>1, <1>2, <1>4, <2>4 DEF OnItsWay
    <3>2. broken'[c] = broken[c] \cup {k \in asked[c] : k > ended[c]}
      BY <1>4, <2>4 DEF Take, Break
    <3>3. Held(c)'
      <4>1. \A k \in asked'[c] \ broken'[c] : k <= ended[c] /\ k \in Nat
        BY <1>2, <3>2, KeptNumbers
      <4> QED  BY <3>1, <4>1 DEF Held, PromiseHeld
    <3>4. AskedFor(c)'
      <4>1. CASE HasAsked(c)
        <5>1. call'[c] = [call[c] EXCEPT !.by = ended[c]]
          BY <1>4, <2>4, <4>1 DEF Take
        <5>2. call'[c].by = ended[c] /\ ended[c] # None
          BY <5>1, KeptNumbers, NoneAssumption DEF Calls
        <5> QED  BY <1>2, <3>1, <5>2, KeptNumbers DEF AskedFor
      <4>2. CASE ~ HasAsked(c)
        <5>1. call'[c] = call[c]
          BY <1>4, <2>4, <4>2 DEF Take
        <5> QED  BY <1>2, <2>3, <4>2, <5>1 DEF Kept, AskedFor, HasAsked
      <4> QED  BY <4>1, <4>2
    <3> QED  BY <2>1, <2>2, <3>3, <3>4 DEF Kept
  <2>5. CASE ~ owed[c]
    <3>1. call' = call /\ broken' = broken
      BY <1>4, <2>5 DEF Take
    <3>2. AskedFor(c)'
      BY <1>2, <2>3, <2>5, <3>1 DEF Kept, AskedFor, HasAsked
    <3>3. Held(c)'
      BY <1>2, <2>3, <2>5, <3>1 DEF Kept, Held, PromiseHeld
    <3> QED  BY <2>1, <2>2, <3>2, <3>3 DEF Kept
  <2> QED  BY <2>4, <2>5
<1> QED  BY <1>3, <1>4

\* Once it is handed over, what it told is promised no more.
LEMMA HandKeeps ==
  ASSUME TypeOK, NEW t \in tasks, Hand(t), NEW c \in Child, Kept(c)
  PROVE  Kept(c)'
<1> USE DEF TypeOK, KidTypes, kids
<1> DEFINE u == [t EXCEPT !.pc = "allow", !.tells = 0, !.at = inbox]
<1>0. t \in Tasks /\ t.child \in Child /\ t.pc = "deliver" /\ t.tells \in Nat
  BY DEF Tasks, Hand
<1>1. u.child = t.child /\ u.pc = "allow" /\ u.tells = 0
  BY <1>0 DEF Tasks
<1> HIDE DEF u
<1>2. /\ UNCHANGED <<kids, owed, call, broken>>
      /\ tasks' = tasks \ {t} \/ tasks' = (tasks \ {t}) \cup {u}
      /\ told' = [told EXCEPT ![t.child] = IF t.tells > @ THEN t.tells ELSE @]
      /\ asked' = [asked EXCEPT ![t.child] = {k \in @ : k > t.tells}]
  BY DEF Hand, Move, u
<1>3. CASE t.child # c
  <2>1. TasksStay(c)
    BY <1>1, <1>2, <1>3 DEF TasksStay
  <2>2. Untouched(c)
    BY <1>0, <1>2, <1>3, <2>1 DEF Untouched
  <2> QED  BY <2>2, UntouchedKeeps
<1>4. CASE t.child = c
  <2>1. HasChild(c)'
    BY <1>2 DEF Kept, HasChild
  <2>2. /\ asked'[c] = {k \in asked[c] : k > t.tells}
        /\ told'[c] = IF t.tells > told[c] THEN t.tells ELSE told[c]
        /\ t.tells <= ended[c]
    BY <1>2, <1>4 DEF Kept, TellsEnds
  <2>3. \A k \in Nat : OnItsWay(c, k) => OnItsWay(c, k)' \/ k <= t.tells
    BY <1>2 DEF OnItsWay
  <2>4. WillWrite(c) => WillWrite(c)'
    BY <1>0, <1>2 DEF WillWrite
  <2>5. TellsEnds(c)'
    <3>1. told'[c] <= ended'[c] /\ \A j \in asked'[c] : told'[c] < j
      BY <1>2, <2>2 DEF Kept, TellsEnds
    <3>2. \A v \in tasks' : v.child = c => v.tells <= ended'[c]
      BY <1>1, <1>2, KeptNumbers DEF Kept, TellsEnds
    <3> QED  BY <3>1, <3>2 DEF TellsEnds
  <2>6. AskedFor(c)'
    <3>1. call[c].by # None => call[c].by \in Nat
      BY KeptNumbers DEF Calls, Position
    <3>2. call[c].by # None /\ (OnItsWay(c, call[c].by) \/ call[c].by <= told[c])
            => OnItsWay(c, call[c].by)' \/ call[c].by <= told'[c]
      <4>1. CASE OnItsWay(c, call[c].by)
        <5>1. PICK v \in tasks : v.child = c /\ v.pc = "deliver" /\ call[c].by <= v.tells
          BY <4>1 DEF OnItsWay
        <5>2. CASE v = t
          BY <1>0, <2>2, <3>1, <5>1, <5>2, KeptNumbers
        <5>3. CASE v # t
          BY <1>2, <5>1, <5>3 DEF OnItsWay
        <5> QED  BY <5>2, <5>3
      <4>2. CASE call[c].by <= told[c]
        BY <1>0, <2>2, <3>1, <4>2, KeptNumbers
      <4> QED  BY <4>1, <4>2
    <3> QED  BY <1>2, <3>2 DEF Kept, AskedFor, HasAsked
  <2>7. Held(c)'
    <3> SUFFICES ASSUME NEW k \in asked'[c] \ broken'[c]
                 PROVE  PromiseHeld(c, k)'
      BY DEF Held
    <3>1. k \in asked[c] \ broken[c] /\ k \in Nat /\ ~ (k <= t.tells)
      BY <1>0, <1>2, <2>2, KeptNumbers
    <3>2. PromiseHeld(c, k)
      BY <3>1 DEF Kept, Held
    <3>3. ended' = ended /\ owed' = owed /\ LastEnd(c)' = LastEnd(c)
      BY <1>2 DEF LastEnd
    <3> QED  BY <2>3, <2>4, <3>1, <3>2, <3>3 DEF PromiseHeld
  <2> QED  BY <2>1, <2>5, <2>6, <2>7 DEF Kept
<1> QED  BY <1>3, <1>4

LEMMA ReportKeeps ==
  ASSUME TypeOK, NEW t \in tasks, Take(t) \/ Hand(t) \/ Allow(t) \/ Pend(t),
         NEW c \in Child, Kept(c)
  PROVE  Kept(c)'
<1>1. CASE Allow(t) \/ Pend(t)
  <2>0. t \in Tasks
    BY DEF TypeOK
  <2>1. [t EXCEPT !.pc = "pend"].tells = t.tells /\ [t EXCEPT !.pc = "pend"].child = t.child
    BY <2>0 DEF Tasks
  <2>2. UNCHANGED <<kids, owed, call, promises>> /\ t.pc \in {"allow", "pend"}
    BY <1>1 DEF Allow, Pend
  <2>3. /\ \A v \in tasks : v.pc \in {"ended", "deliver"} => v \in tasks'
        /\ \A v \in tasks' : v \in tasks \/ (v.tells = t.tells /\ v.child = t.child
                                             /\ v.pc = "pend")
    BY <1>1, <2>0, <2>1 DEF Allow, Pend, Move, Tasks
  <2>4. TellsEnds(c)'
    BY <2>2, <2>3 DEF Kept, TellsEnds, kids, promises
  <2>5. /\ \A k : OnItsWay(c, k) => OnItsWay(c, k)'
        /\ WillWrite(c) => WillWrite(c)'
    BY <2>3 DEF OnItsWay, WillWrite
  <2>6. HasChild(c)' /\ AskedFor(c)'
    BY <2>2, <2>5 DEF Kept, HasChild, AskedFor, HasAsked, kids, promises
  <2>7. Held(c)'
    BY <2>2, <2>5 DEF Kept, Held, PromiseHeld, LastEnd, kids, promises
  <2> QED  BY <2>4, <2>6, <2>7 DEF Kept
<1> QED  BY <1>1, TakeKeeps, HandKeeps

\* Who stops the parent drops calls, and with them what they were to deliver.
LEMMA StopKeeps ==
  ASSUME TypeOK, StopParent, NEW c \in Child, Kept(c)
  PROVE  Kept(c)'
<1>1. PICK D \in SUBSET Child :
        /\ call' = [d \in Child |-> IF d \in D /\ Waits(d) THEN NoCall ELSE call[d]]
        /\ tasks' = {t \in tasks : ~ (t.child \in D /\ OwnReport(t))}
        /\ broken' = [d \in Child |-> broken[d] \cup
              {k \in asked[d] : \E t \in tasks \ tasks' : t.child = d /\ k <= t.tells}]
  BY DEF StopParent
<1>2. UNCHANGED <<kids, owed, asked, told>>
  BY DEF StopParent
<1>3. call'[c] = call[c] \/ (call'[c].pc = "none" /\ call'[c].by = None)
  BY <1>1 DEF NoCall
<1>4. HasChild(c)' /\ TellsEnds(c)'
  BY <1>1, <1>2, <1>3 DEF Kept, HasChild, TellsEnds, kids
<1>5. AskedFor(c)'
  <2>1. CASE c \in D /\ Waits(c)
    BY <1>1, <2>1 DEF NoCall, AskedFor, HasAsked
  <2>2. CASE c \in D /\ ~ Waits(c)
    <3>1. call'[c] = call[c] /\ call[c].pc \notin {"deliver", "dispatch", "look"}
      BY <1>1, <2>2 DEF Waits
    <3> QED  BY <1>2, <3>1 DEF Kept, AskedFor, HasAsked, kids
  <2>3. CASE c \notin D
    <3>1. call'[c] = call[c] /\ \A k : OnItsWay(c, k) => OnItsWay(c, k)'
      BY <1>1, <2>3 DEF OnItsWay
    <3> QED  BY <1>2, <3>1 DEF Kept, AskedFor, HasAsked, kids
  <2> QED  BY <2>1, <2>2, <2>3
<1>6. Held(c)'
  <2> SUFFICES ASSUME NEW k \in asked'[c] \ broken'[c]
               PROVE  PromiseHeld(c, k)'
    BY DEF Held
  <2>1. /\ k \in asked[c] \ broken[c]
        /\ ~ \E t \in tasks \ tasks' : t.child = c /\ k <= t.tells
    BY <1>1, <1>2
  <2>2. PromiseHeld(c, k)
    BY <2>1 DEF Kept, Held
  <2>3. OnItsWay(c, k) => OnItsWay(c, k)'
    BY <2>1 DEF OnItsWay
  <2>4. WillWrite(c) => WillWrite(c)'
    BY <1>1 DEF WillWrite, OwnReport
  <2> QED  BY <1>2, <2>2, <2>3, <2>4 DEF PromiseHeld, LastEnd, kids
<1> QED  BY <1>4, <1>5, <1>6 DEF Kept

\* After a crash only what run.json asks for of a run that it keeps is promised.
LEMMA CrashKeeps ==
  ASSUME TypeOK, Crash, NEW c \in Child, Kept(c)
  PROVE  Kept(c)'
<1>1. /\ call'[c].pc = "none" /\ call'[c].by = None /\ tasks' = {}
      /\ UNCHANGED <<ended, owed, told>> /\ child'[c] # "made" /\ broken'[c] = {}
      /\ waiting'[c] = IF waiting[c] > 0 THEN 1 ELSE 0
      /\ asked'[c] \in {{}, {NextEnd(c)}}
      /\ asked'[c] # {} => owed[c] /\ waiting[c] > 0
  BY DEF Crash, NoCall, TypeOK, KidTypes
<1>3. HasChild(c)' /\ AskedFor(c)'
  BY <1>1 DEF HasChild, AskedFor, HasAsked
<1>4. TellsEnds(c)'
  BY <1>1, KeptNumbers DEF Kept, TellsEnds, NextEnd
<1>5. Held(c)'
  <2>1. waiting[c] > 0 => LastEnd(c)' >= ended[c] + 1
    BY <1>1, KeptNumbers DEF LastEnd
  <2> QED  BY <1>1, <2>1, KeptNumbers DEF Held, PromiseHeld, NextEnd
<1> QED  BY <1>3, <1>4, <1>5 DEF Kept

LEMMA PromiseStep == PromiseInv /\ [Next]_vars => PromiseInv'
<1> SUFFICES ASSUME TypeOK, \A c \in Child : Kept(c), [Next]_vars
             PROVE  \A c \in Child : Kept(c)'
  BY StepTypes DEF PromiseInv
<1>1. ASSUME NEW d \in Child,
             \/ \E wait \in BOOLEAN : BeginSpawn(d, wait) \/ BeginMessage(d, wait)
             \/ CallStep(d) \/ PumpStarts(d) \/ PumpFails(d) \/ RunEnds(d) \/ KillChild(d)
      PROVE  \A c \in Child : Kept(c)'
  <2>1. Kept(d)'
    BY <1>1, BeginKeeps, CallKeeps, ChildKeeps
  <2>2. ASSUME NEW c \in Child, c # d
        PROVE  Kept(c)'
    BY <1>1, <2>2, OthersUntouched, UntouchedKeeps
  <2> QED  BY <2>1, <2>2
<1>2. CASE ParentSteps \/ WakeStep \/ HourPasses \/ UNCHANGED vars
  <2>1. UNCHANGED <<kids, owed, call, tasks, promises>>
    BY <1>2 DEF ParentSteps, Send, PumpStartsParent, PumpFailsParent, CompactionEnds,
       ParentLooks, ParentFails, WakeStep, Fire, WakeLooks, WakeAllowed, WakeCounts,
       WakeDispatches, HourPasses, vars
  <2>2. \A c \in Child : Untouched(c)
    BY <2>1 DEF Untouched, TasksStay, kids, promises
  <2> QED  BY <2>2, UntouchedKeeps
<1>3. CASE StopParent
  BY <1>3, StopKeeps
<1>4. CASE Crash
  BY <1>4, CrashKeeps
<1> QED  BY <1>1, <1>2, <1>3, <1>4, ReportKeeps DEF Next, ReportStep, ParentSteps

\* Whoever was promised to hear of the end of a child will (report_to of queue.rs,
\* report_later and the calls of harness.rs, RunEnd::drop of launch.rs): whatever
\* the order of the call, the end of the run and the report, and after a crash,
\* the report is owed with somebody to take it, or taken with somebody to deliver.
\* The promises that the code breaks are left out, each at the step that does it.
THEOREM PromiseKept == Spec => []PromiseIsInHand
<1>1. PromiseInv => PromiseIsInHand
  BY DEF PromiseInv, Kept, Held, PromiseHeld, PromiseIsInHand
<1> QED  BY <1>1, PromiseInit, PromiseStep, PTL DEF Spec

(***************************************************************************)
(* Reports that are due                                                    *)
(***************************************************************************)
\* Nobody starts to read beyond the end of the transcript.
Bounded ==
  /\ seen <= inbox /\ (mark # None => mark <= inbox)
  /\ (pending # None => pending <= inbox)
  /\ (wake # None => wake.from <= inbox)
  /\ \A t \in tasks : t.at <= inbox
  /\ \A i \in 1..Len(queue) : queue[i] # None => queue[i] <= inbox

\* The reports that somebody must have in hand.
Awaited == due \ passed

\* They are beyond what was read, ...
MarkPassed == mark # None => \A n \in Awaited : mark < n
SeenPassed == parent = "live" => \A n \in Awaited : seen < n

\* ... and beyond where a run without a read mark will start.  A wake that has yet
\* to look may find the parent running or queued, and is then for nothing.
HeadPassed == mark = None /\ queue # << >> /\ Head(queue) # None =>
                \A n \in Awaited : Head(queue) < n
WakePassed ==
  /\ wake # None /\ mark = None
  /\ wake.pc # "look" \/ (queue = << >> /\ parent # "live")
  => \A n \in Awaited : wake.from < n

\* A parent that was stopped or that compacts leaves none.
KilledIsDue == parent \in {"killed", "compacts"} => Awaited = {}

Passed == MarkPassed /\ SeenPassed /\ HeadPassed /\ WakePassed /\ KilledIsDue

DueInv == TypeOK /\ Bounded /\ Passed /\ DueIsInHand

LEMMA DueInit == Init => DueInv
BY InitTypes DEF Init, DueInv, Bounded, Passed, MarkPassed, SeenPassed, HeadPassed,
   WakePassed, KilledIsDue, DueIsInHand, Awaited

LEMMA AppendBounded ==
  ASSUME TypeOK, Bounded, NEW from \in Position, from # None => from <= inbox,
         queue' = Append(queue, from), inbox' = inbox
  PROVE  \A i \in 1..Len(queue') : queue'[i] # None => queue'[i] <= inbox'
<1>1. queue \in Seq(Position)
  BY DEF TypeOK, ParentTypes
<1>2. SUFFICES ASSUME NEW i \in 1..Len(queue'), queue'[i] # None
               PROVE  queue'[i] <= inbox'
  OBVIOUS
<1>3. Len(queue') = Len(queue) + 1
  BY <1>1
<1>4. CASE i = Len(queue) + 1
  BY <1>1, <1>2, <1>4
<1>5. CASE i \in 1..Len(queue)
  BY <1>1, <1>2, <1>5 DEF Bounded
<1> QED  BY <1>1, <1>3, <1>4, <1>5

LEMMA TailBounded ==
  ASSUME TypeOK, Bounded, queue # << >>, queue' = Tail(queue), inbox' = inbox
  PROVE  \A i \in 1..Len(queue') : queue'[i] # None => queue'[i] <= inbox'
<1>1. queue \in Seq(Position)
  BY DEF TypeOK, ParentTypes
<1>2. SUFFICES ASSUME NEW i \in 1..Len(queue'), queue'[i] # None
               PROVE  queue'[i] <= inbox'
  OBVIOUS
<1>3. i + 1 \in 1..Len(queue) /\ queue'[i] = queue[i + 1]
  BY <1>1
<1> QED  BY <1>2, <1>3 DEF Bounded

\* A run that starts has seen all there is.
LEMMA StartBounded ==
  ASSUME TypeOK, Bounded, NEW from \in Position, Start(from), inbox' = inbox
  PROVE  seen' <= inbox' /\ (mark' # None => mark' <= inbox')
BY DEF TypeOK, ParentTypes, Bounded, Start

LEMMA BoundedStep ==
  ASSUME TypeOK, Bounded, [Next]_vars
  PROVE  Bounded'
<1> USE DEF TypeOK, ParentTypes, WakeTypes, Wakes, Position
<1>1. ASSUME UNCHANGED <<inbox, parentRun, wakes>>, \A t \in tasks' : t.at <= inbox
      PROVE  Bounded'
  BY <1>1 DEF Bounded, parentRun, wakes
<1>2. CASE UNCHANGED vars
  BY <1>1, <1>2 DEF vars, Bounded
<1>3. ASSUME NEW c \in Child, \/ \E wait \in BOOLEAN : BeginSpawn(c, wait) \/ BeginMessage(c, wait)
                             \/ CallStep(c) \/ PumpStarts(c) \/ PumpFails(c)
                             \/ RunEnds(c) \/ KillChild(c)
      PROVE  Bounded'
  <2>1. UNCHANGED <<inbox, parentRun, wakes>>
    BY <1>3 DEF BeginSpawn, BeginMessage, CallStep, Deliver, Launched, Queued, AskQueued,
       NotStarted, Answered, TimesOut, AskLater, Look, PumpStarts, PumpFails, RunEnds, KillChild
  <2>2. tasks' \subseteq tasks \cup {Report(c, 0, FALSE), Report(c, NextEnd(c), FALSE),
                                    Report(c, NextEnd(c), TRUE)}
    <3>1. CASE CallStep(c)
      BY <3>1 DEF CallStep, Deliver, Launched, Queued, AskQueued, NotStarted, Answered,
         TimesOut, AskLater, Look
    <3> QED  BY <1>3, <3>1 DEF BeginSpawn, BeginMessage, PumpStarts, PumpFails, RunEnds, KillChild
  <2>3. \A t \in tasks' : t.at <= inbox
    BY <2>2 DEF Report, Bounded
  <2> QED  BY <1>1, <2>1, <2>3
<1>4. ASSUME NEW t \in tasks, Take(t) \/ Hand(t) \/ Allow(t) \/ Pend(t)
      PROVE  Bounded'
  <2>0. t \in Tasks /\ t.at \in Nat /\ t.at <= inbox
    BY DEF Tasks, Bounded
  <2>1. CASE Take(t)
    <3> DEFINE u == [t EXCEPT !.pc = "deliver", !.tells = ended[t.child],
                              !.dead = parent = "killed"]
    <3>1. u.at = t.at
      BY <2>0 DEF Tasks
    <3> HIDE DEF u
    <3>2. tasks' \subseteq tasks \cup {u} /\ UNCHANGED <<inbox, parentRun, wakes>>
      BY <2>1 DEF Take, Move, u
    <3> QED  BY <1>1, <2>0, <3>1, <3>2 DEF Bounded
  <2>2. CASE Hand(t)
    <3>1. inbox' = inbox + 1 /\ UNCHANGED <<parentRun, wakes>>
      BY <2>2 DEF Hand
    <3> DEFINE v == [t EXCEPT !.pc = "allow", !.tells = 0, !.at = inbox]
    <3>2. tasks' \subseteq tasks \cup {v}
      BY <2>2 DEF Hand, Move
    <3>3. v.at = inbox
      BY <2>0 DEF Tasks
    <3> HIDE DEF v
    <3>4. \A u \in tasks : u.at \in Nat /\ u.at <= inbox
      BY DEF Bounded, Tasks
    <3>5. \A u \in tasks' : u.at <= inbox'
      BY <3>1, <3>2, <3>3, <3>4
    <3>6. \A i \in 1..Len(queue) : queue[i] \in Position
      OBVIOUS
    <3> QED  BY <3>1, <3>5, <3>6 DEF Bounded, parentRun, wakes
  <2>3. CASE Allow(t)
    BY <1>1, <2>0, <2>3 DEF Allow, Move, Tasks, Bounded
  <2>4. CASE Pend(t)
    BY <2>0, <2>4 DEF Pend, Bounded, parentRun
  <2> QED  BY <1>4, <2>1, <2>2, <2>3, <2>4
<1>5. CASE Send
  BY <1>5, AppendBounded, StartBounded DEF Send, StartCompaction, Bounded, wakes
<1>6. CASE PumpStartsParent
  <2>1. Head(queue) \in Position
    BY <1>6 DEF PumpStartsParent
  <2> QED  BY <1>6, <2>1, TailBounded, StartBounded
              DEF PumpStartsParent, StartCompaction, Bounded, wakes
<1>7. CASE PumpFailsParent \/ CompactionEnds \/ ParentLooks \/ ParentFails
  <2>1. CASE PumpFailsParent
    BY <2>1, TailBounded DEF PumpFailsParent, Bounded, wakes
  <2> QED  BY <1>7, <2>1 DEF CompactionEnds, ParentLooks, ParentFails, Bounded, wakes
<1>8. CASE StopParent
  BY <1>8 DEF StopParent, Bounded, wakes
<1>9. CASE Fire \/ WakeLooks \/ WakeAllowed \/ WakeCounts \/ HourPasses
  BY <1>9 DEF Fire, WakeLooks, WakeAllowed, WakeCounts, HourPasses, Bounded, parentRun
<1>10. CASE WakeDispatches
  <2>1. wake.from \in Position /\ wake.from <= inbox
    BY <1>10 DEF WakeDispatches, Bounded
  <2> QED  BY <1>10, <2>1, AppendBounded, StartBounded DEF WakeDispatches, Bounded, parentRun
<1>11. CASE Crash
  <2>1. queue' = << >> \/ (queue # << >> /\ Len(queue') = 1 /\ queue'[1] = queue[Len(queue)])
    BY <1>11 DEF Crash
  <2>2. \A i \in 1..Len(queue') : queue'[i] # None => queue'[i] <= inbox'
    BY <1>11, <2>1 DEF Crash, Bounded
  <2> QED  BY <1>11, <2>2 DEF Crash, Bounded
<1> QED  BY <1>2, <1>3, <1>4, <1>5, <1>6, <1>7, <1>8, <1>9, <1>10, <1>11
         DEF Next, ReportStep, WakeStep

(***************************************************************************)
(* No report that is due is passed                                         *)
(***************************************************************************)
LEMMA DueReports ==
  ASSUME TypeOK, NEW n \in Awaited
  PROVE  n \in Nat /\ n <= inbox
BY DEF TypeOK, ParentTypes, Awaited

\* With none there is nothing to pass.
LEMMA NothingDue == ASSUME Awaited' = {} PROVE Passed' /\ DueIsInHand'
BY DEF Passed, MarkPassed, SeenPassed, HeadPassed, WakePassed, KilledIsDue, DueIsInHand, Awaited

\* A run that starts takes all that is due, or passes over it.
LEMMA StartClears ==
  ASSUME DueInv, NEW from \in Position, Start(from), inbox' = inbox,
         mark = None /\ from # None => \A n \in Awaited : from < n
  PROVE  Awaited' = {}
<1> USE DEF DueInv, TypeOK, ParentTypes, Position, Awaited
<1>1. CASE mark = None /\ from = None
  BY <1>1 DEF Start, PassOver
<1>2. CASE mark = None /\ from # None
  <2>1. due' = due \ (from + 1)..inbox /\ passed' = passed
    BY <1>2, NoneAssumption DEF Start
  <2> QED  BY <1>2, <2>1
<1>3. CASE mark # None
  <2>1. due' = due \ (mark + 1)..inbox /\ passed' = passed
    BY <1>3, NoneAssumption DEF Start
  <2> QED  BY <1>3, <2>1 DEF Passed, MarkPassed
<1> QED  BY <1>1, <1>2, <1>3

LEMMA CompactionClears == ASSUME StartCompaction PROVE Awaited' = {}
BY DEF StartCompaction, PassOver, Awaited

\* A parent that runs, or is queued and will read, has what is due in hand.
LEMMA RunHasDue ==
  ASSUME DueInv, NEW n \in Awaited, parent = "live" \/ (queue # << >> /\ ~ BlindNext)
  PROVE  \/ parent = "live" /\ seen < n
         \/ queue # << >> /\ Reads(Head(queue), n)
<1>1. CASE parent = "live"
  BY <1>1 DEF DueInv, Passed, SeenPassed
<1>2. CASE parent # "live"
  <2>1. ~ Runs
    BY <1>2 DEF DueInv, Passed, KilledIsDue, Runs
  <2>2. queue # << >> /\ (mark # None \/ Head(queue) # None)
    BY <1>2, <2>1 DEF BlindNext
  <2> QED  BY <2>2 DEF DueInv, Passed, MarkPassed, HeadPassed, Reads
<1> QED  BY <1>1, <1>2

\* Steps that leave the parent, its wakes and the reports for them alone.
LEMMA DueUntouched ==
  ASSUME DueInv, UNCHANGED <<inbox, parentRun, wakes, reports>>,
         \A t \in tasks : t.pc \in {"allow", "pend"} => t \in tasks'
  PROVE  Passed' /\ DueIsInHand'
BY DEF DueInv, Passed, MarkPassed, SeenPassed, HeadPassed, WakePassed, KilledIsDue, Awaited,
   DueIsInHand, InHand, Reads, parentRun, wakes, reports

\* A wake that finds the parent running, or queued to read, is for nothing.
LEMMA WakeGoes ==
  ASSUME DueInv, UNCHANGED <<inbox, tasks, parentRun, pending, reports>>, wake' = None,
         Runs \/ (queue # << >> /\ ~ BlindNext)
  PROVE  Passed' /\ DueIsInHand'
<1>0. Awaited' = Awaited
  BY DEF Awaited, reports
<1>1. Passed'
  BY <1>0 DEF DueInv, Passed, MarkPassed, SeenPassed, HeadPassed, WakePassed, KilledIsDue, parentRun
<1>2. ASSUME NEW n \in Awaited
      PROVE  InHand(n)'
  <2>1. parent # "compacts"
    BY <1>2 DEF DueInv, Passed, KilledIsDue
  <2> QED  BY <1>2, <2>1, RunHasDue DEF InHand, Reads, Runs, parentRun
<1> QED  BY <1>0, <1>1, <1>2 DEF DueIsInHand, Awaited

LEMMA HandKeepsDue ==
  ASSUME DueInv, NEW t \in tasks, Hand(t)
  PROVE  Passed' /\ DueIsInHand'
<1> USE DEF DueInv, TypeOK, ParentTypes, WakeTypes, Wakes, Position
<1> DEFINE v == [t EXCEPT !.pc = "allow", !.tells = 0, !.at = inbox]
<1>1. v.pc = "allow" /\ v.at = inbox /\ t \in Tasks
  BY DEF Tasks
<1> HIDE DEF v
<1>2. /\ inbox' = inbox + 1 /\ UNCHANGED <<parentRun, wakes>> /\ t.pc = "deliver"
      /\ \/ Awaited' \subseteq Awaited
         \/ Awaited' \subseteq Awaited \cup {inbox + 1} /\ parent \notin {"killed", "compacts"}
  BY DEF Hand, Awaited
<1>3. inbox + 1 \in Awaited' => parent = "live" \/ v \in tasks'
  BY DEF Hand, Move, Runs, Awaited, v
<1>4. \A u \in tasks : u.pc \in {"allow", "pend"} => u \in tasks'
  BY DEF Hand, Move
<1>5. queue # << >> => Head(queue) \in Position /\ (Head(queue) # None => Head(queue) <= inbox)
  BY DEF Bounded
<1>6. Passed'
  <2>1. /\ seen <= inbox /\ (mark # None => mark <= inbox)
        /\ (wake # None => wake.from <= inbox /\ wake.from \in Nat)
    BY DEF Bounded
  <2>0. /\ mark' = mark /\ seen' = seen /\ parent' = parent /\ queue' = queue
        /\ \A n \in Awaited' : n \in Awaited \/ n = inbox + 1
    BY <1>2 DEF parentRun
  <2>2. MarkPassed' /\ SeenPassed'
    <3>1. (mark # None => mark < inbox + 1) /\ seen < inbox + 1
      BY <2>1
    <3>2. /\ mark # None => \A n \in Awaited : mark < n
          /\ parent = "live" => \A n \in Awaited : seen < n
      BY DEF Passed, MarkPassed, SeenPassed
    <3> HIDE DEF DueInv
    <3> QED  BY <2>0, <3>1, <3>2 DEF MarkPassed, SeenPassed
  <2>3. HeadPassed'
    <3>1. ASSUME mark = None, queue # << >>, Head(queue) # None
          PROVE  \A n \in Awaited' : Head(queue) < n
      <4>1. Head(queue) < inbox + 1
        BY <1>5, <3>1
      <4>2. \A n \in Awaited : Head(queue) < n
        BY <3>1 DEF Passed, HeadPassed
      <4> HIDE DEF DueInv
      <4> QED  BY <2>0, <4>1, <4>2
    <3> QED  BY <2>0, <3>1 DEF HeadPassed
  <2>4. WakePassed'
    <3>1. wake' = wake
      BY <1>2 DEF wakes
    <3>2. ASSUME wake # None, mark = None,
                 wake.pc # "look" \/ (queue = << >> /\ parent # "live")
          PROVE  \A n \in Awaited' : wake.from < n
      <4>1. wake.from < inbox + 1
        BY <2>1, <3>2
      <4>2. \A n \in Awaited : wake.from < n
        BY <3>2 DEF Passed, WakePassed
      <4> HIDE DEF DueInv
      <4> QED  BY <2>0, <4>1, <4>2
    <3> QED  BY <2>0, <3>1, <3>2 DEF WakePassed
  <2>5. KilledIsDue'
    BY <1>2 DEF Passed, KilledIsDue, parentRun
  <2> QED  BY <2>2, <2>3, <2>4, <2>5 DEF Passed
<1>7. ASSUME NEW n \in Awaited
      PROVE  InHand(n)'
  BY <1>2, <1>4, <1>7 DEF DueIsInHand, Awaited, InHand, Reads, parentRun, wakes
<1>8. ASSUME NEW n \in Awaited', n = inbox + 1
      PROVE  InHand(n)'
  <2>0. seen < n /\ (mark # None => mark < n) /\ inbox < n /\ inbox # None
    BY <1>8, NoneAssumption DEF Bounded
  <2>1. CASE parent = "live"
    <3>1. parent' = "live" /\ seen' = seen
      BY <1>2, <2>1 DEF parentRun
    <3> QED  BY <2>0, <3>1 DEF InHand
  <2>2. CASE v \in tasks'
    <3>1. mark' = mark
      BY <1>2 DEF parentRun
    <3>2. PICK u \in tasks' : u.pc = "allow" /\ u.at = inbox
      BY <1>1, <2>2
    <3>3. Reads(u.at, n)'
      BY <2>0, <3>1, <3>2 DEF Reads
    <3> QED  BY <3>2, <3>3 DEF InHand
  <2> QED  BY <1>3, <1>8, <2>1, <2>2
<1>9. DueIsInHand'
  BY <1>2, <1>7, <1>8 DEF DueIsInHand, Awaited
<1> QED  BY <1>6, <1>9

LEMMA ReportKeepsDue ==
  ASSUME DueInv, NEW t \in tasks, Take(t) \/ Hand(t) \/ Allow(t) \/ Pend(t)
  PROVE  Passed' /\ DueIsInHand'
<1> USE DEF DueInv, TypeOK, ParentTypes, WakeTypes, Wakes, Position
<1>0. t \in Tasks /\ t.at \in Nat
  BY DEF Tasks
<1>1. CASE Take(t)
  BY <1>1, DueUntouched DEF Take, Move
<1>2. CASE Hand(t)
  BY <1>2, HandKeepsDue
<1>3. CASE Allow(t)
  <2>1. CASE MayWake
    <3> DEFINE u == [t EXCEPT !.pc = "pend"]
    <3>1. u.pc = "pend" /\ u.at = t.at
      BY <1>0 DEF Tasks
    <3> HIDE DEF u
    <3>2. tasks' = (tasks \ {t}) \cup {u} /\ UNCHANGED <<inbox, parentRun, wakes, reports>>
      BY <1>3, <2>1 DEF Allow, Move, reports, u
    <3>3. Passed'
      BY <3>2 DEF Passed, MarkPassed, SeenPassed, HeadPassed, WakePassed,
         KilledIsDue, Awaited, reports, parentRun, wakes
    <3>4. ASSUME NEW n \in Awaited
          PROVE  InHand(n)'
      BY <3>1, <3>2, <3>4 DEF DueIsInHand, Awaited, InHand, Reads, parentRun, wakes
    <3> QED  BY <3>2, <3>3, <3>4 DEF DueIsInHand, Awaited, reports
  <2>2. CASE ~ MayWake
    BY <1>3, <2>2, NothingDue DEF Allow, Awaited
  <2> QED  BY <2>1, <2>2
<1>4. CASE Pend(t)
  <2>1. /\ UNCHANGED <<inbox, parentRun, wake, reports>> /\ tasks' = tasks \ {t}
        /\ pending' # None /\ pending' \in Nat /\ pending' <= t.at
        /\ pending # None => pending' <= pending
    BY <1>0, <1>4, NoneAssumption DEF Pend
  <2>2. Passed'
    BY <2>1 DEF Passed, MarkPassed, SeenPassed, HeadPassed, WakePassed,
       KilledIsDue, Awaited, reports, parentRun
  <2>3. ASSUME NEW n \in Awaited
        PROVE  InHand(n)'
    <3>0. n \in Nat
      BY <2>3, DueReports
    <3>1. CASE Reads(t.at, n)
      BY <1>0, <2>1, <3>0, <3>1, NoneAssumption DEF InHand, Reads, parentRun
    <3>2. CASE pending # None /\ Reads(pending, n)
      BY <1>0, <2>1, <3>0, <3>2, NoneAssumption DEF InHand, Reads, parentRun
    <3>3. CASE ~ Reads(t.at, n) /\ ~ (pending # None /\ Reads(pending, n))
      BY <2>1, <3>3 DEF DueIsInHand, Awaited, InHand, Reads, parentRun
    <3> QED  BY <3>1, <3>2, <3>3
  <2> QED  BY <2>1, <2>2, <2>3 DEF DueIsInHand, Awaited, reports
<1> QED  BY <1>1, <1>2, <1>3, <1>4

LEMMA ParentKeepsDue ==
  ASSUME DueInv, ParentSteps \/ StopParent
  PROVE  Passed' /\ DueIsInHand'
<1> USE DEF DueInv, TypeOK, ParentTypes, Position
<1>1. CASE Send
  <2>1. CASE Start(None) \/ StartCompaction
    BY <1>1, <2>1, StartClears, CompactionClears, NothingDue DEF Send
  <2>2. CASE ~ (Start(None) \/ StartCompaction)
    <3>1. /\ UNCHANGED <<inbox, tasks, wakes, mark, seen, reports>>
          /\ queue = << >> /\ queue' = Append(queue, None)
          /\ parent # "live" /\ parent' = "idle"
      BY <1>1, <2>2 DEF Send, Runs
    <3>2. queue' # << >> /\ Head(queue') = None /\ Awaited' = Awaited
      BY <3>1 DEF Awaited, reports
    <3>3. Passed'
      BY <3>1, <3>2 DEF Passed, MarkPassed, SeenPassed, HeadPassed, WakePassed, KilledIsDue, wakes
    <3>4. ASSUME NEW n \in Awaited
          PROVE  InHand(n)'
      BY <3>1, <3>2, <3>4 DEF DueIsInHand, Awaited, InHand, Reads, wakes
    <3> QED  BY <3>2, <3>3, <3>4 DEF DueIsInHand, Awaited
  <2> QED  BY <2>1, <2>2
<1>2. CASE PumpStartsParent
  <2>1. Head(queue) \in Position /\ inbox' = inbox
    BY <1>2 DEF PumpStartsParent
  <2>2. mark = None /\ Head(queue) # None => \A n \in Awaited : Head(queue) < n
    BY <1>2 DEF PumpStartsParent, Passed, HeadPassed
  <2>3. CASE Start(Head(queue))
    BY <2>1, <2>2, <2>3, StartClears, NothingDue
  <2> QED  BY <1>2, <2>3, CompactionClears, NothingDue DEF PumpStartsParent
<1>3. CASE ParentLooks
  <2>1. Awaited' = {}
    BY <1>3 DEF ParentLooks, Passed, SeenPassed, Awaited
  <2> QED  BY <2>1, NothingDue
<1>4. CASE CompactionEnds
  <2>1. Awaited' = {}
    BY <1>4 DEF CompactionEnds, Passed, KilledIsDue, Awaited, reports
  <2> QED  BY <2>1, NothingDue
<1>5. CASE PumpFailsParent \/ ParentFails \/ StopParent
  BY <1>5, NothingDue DEF PumpFailsParent, ParentFails, StopParent, Awaited
<1> QED  BY <1>1, <1>2, <1>3, <1>4, <1>5 DEF ParentSteps

LEMMA WakeKeepsDue ==
  ASSUME DueInv, WakeStep
  PROVE  Passed' /\ DueIsInHand'
<1> USE NoneAssumption DEF DueInv, TypeOK, ParentTypes, WakeTypes, Wakes, Position
<1>1. CASE Fire
  <2> DEFINE w == [pc |-> "look", from |-> pending]
  <2>1. w.pc = "look" /\ w.from = pending
    OBVIOUS
  <2> HIDE DEF w
  <2>2. /\ UNCHANGED <<inbox, tasks, parentRun, reports>> /\ wake = None
        /\ \A t \in tasks : t.pc \notin {"allow", "pend"}
        /\ wake' = IF pending = None THEN None ELSE w
    BY <1>1 DEF Fire, w
  <2>3. pending # None => w # None
    BY DEF w
  <2>4. WakePassed'
    BY <2>1, <2>2 DEF WakePassed, DueIsInHand, Awaited, reports, InHand, Reads, parentRun
  <2>5. Passed'
    BY <2>2, <2>4 DEF Passed, MarkPassed, SeenPassed, HeadPassed, KilledIsDue, Awaited, reports, parentRun
  <2>6. ASSUME NEW n \in Awaited
        PROVE  InHand(n)'
    BY <2>1, <2>2, <2>3, <2>6 DEF DueIsInHand, Awaited, InHand, Reads, parentRun
  <2> QED  BY <2>2, <2>5, <2>6 DEF DueIsInHand, Awaited, reports
<1>2. CASE WakeLooks
  <2>1. CASE parent = "idle" /\ queue = << >>
    <3> DEFINE w == [wake EXCEPT !.pc = "allow"]
    <3>1. w.pc = "allow" /\ w.from = wake.from /\ w \in Wakes
      BY <1>2 DEF WakeLooks
    <3> HIDE DEF w
    <3>2. /\ UNCHANGED <<inbox, tasks, parentRun, pending, reports>>
          /\ wake # None /\ wake' = w /\ w # None
      BY <1>2, <2>1, <3>1 DEF WakeLooks, BlindNext, reports, w
    <3>3. Passed'
      BY <2>1, <3>1, <3>2 DEF Passed, MarkPassed, SeenPassed, HeadPassed, WakePassed,
         KilledIsDue, Awaited, reports, parentRun
    <3>4. ASSUME NEW n \in Awaited
          PROVE  InHand(n)'
      BY <3>1, <3>2, <3>4 DEF DueIsInHand, Awaited, InHand, Reads, parentRun
    <3> QED  BY <3>2, <3>3, <3>4 DEF DueIsInHand, Awaited, reports
  <2>2. CASE parent = "killed" \/ BlindNext
    <3>1. Awaited' = {}
      BY <1>2, <2>2 DEF WakeLooks, PassOver, Passed, KilledIsDue, Awaited
    <3> QED  BY <3>1, NothingDue
  <2>3. CASE ~ (parent = "idle" /\ queue = << >>) /\ parent # "killed" /\ ~ BlindNext
    <3>1. UNCHANGED <<inbox, tasks, parentRun, pending, reports>> /\ wake' = None
      BY <1>2, <2>3 DEF WakeLooks, reports
    <3>2. Runs \/ queue # << >>
      BY <2>3 DEF Runs
    <3> QED  BY <2>3, <3>1, <3>2, WakeGoes
  <2> QED  BY <2>1, <2>2, <2>3
<1>3. ASSUME NEW pc \in {"count", "dispatch"}, wake # None, wake.pc # "look",
             wake' = [wake EXCEPT !.pc = pc],
             UNCHANGED <<inbox, tasks, parentRun, pending, reports>>
      PROVE  Passed' /\ DueIsInHand'
  <2>1. wake'.pc = pc /\ wake'.from = wake.from /\ wake' # None
    BY <1>3
  <2>2. Passed'
    BY <1>3, <2>1 DEF Passed, MarkPassed, SeenPassed, HeadPassed, WakePassed,
       KilledIsDue, Awaited, reports, parentRun
  <2>3. ASSUME NEW n \in Awaited
        PROVE  InHand(n)'
    BY <1>3, <2>1, <2>3 DEF DueIsInHand, Awaited, InHand, Reads, parentRun
  <2> QED  BY <1>3, <2>2, <2>3 DEF DueIsInHand, Awaited, reports
<1>4. CASE WakeAllowed
  <2>1. CASE MayWake
    BY <1>3, <1>4, <2>1 DEF WakeAllowed, reports
  <2>2. CASE ~ MayWake
    BY <1>4, <2>2, NothingDue DEF WakeAllowed, Awaited
  <2> QED  BY <2>1, <2>2
<1>5. CASE WakeCounts
  BY <1>3, <1>5 DEF WakeCounts
<1>6. CASE WakeDispatches
  <2>1. wake.from \in Nat /\ wake # None /\ wake.pc # "look"
    BY <1>6 DEF WakeDispatches
  <2>2. mark = None => \A n \in Awaited : wake.from < n
    BY <2>1 DEF Passed, WakePassed
  <2>3. CASE Start(wake.from)
    <3>1. inbox' = inbox
      BY <1>6 DEF WakeDispatches
    <3> QED  BY <2>1, <2>2, <2>3, <3>1, StartClears, NothingDue
  <2>4. CASE /\ queue' = Append(queue, wake.from) /\ UNCHANGED <<mark, seen, due>>
             /\ parent' = IF Runs THEN parent ELSE "idle"
             /\ IF BlindNext THEN PassOver ELSE UNCHANGED passed
    <3>1. UNCHANGED <<inbox, tasks, pending>> /\ wake' = None
      BY <1>6 DEF WakeDispatches
    <3>2. queue' # << >> /\ Head(queue') = IF queue = << >> THEN wake.from ELSE Head(queue)
      BY <2>1, <2>4
    <3>3. CASE BlindNext
      BY <2>4, <3>3, NothingDue DEF PassOver, Awaited
    <3>4. CASE ~ BlindNext
      <4>1. Awaited' = Awaited
        BY <2>4, <3>4 DEF Awaited
      <4>2. Passed'
        BY <2>1, <2>2, <2>4, <3>1, <3>2, <4>1 DEF Passed, MarkPassed, SeenPassed, HeadPassed,
           WakePassed, KilledIsDue, Runs
      <4>3. ASSUME NEW n \in Awaited
            PROVE  InHand(n)'
        <5>1. CASE parent = "live" \/ queue # << >>
          BY <2>4, <3>2, <3>4, <4>3, <5>1, RunHasDue DEF InHand, Reads, Runs
        <5>2. CASE parent # "live" /\ queue = << >>
          <6>1. Reads(wake.from, n)
            BY <2>1, <2>2, <4>3 DEF Passed, MarkPassed, Reads
          <6> QED  BY <2>4, <3>2, <5>2, <6>1 DEF InHand, Reads
        <5> QED  BY <5>1, <5>2
      <4> QED  BY <4>1, <4>2, <4>3 DEF DueIsInHand, Awaited
    <3> QED  BY <3>3, <3>4
  <2>5. CASE Runs /\ UNCHANGED <<parentRun, reports>>
    BY <1>6, <2>5, WakeGoes DEF WakeDispatches
  <2>6. CASE due' = {}
    BY <2>6, NothingDue DEF Awaited
  <2> QED  BY <1>6, <2>3, <2>4, <2>5, <2>6 DEF WakeDispatches
<1> QED  BY <1>1, <1>2, <1>4, <1>5, <1>6 DEF WakeStep

LEMMA DueStep == DueInv /\ [Next]_vars => DueInv'
<1> SUFFICES ASSUME DueInv, [Next]_vars
             PROVE  DueInv'
  OBVIOUS
<1>1. TypeOK' /\ Bounded'
  BY StepTypes, BoundedStep DEF DueInv
<1>2. CASE UNCHANGED vars \/ HourPasses
  <2>1. UNCHANGED <<inbox, parentRun, pending, wake, reports, tasks>>
    BY <1>2 DEF vars, wakes, HourPasses
  <2> QED  BY <1>1, <2>1 DEF DueInv, Passed, MarkPassed, SeenPassed, HeadPassed, Awaited,
              WakePassed, KilledIsDue, DueIsInHand, InHand, Reads, parentRun, reports
<1>3. ASSUME NEW c \in Child, \/ \E wait \in BOOLEAN : BeginSpawn(c, wait) \/ BeginMessage(c, wait)
                             \/ CallStep(c) \/ PumpStarts(c) \/ PumpFails(c)
                             \/ RunEnds(c) \/ KillChild(c)
      PROVE  Passed' /\ DueIsInHand'
  <2>1. UNCHANGED <<inbox, parentRun, wakes, reports>> /\ tasks \subseteq tasks'
    <3>1. CASE CallStep(c)
      BY <3>1 DEF CallStep, Deliver, Launched, Queued, AskQueued, NotStarted, Answered,
         TimesOut, AskLater, Look
    <3> QED  BY <1>3, <3>1 DEF BeginSpawn, BeginMessage, PumpStarts, PumpFails, RunEnds, KillChild
  <2> QED  BY <2>1, DueUntouched
<1>4. CASE Crash
  <2>1. due' = {}
    BY <1>4 DEF Crash
  <2> QED  BY <1>1, <2>1, NothingDue DEF DueInv, Awaited
<1> QED  BY <1>1, <1>2, <1>3, <1>4, ReportKeepsDue, ParentKeepsDue, WakeKeepsDue
         DEF DueInv, Next, ReportStep, ParentSteps

\* No report that a wake or a run is due for falls between the end of the parent's
\* run, the debounce and the wake (deliver and wake_later of wake.rs, first_input
\* of run.rs): somebody is yet to read from before it.  What a run that reads
\* nothing passed over is left out.
THEOREM DueKept == Spec => []DueIsInHand
<1>1. DueInv => DueIsInHand
  BY DEF DueInv
<1> QED  BY <1>1, DueInit, DueStep, PTL DEF Spec
=============================================================================
