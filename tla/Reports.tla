------------------------------- MODULE Reports -------------------------------
(***************************************************************************)
(* How a session hears of the sessions it started: report_to of queue.rs,  *)
(* the calls of harness.rs that ask for a report, the report a run leaves  *)
(* behind (launch.rs, wake.rs), and the wake of a parent that is not       *)
(* running: debounced, and capped by the hour.                             *)
(*                                                                         *)
(* One parent and its children; parents share nothing.  What module        *)
(* Orchestrator says of a run is taken from there: a session runs once at  *)
(* a time, a queued run is started when a slot frees, a run reads what is  *)
(* delivered while it is live.  A slot is free or not as it happens.  The  *)
(* parent has one call about a child at a time.                            *)
(***************************************************************************)
EXTENDS Integers, Sequences

CONSTANTS
  Child,         \* the sessions the parent starts
  None,          \* no value
  WakesPerHour,  \* WAKES_PER_HOUR
  Faults,        \* what may go wrong: "busy" (no slot, no queueing), "fails" (a launch)
  MaxCalls,      \* bound: the calls of the parent
  MaxSends,      \* bound: the times a person sends to the parent
  MaxStops,      \* bound: kills, failed runs and crashes
  MaxHours       \* bound: the times wakes are forgotten

ASSUME WakesAssumption == WakesPerHour \in Nat \ {0}
ASSUME FaultsAssumption == Faults \subseteq {"busy", "fails"}
ASSUME BoundAssumption ==
  MaxCalls \in Nat /\ MaxSends \in Nat /\ MaxStops \in Nat /\ MaxHours \in Nat

VARIABLES
  child,    \* "absent", "made", "idle", "live" or "killed"
  waiting,  \* the queued runs of a child
  owed,     \* report_to of run.json: the next end of the child is reported
  call,     \* the parent's call about a child
  tasks,    \* reports under way
  ended,    \* the runs of a child that ended, or did not start when they were due
  inbox,    \* the number of reports in the parent's transcript
  parent,   \* "idle", "live", "compacts" or "killed"
  queue,    \* inbox_from of the queued runs of the parent
  mark,     \* its read mark: the reports its agent was handed
  seen,     \* those its run has in view
  pending,  \* where the next wake starts to read
  timers,   \* wakes asleep
  wake,     \* a wake under way
  woken,    \* the wakes of the last hour
  bounds,
  \* history: the reports a wake or a run is due for; those of them that a run
  \* which reads nothing has passed over; the ends of a child that calls were
  \* promised to hear of, by their number; the last end that was told; the
  \* promises that the code breaks
  due, passed, asked, told, broken

kids == <<child, waiting, ended>>
parentRun == <<parent, queue, mark, seen>>
wakes == <<pending, timers, wake, woken>>
reports == <<due, passed>>
promises == <<asked, told, broken>>
vars == <<kids, owed, call, tasks, inbox, parentRun, wakes, bounds, reports, promises>>

Position == Nat \cup {None}
\* by: the end told by the report that took what this call had asked for
Calls == [pc : {"none", "deliver", "dispatch", "ask", "await", "later", "look"},
          op : {"spawn", "message"}, wait : BOOLEAN, by : Position]
\* tells: the last end there was when the report was written
Tasks == [child : Child, n : Nat, stopped : BOOLEAN, tells : Nat,
          pc : {"ended", "deliver", "allow", "pend"}, dead : BOOLEAN, at : Nat]
Wakes == [pc : {"look", "allow", "count", "dispatch"}, from : Nat]

ASSUME NoneAssumption == None \notin Nat /\ None \notin Wakes

KidTypes ==
  /\ child \in [Child -> {"absent", "made", "idle", "live", "killed"}]
  /\ waiting \in [Child -> Nat] /\ ended \in [Child -> Nat]
  /\ owed \in [Child -> BOOLEAN] /\ told \in [Child -> Nat]
  /\ asked \in [Child -> SUBSET Nat] /\ broken \in [Child -> SUBSET Nat]

ParentTypes ==
  /\ inbox \in Nat /\ seen \in Nat /\ mark \in Position
  /\ parent \in {"idle", "live", "compacts", "killed"} /\ queue \in Seq(Position)
  /\ due \subseteq 1..inbox /\ passed \subseteq 1..inbox

WakeTypes ==
  /\ pending \in Position /\ timers \in Nat /\ woken \in Nat
  /\ wake \in Wakes \cup {None}

TypeOK ==
  /\ KidTypes /\ ParentTypes /\ WakeTypes
  /\ call \in [Child -> Calls]
  /\ tasks \subseteq Tasks
  /\ bounds \in [{"calls", "sends", "stops", "hours"} -> Nat]

NoCall == [pc |-> "none", op |-> "spawn", wait |-> FALSE, by |-> None]

\* The parent runs, for the first time since the program started.
Init ==
  /\ child = [c \in Child |-> "absent"]
  /\ waiting = [c \in Child |-> 0] /\ ended = [c \in Child |-> 0]
  /\ owed = [c \in Child |-> FALSE] /\ told = [c \in Child |-> 0]
  /\ asked = [c \in Child |-> {}] /\ broken = [c \in Child |-> {}]
  /\ call = [c \in Child |-> NoCall]
  /\ tasks = {}
  /\ inbox = 0 /\ seen = 0 /\ mark = None
  /\ parent = "live" /\ queue = << >>
  /\ pending = None /\ timers = 0 /\ wake = None /\ woken = 0
  /\ bounds = [b \in {"calls", "sends", "stops", "hours"} |-> 0]
  /\ due = {} /\ passed = {}

Spend(b, max) == bounds[b] < max /\ bounds' = [bounds EXCEPT ![b] = @ + 1]

\* Nobody runs the child, and nobody is about to.
AtRest(c) == child[c] \in {"idle", "killed"} /\ waiting[c] = 0

Owe(c) == owed' = [owed EXCEPT ![c] = TRUE]

\* The number of the end that is yet to come, and of the last one there is a run
\* for.
NextEnd(c) == ended[c] + 1
LastEnd(c) == ended[c] + waiting[c] + (IF child[c] = "live" THEN 1 ELSE 0)

\* A report on its way tells of end k, or somebody is there to write one.
OnItsWay(c, k) == \E t \in tasks : t.child = c /\ t.pc = "deliver" /\ k <= t.tells
WillWrite(c) == \E t \in tasks : t.child = c /\ t.pc = "ended"

\* A call returns, and its caller may count on hearing of end k.  What was promised
\* anew is no longer broken.
Pledge(c, k, lost) ==
  /\ asked' = [asked EXCEPT ![c] = IF k > told[c] THEN @ \cup {k} ELSE @]
  /\ broken' = [broken EXCEPT ![c] = IF lost THEN @ \cup {k} ELSE @ \ {k}]
  /\ UNCHANGED told

\* It is lost if an older report took what the call had asked for.
Promise(c, k) == Pledge(c, k, call[c].by # None /\ call[c].by < k)

Break(c, lost) ==
  /\ broken' = [broken EXCEPT ![c] = @ \cup lost]
  /\ UNCHANGED <<asked, told>>

GoTo(c, pc) == call' = [call EXCEPT ![c] = [@ EXCEPT !.pc = pc]]
Return(c) == call' = [call EXCEPT ![c] = NoCall]

(***************************************************************************)
(* The parent's calls: spawn_child and send_message                        *)
(***************************************************************************)
\* A call that does not wait asks for a report before the child can end.
Ask(c, wait) == IF wait THEN UNCHANGED owed ELSE Owe(c)
NewCall(c, pc, op, wait) ==
  call' = [call EXCEPT ![c] = [pc |-> pc, op |-> op, wait |-> wait, by |-> None]]

\* A run has the message: a call that waits goes on to, one that does not returns.
AwaitsOrReturns(c) ==
  IF call[c].wait THEN GoTo(c, "await") /\ UNCHANGED promises
  ELSE Return(c) /\ Promise(c, NextEnd(c))

BeginSpawn(c, wait) ==
  /\ parent = "live" /\ child[c] = "absent"
  /\ Spend("calls", MaxCalls)
  /\ child' = [child EXCEPT ![c] = "made"]
  /\ NewCall(c, "dispatch", "spawn", wait)
  /\ Ask(c, wait)
  /\ UNCHANGED <<waiting, ended, tasks, inbox, parentRun, wakes, reports, promises>>

BeginMessage(c, wait) ==
  /\ parent = "live" /\ call[c].pc = "none"
  /\ child[c] \in {"idle", "live", "killed"}
  /\ Spend("calls", MaxCalls)
  /\ NewCall(c, "deliver", "message", wait)
  /\ Ask(c, wait)
  /\ UNCHANGED <<kids, tasks, inbox, parentRun, wakes, reports, promises>>

\* A live run reads the message; else a run is dispatched for it.
Deliver(c) ==
  /\ call[c].pc = "deliver"
  /\ IF child[c] # "live" THEN GoTo(c, "dispatch") /\ UNCHANGED promises
     ELSE AwaitsOrReturns(c)
  /\ UNCHANGED <<kids, owed, tasks, inbox, parentRun, wakes, bounds, reports>>

Launched(c) ==
  /\ call[c].pc = "dispatch" /\ child[c] # "live"
  /\ child' = [child EXCEPT ![c] = "live"]
  /\ AwaitsOrReturns(c)
  /\ UNCHANGED <<waiting, ended, owed, tasks, inbox, parentRun, wakes, bounds, reports>>

Queued(c) ==
  /\ call[c].pc = "dispatch"
  /\ waiting' = [waiting EXCEPT ![c] = @ + 1]
  /\ child' = [child EXCEPT ![c] = IF @ = "live" THEN @ ELSE "idle"]
  /\ GoTo(c, "ask")
  /\ UNCHANGED <<ended, owed, tasks, inbox, parentRun, wakes, bounds, reports, promises>>

\* Who finds its child queued does not wait: it asks for a report, now, and is
\* promised one.  If the queued run has ended by then, the promise is broken.
AskQueued(c) ==
  LET k == IF AtRest(c) THEN ended[c] ELSE LastEnd(c)
      late == AtRest(c) /\ ~ WillWrite(c)
  IN
  /\ call[c].pc = "ask"
  /\ Owe(c)
  /\ Pledge(c, k, late)
  /\ Return(c)
  /\ UNCHANGED <<kids, tasks, inbox, parentRun, wakes, bounds, reports>>

\* No slot and no queueing, or the launch fails; for a message, the child may
\* have been started by another meanwhile.  A message that found no slot leaves
\* its report asked for.  One that takes it back takes what earlier calls asked
\* for with it.
NotStarted(c) ==
  LET op == call[c].op IN
  /\ call[c].pc = "dispatch"
  /\ \E why \in Faults \cup {"lost"} :
       /\ why = "lost" <=> child[c] = "live"
       /\ LET kept == op = "message" /\ (why = "busy" \/ call[c].wait) IN
          /\ owed' = [owed EXCEPT ![c] = @ /\ kept]
          /\ Break(c, IF kept THEN {} ELSE {k \in asked[c] : ~ OnItsWay(c, k)})
  /\ child' = [child EXCEPT ![c] = IF @ \in {"made", "killed"} THEN "idle" ELSE @]
  /\ Return(c)
  /\ UNCHANGED <<waiting, ended, tasks, inbox, parentRun, wakes, bounds, reports>>

\* await_settled sees the child at rest.
Answered(c) ==
  /\ call[c].pc = "await" /\ AtRest(c)
  /\ Return(c)
  /\ UNCHANGED <<kids, owed, tasks, inbox, parentRun, wakes, bounds, reports, promises>>

\* It gave up (HARNESS_WAIT_SECS); the child may end at this moment.
TimesOut(c) ==
  /\ call[c].pc = "await"
  /\ GoTo(c, "later")
  /\ UNCHANGED <<kids, owed, tasks, inbox, parentRun, wakes, bounds, reports, promises>>

\* report_later: asks for a report, then looks whether the child still runs ...
AskLater(c) ==
  /\ call[c].pc = "later"
  /\ Owe(c)
  /\ call' = [call EXCEPT ![c] = [@ EXCEPT !.pc = "look", !.by = None]]
  /\ UNCHANGED <<kids, tasks, inbox, parentRun, wakes, bounds, reports, promises>>

PromiseLater(c) == Promise(c, IF AtRest(c) THEN ended[c] ELSE NextEnd(c))

\* Broken: nobody looks.
LookAway(c) ==
  /\ call[c].pc = "look"
  /\ PromiseLater(c)
  /\ Return(c)
  /\ UNCHANGED <<kids, owed, tasks, inbox, parentRun, wakes, bounds, reports>>

Report(c, n, stopped) ==
  [child |-> c, n |-> n, stopped |-> stopped, tells |-> 0, pc |-> "ended",
   dead |-> FALSE, at |-> 0]

\* ... and reports itself if it does not.
Look(c) ==
  /\ call[c].pc = "look"
  /\ tasks' = IF AtRest(c) THEN tasks \cup {Report(c, 0, FALSE)} ELSE tasks
  /\ PromiseLater(c)
  /\ Return(c)
  /\ UNCHANGED <<kids, owed, inbox, parentRun, wakes, bounds, reports>>

(***************************************************************************)
(* The children's runs                                                     *)
(***************************************************************************)
PumpStarts(c) ==
  /\ waiting[c] > 0 /\ child[c] # "live"
  /\ waiting' = [waiting EXCEPT ![c] = @ - 1]
  /\ child' = [child EXCEPT ![c] = "live"]
  /\ UNCHANGED <<ended, owed, call, tasks, inbox, parentRun, wakes, bounds, reports, promises>>

\* The launch of a queued run fails: nobody reports it, who asked hears nothing.
PumpFails(c) ==
  /\ "fails" \in Faults
  /\ waiting[c] > 0 /\ child[c] # "live"
  /\ waiting' = [waiting EXCEPT ![c] = @ - 1]
  /\ child' = [child EXCEPT ![c] = "idle"]
  /\ ended' = [ended EXCEPT ![c] = @ + 1]
  /\ Break(c, asked[c] \cap {NextEnd(c)})
  /\ UNCHANGED <<owed, call, tasks, inbox, parentRun, wakes, bounds, reports>>

\* RunEnd::drop leaves a task that reports, once the outcome is recorded.
RunEnds(c) ==
  /\ child[c] = "live"
  /\ child' = [child EXCEPT ![c] = "idle"]
  /\ ended' = [ended EXCEPT ![c] = @ + 1]
  /\ tasks' = tasks \cup {Report(c, NextEnd(c), FALSE)}
  /\ UNCHANGED <<waiting, owed, call, inbox, parentRun, wakes, bounds, reports, promises>>

\* Somebody stops the child: a run that was stopped reports too, a queued one is
\* only forgotten, and with it the promise of its end.
KillChild(c) ==
  /\ child[c] \in {"live", "idle", "made"} /\ Spend("stops", MaxStops)
  /\ child' = [child EXCEPT ![c] = "killed"]
  /\ waiting' = [waiting EXCEPT ![c] = 0]
  /\ IF child[c] = "live"
       THEN /\ ended' = [ended EXCEPT ![c] = @ + 1]
            /\ tasks' = tasks \cup {Report(c, NextEnd(c), TRUE)}
       ELSE UNCHANGED <<ended, tasks>>
  /\ asked' = [asked EXCEPT ![c] = {k \in @ : k <= ended'[c]}]
  /\ UNCHANGED <<owed, call, inbox, parentRun, wakes, reports, told, broken>>

(***************************************************************************)
(* A report: report_to_parent                                              *)
(***************************************************************************)
Move(t, u) == tasks' = (tasks \ {t}) \cup {u}

\* A call that has asked and not returned.
HasAsked(c) ==
  \/ call[c].pc \in {"deliver", "dispatch"} /\ ~ call[c].wait
  \/ call[c].pc = "look"

\* take_report_to, the status of the parent is read, and what the child came to.
\* Whoever asked for a later end is not told of it: report_to has no number.
Take(t) ==
  LET c == t.child IN
  /\ t \in tasks /\ t.pc = "ended"
  /\ owed' = [owed EXCEPT ![c] = FALSE]
  /\ IF owed[c]
       THEN /\ Move(t, [t EXCEPT !.pc = "deliver", !.tells = ended[c],
                                !.dead = parent = "killed"])
            /\ call' = [call EXCEPT ![c] = IF HasAsked(c) THEN [@ EXCEPT !.by = ended[c]]
                                           ELSE @]
            /\ Break(c, {k \in asked[c] : k > ended[c]})
       ELSE tasks' = tasks \ {t} /\ UNCHANGED <<call, promises>>
  /\ UNCHANGED <<kids, inbox, parentRun, wakes, bounds, reports>>

\* A run is there; one that compacts reads nothing.
Runs == parent \in {"live", "compacts"}

\* Under the handles lock: the report is appended, and a live run will read it.
\* A child that was stopped wakes nobody, nor is a parent woken that was.
Hand(t) ==
  LET quiet == t.stopped \/ t.dead
      c == t.child
  IN
  /\ t \in tasks /\ t.pc = "deliver"
  /\ inbox' = inbox + 1
  /\ IF quiet \/ Runs THEN tasks' = tasks \ {t}
     ELSE Move(t, [t EXCEPT !.pc = "allow", !.tells = 0, !.at = inbox])
  /\ due' = IF quiet \/ parent = "killed" THEN due ELSE due \cup {inbox + 1}
  /\ passed' = IF parent = "compacts" THEN passed \cup {inbox + 1} ELSE passed
  /\ told' = [told EXCEPT ![c] = IF t.tells > @ THEN t.tells ELSE @]
  /\ asked' = [asked EXCEPT ![c] = {k \in @ : k > t.tells}]
  /\ UNCHANGED <<kids, owed, call, parentRun, wakes, bounds, broken>>

\* WakeState::allow.  Past the cap the parent is told that it is not woken.
MayWake == woken < WakesPerHour

Allow(t) ==
  /\ t \in tasks /\ t.pc = "allow"
  /\ IF MayWake THEN Move(t, [t EXCEPT !.pc = "pend"]) /\ UNCHANGED due
     ELSE tasks' = tasks \ {t} /\ due' = {}
  /\ UNCHANGED <<kids, owed, call, inbox, parentRun, wakes, bounds, passed, promises>>

\* Broken: the later report says where the wake starts to read.
PendLatest(t) ==
  /\ t \in tasks /\ t.pc = "pend"
  /\ tasks' = tasks \ {t}
  /\ pending' = t.at
  /\ timers' = IF pending = None THEN timers + 1 ELSE timers
  /\ UNCHANGED <<kids, owed, call, inbox, parentRun, wake, woken, bounds, reports, promises>>

\* The first report starts a timer; one that comes before it goes off joins it.
Pend(t) ==
  /\ t \in tasks /\ t.pc = "pend"
  /\ tasks' = tasks \ {t}
  /\ IF pending = None THEN pending' = t.at /\ timers' = timers + 1
     ELSE /\ pending' = IF t.at < pending THEN t.at ELSE pending
          /\ UNCHANGED timers
  /\ UNCHANGED <<kids, owed, call, inbox, parentRun, wake, woken, bounds, reports, promises>>

(***************************************************************************)
(* The parent's runs                                                       *)
(***************************************************************************)
PassOver == passed' = passed \cup due

\* first_input: from the read mark, or from where the wake says; a run that has
\* neither reads nothing, and passes over what is due.
Start(from) ==
  LET lo == IF mark # None THEN mark ELSE from IN
  /\ parent' = "live"
  /\ seen' = inbox
  /\ IF lo = None THEN PassOver /\ UNCHANGED <<mark, due>>
     ELSE mark' = inbox /\ due' = due \ (lo + 1)..inbox /\ UNCHANGED passed

\* A compaction has a turn of its own: it reads nothing, whatever the mark.
StartCompaction ==
  /\ parent' = "compacts"
  /\ PassOver
  /\ UNCHANGED <<seen, mark, due>>

\* A person sends, or has the conversation compacted: refused while it runs or is
\* queued.
Send ==
  /\ ~ Runs /\ queue = << >> /\ Spend("sends", MaxSends)
  /\ \/ (Start(None) \/ StartCompaction) /\ UNCHANGED queue
     \/ /\ queue' = Append(queue, None)
        /\ parent' = "idle"
        /\ UNCHANGED <<mark, seen, reports>>
  /\ UNCHANGED <<kids, owed, call, tasks, inbox, wakes, promises>>

PumpStartsParent ==
  /\ queue # << >> /\ ~ Runs
  /\ Start(Head(queue)) \/ (Head(queue) = None /\ StartCompaction)
  /\ queue' = Tail(queue)
  /\ UNCHANGED <<kids, owed, call, tasks, inbox, wakes, bounds, promises>>

\* The launch of the queued run fails, and is not tried again.
PumpFailsParent ==
  /\ "fails" \in Faults
  /\ queue # << >> /\ ~ Runs
  /\ parent' = "idle" /\ queue' = Tail(queue) /\ due' = {}
  /\ UNCHANGED <<kids, owed, call, tasks, inbox, mark, seen, wakes, bounds, passed, promises>>

CompactionEnds ==
  /\ parent = "compacts"
  /\ parent' = "idle"
  /\ UNCHANGED <<kids, owed, call, tasks, inbox, queue, mark, seen, wakes, bounds, reports, promises>>

\* After a turn: new reports are the next turn's input; with none the run ends.
ParentLooks ==
  /\ parent = "live"
  /\ mark' = inbox /\ seen' = inbox
  /\ due' = due \ (seen + 1)..inbox
  /\ parent' = IF seen < inbox THEN "live" ELSE "idle"
  /\ UNCHANGED <<kids, owed, call, tasks, inbox, queue, wakes, bounds, passed, promises>>

\* The run is left with reports unread: it fails, is paused or is at its turn cap.
\* No wake is due for those.
ParentFails ==
  /\ parent = "live" /\ Spend("stops", MaxStops)
  /\ parent' = "idle"
  /\ \/ UNCHANGED mark
     \/ seen < inbox /\ mark' = seen
  /\ due' = {}
  /\ UNCHANGED <<kids, owed, call, tasks, inbox, queue, seen, wakes, passed, promises>>

\* What a call about c waits for: an answer, or the lock under which it delivers
\* the report that it found itself due.
Waits(c) == call[c].pc \in {"deliver", "dispatch", "await", "look"}
OwnReport(t) == t.n = 0 /\ t.pc = "deliver"

\* Somebody stops the parent: with its run, the calls that wait are dropped, and
\* nobody was told anything.
StopParent ==
  /\ Spend("stops", MaxStops)
  /\ parent' = "killed" /\ queue' = << >> /\ due' = {}
  /\ \E D \in SUBSET {c \in Child : Waits(c) \/ \E t \in tasks : t.child = c /\ OwnReport(t)} :
       /\ D # {} => parent = "live"
       /\ call' = [c \in Child |-> IF c \in D /\ Waits(c) THEN NoCall ELSE call[c]]
       /\ tasks' = {t \in tasks : ~ (t.child \in D /\ OwnReport(t))}
       /\ broken' = [c \in Child |-> broken[c] \cup
                       {k \in asked[c] : \E t \in tasks \ tasks' : t.child = c /\ k <= t.tells}]
  /\ UNCHANGED <<kids, owed, inbox, mark, seen, wakes, passed, asked, told>>

(***************************************************************************)
(* A wake                                                                  *)
(***************************************************************************)
\* Broken: the timer goes off and the wake stays pending.
FireAgain ==
  /\ timers > 0
  /\ wake = None /\ \A t \in tasks : t.pc \notin {"allow", "pend"}
  /\ timers' = timers - 1
  /\ wake' = [pc |-> "look", from |-> pending]
  /\ UNCHANGED <<kids, owed, call, tasks, inbox, parentRun, pending, woken, bounds, reports, promises>>

\* DEBOUNCE is over.  It is longer than what a report does after its delivery,
\* and than a wake before its run is dispatched: neither waits for anything.
Fire ==
  /\ timers > 0
  /\ wake = None /\ \A t \in tasks : t.pc \notin {"allow", "pend"}
  /\ timers' = timers - 1
  /\ pending' = None
  /\ wake' = IF pending = None THEN None ELSE [pc |-> "look", from |-> pending]
  /\ UNCHANGED <<kids, owed, call, tasks, inbox, parentRun, woken, bounds, reports, promises>>

\* The run that is queued next has no read mark and no word where to start.
BlindNext == ~ Runs /\ queue # << >> /\ mark = None /\ Head(queue) = None

\* A parent that runs, is queued or was stopped is not woken, though a queued run
\* may be one that will read nothing.
WakeLooks ==
  /\ wake # None /\ wake.pc = "look"
  /\ wake' = IF parent = "idle" /\ queue = << >> THEN [wake EXCEPT !.pc = "allow"]
             ELSE None
  /\ IF BlindNext THEN PassOver ELSE UNCHANGED passed
  /\ UNCHANGED <<kids, owed, call, tasks, inbox, parentRun, pending, timers, woken, bounds, due, promises>>

\* The cap may have been reached since the report.
WakeAllowed ==
  /\ wake # None /\ wake.pc = "allow"
  /\ IF MayWake THEN wake' = [wake EXCEPT !.pc = "count"] /\ UNCHANGED due
     ELSE wake' = None /\ due' = {}
  /\ UNCHANGED <<kids, owed, call, tasks, inbox, parentRun, pending, timers, woken, bounds, passed, promises>>

WakeCounts ==
  /\ wake # None /\ wake.pc = "count"
  /\ wake' = [wake EXCEPT !.pc = "dispatch"]
  /\ woken' = woken + 1
  /\ UNCHANGED <<kids, owed, call, tasks, inbox, parentRun, pending, timers, bounds, reports, promises>>

\* The run is launched or queued, whatever became of the parent; a run that is
\* live by now reads its inbox itself.  A launch that fails, or finds no slot and
\* no queueing, is not tried again.
WakeDispatches ==
  /\ wake # None /\ wake.pc = "dispatch"
  /\ wake' = None
  /\ \/ ~ Runs /\ Start(wake.from) /\ UNCHANGED queue
     \/ /\ queue' = Append(queue, wake.from)
        /\ parent' = IF Runs THEN parent ELSE "idle"
        /\ IF BlindNext THEN PassOver ELSE UNCHANGED passed
        /\ UNCHANGED <<mark, seen, due>>
     \/ Runs /\ UNCHANGED <<parentRun, reports>>
     \/ Faults # {} /\ due' = {} /\ UNCHANGED <<parentRun, passed>>
  /\ UNCHANGED <<kids, owed, call, tasks, inbox, pending, timers, woken, bounds, promises>>

\* An hour after some of them, wakes count no more.
HourPasses ==
  /\ woken > 0 /\ Spend("hours", MaxHours)
  /\ woken' \in 0..(woken - 1)
  /\ UNCHANGED <<kids, owed, call, tasks, inbox, parentRun, pending, timers, wake, reports, promises>>

\* The program stops and starts again: what it held in memory is gone, run.json
\* keeps one queued run and the reports asked for.
Crash ==
  /\ Spend("stops", MaxStops)
  /\ child' = [c \in Child |-> IF child[c] \in {"live", "made"} THEN "idle" ELSE child[c]]
  /\ waiting' = [c \in Child |-> IF waiting[c] > 0 THEN 1 ELSE 0]
  /\ asked' = [c \in Child |->
       IF owed[c] /\ waiting[c] > 0 /\ asked[c] \ broken[c] # {} THEN {NextEnd(c)} ELSE {}]
  /\ broken' = [c \in Child |-> {}]
  /\ call' = [c \in Child |-> NoCall]
  /\ tasks' = {}
  /\ parent' = IF Runs THEN "idle" ELSE parent
  /\ queue' = IF queue = << >> THEN << >> ELSE <<queue[Len(queue)]>>
  /\ mark' = None
  /\ pending' = None /\ timers' = 0 /\ wake' = None /\ woken' = 0
  /\ due' = {}
  /\ UNCHANGED <<ended, owed, told, inbox, seen, passed>>

(***************************************************************************)
(* The specification                                                       *)
(***************************************************************************)
CallStep(c) ==
  \/ Deliver(c) \/ Launched(c) \/ Queued(c) \/ AskQueued(c) \/ NotStarted(c)
  \/ Answered(c) \/ TimesOut(c) \/ AskLater(c) \/ Look(c)

ReportStep == \E t \in tasks : Take(t) \/ Hand(t) \/ Allow(t) \/ Pend(t)

WakeStep == Fire \/ WakeLooks \/ WakeAllowed \/ WakeCounts \/ WakeDispatches

Next ==
  \/ \E c \in Child :
       \/ \E wait \in BOOLEAN : BeginSpawn(c, wait) \/ BeginMessage(c, wait)
       \/ CallStep(c) \/ PumpStarts(c) \/ PumpFails(c) \/ RunEnds(c) \/ KillChild(c)
  \/ ReportStep
  \/ Send \/ PumpStartsParent \/ PumpFailsParent \/ CompactionEnds
  \/ ParentLooks \/ ParentFails \/ StopParent
  \/ WakeStep \/ HourPasses
  \/ Crash

Spec == Init /\ [][Next]_vars

(***************************************************************************)
(* Properties                                                              *)
(***************************************************************************)
\* A wake is pending exactly as long as one timer is there to see to it.
PendingHasTimer == timers = IF pending = None THEN 0 ELSE 1

\* The parent is woken at most WAKES_PER_HOUR times an hour, though a report and
\* its wake look at the count at different moments.
CapIsKept == woken <= WakesPerHour

\* A run that starts with this read mark reads report n.
Reads(from, n) == IF mark # None THEN mark < n ELSE from # None /\ from < n

InHand(n) ==
  \/ parent = "live" /\ seen < n
  \/ \E t \in tasks : t.pc \in {"allow", "pend"} /\ Reads(t.at, n)
  \/ pending # None /\ Reads(pending, n)
  \/ wake # None /\ Reads(wake.from, n)
  \/ queue # << >> /\ Reads(Head(queue), n)

\* Every report that a wake or a run is due for is in somebody's hands, who will
\* start to read no later than it: no report falls between the end of a run, the
\* timer and the wake.  Two runs read nothing, the first of the program that a
\* person starts and a compaction: what they pass over, or what is not woken for
\* because they are queued, is the exception.
DueIsInHand == \A n \in due \ passed : InHand(n)

\* What a call was promised to hear of, it will hear of, whether it went on at
\* once, found the child queued or gave up waiting for it at the very moment the
\* child ended: of an end that came, a report is on its way or asked for with
\* somebody to write it; for one that is yet to come, a report is asked for and
\* there is a run to come to it.  The code breaks a promise in five ways, which
\* are the exception: the report of an older run takes what was asked for a newer
\* one; a message that is not started takes it back; a queued run fails to start,
\* or has ended before the call that queued it asks; a call is dropped with the
\* report it was about to deliver.
PromiseIsInHand ==
  \A c \in Child : \A k \in asked[c] \ broken[c] :
    \/ OnItsWay(c, k)
    \/ /\ owed[c]
       /\ IF k <= ended[c] THEN WillWrite(c) ELSE k <= LastEnd(c)
=============================================================================
