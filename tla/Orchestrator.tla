---------------------------- MODULE Orchestrator ----------------------------
(***************************************************************************)
(* How parzi-runtime starts, queues, messages, stops and restarts the runs *)
(* of its sessions: orchestrator/{mod,launch,queue,harness}.rs and the     *)
(* control of run.rs.  At most one run works on a session; a session that  *)
(* finds no slot waits in a queue the pump drains; a message to a session  *)
(* is a line of its transcript which the live run, or the next one, hands  *)
(* to the agent.                                                           *)
(*                                                                         *)
(* A thread is a task that calls the orchestrator (a Caller: the desk, the *)
(* daemon, a tool call of an agent) or the one pump task.  Every section   *)
(* under the handles lock, and every access to the queue, to meta.json and *)
(* to run.json that another task can come between, is an action.           *)
(***************************************************************************)
EXTENDS Integers, Sequences, FiniteSets

CONSTANTS
  Session,        \* session ids
  Existing,       \* the sessions on disk at the start
  RunId,          \* run ids; an id is used again once nothing holds it
  Caller, Pump,   \* the threads
  None,           \* no value
  MaxLive,        \* orchestrator.max_concurrent
  QueueWhenBusy,  \* orchestrator.queue_when_busy
  MaxTurns,       \* MAX_TURNS of run.rs
  Ops,            \* the calls made: see Next
  Outcomes,       \* how a turn may end other than completed
  Faults,         \* the faults that may happen
  MaxOps,         \* bound: the calls of one behaviour
  MaxCrashes      \* bound: the crashes of one behaviour

AllOps == {"send", "compact", "spawn", "child", "message", "kill"}
AllOutcomes == {"interrupted", "closed", "paused", "failed"}
AllFaults == {"launch_fails", "run_dies", "abort", "budget", "crash", "drop"}

ASSUME ExistingAssumption == Existing \subseteq Session
ASSUME ThreadAssumption == Pump \notin Caller
ASSUME NoneAssumption == None \notin Session \cup RunId \cup Caller \cup {Pump} \cup AllOps
ASSUME CountAssumption == None \notin Nat
ASSUME SettingsAssumption ==
  /\ MaxLive \in Nat \ {0}
  /\ QueueWhenBusy \in BOOLEAN
  /\ MaxTurns \in Nat \ {0}
ASSUME ChoiceAssumption ==
  /\ Ops \subseteq AllOps
  /\ Outcomes \subseteq AllOutcomes
  /\ Faults \subseteq AllFaults
ASSUME BoundAssumption == MaxOps \in Nat /\ MaxCrashes \in Nat

Thread == Caller \cup {Pump}

VARIABLES
  \* on disk
  status,    \* meta.json: SessionStatus, or Absent before create
  sidecar,   \* run.json: the queued run of the session, or NoJob
  sent,      \* messages in the transcript
  \* in the process
  handles,   \* the handles map: the run of the session, or None
  queue,     \* the queue of runs: a set of entries [place, job]; only the
             \* order of the places counts
  permit,    \* the permit of the Notify the pump waits on
  mark,      \* the read mark: messages handed out so far, or None
  run,       \* the runs
  \* threads
  pc, job, held, busy, todo,
  \* bounds
  ops, crashes,
  \* history: what was handed, what is owed, what a kill put to rest
  handed, owed, halted

disk == <<status, sidecar, sent>>
slots == <<handles, run>>
waiting == <<queue, permit>>
local == <<job, held, busy, todo>>
bounds == <<ops, crashes>>
history == <<handed, owed, halted>>
vars == <<disk, slots, waiting, mark, pc, local, bounds, history>>

(***************************************************************************)
(* Values                                                                  *)
(***************************************************************************)
Statuses == {"Absent", "Active", "Idle", "Done", "Killed", "Queued"}
Causes == {"send", "compact", "message"}

\* A queued run.  from is its inbox_from, as a count of messages: the run was
\* asked for by message from + 1.
Job == [sid : Session, cause : Causes, from : Nat \cup {None}]
NoJob == [sid |-> None, cause |-> None, from |-> None]

FromPerson(cause) == cause = "send"

\* A run.  seen: messages in the transcript it knows of; lo, hi: the messages
\* lo + 1 .. hi are the input of its turn; want: the status it settles for.
NoRun == [sid |-> None, phase |-> "none", cause |-> None, from |-> None,
          seen |-> 0, lo |-> 0, hi |-> 0, turns |-> 0, want |-> "Absent",
          attached |-> FALSE, cancelled |-> FALSE, done |-> FALSE]

ClaimedRun(j, n) ==
  [NoRun EXCEPT !.sid = j.sid, !.phase = "claimed", !.cause = j.cause,
                !.from = j.from, !.seen = n]

Working == {"spawned", "ready", "turn", "looking", "settling"}
TaskOver == {"over", "repair", "repairing", "notify"}
Phases == {"none", "claimed"} \cup Working \cup TaskOver

CallPcs == {"check", "checkActive", "count", "queueing", "persist", "push",
            "create", "createFull", "unstaff"}
LaunchPcs == {"launch", "claim", "start", "attach", "failed"}
KillPcs == {"killwait", "killfree", "killqueue", "killclear", "killmark"}
PumpPcs == {"sleep", "scan", "pop", "popped", "recover", "recovering"}
Pcs == {"idle"} \cup CallPcs \cup LaunchPcs \cup KillPcs \cup PumpPcs

Runs == [sid : Session \cup {None}, phase : Phases, cause : Causes \cup {None},
         from : Nat \cup {None}, seen : Nat, lo : Nat, hi : Nat, turns : Nat,
         want : Statuses, attached : BOOLEAN, cancelled : BOOLEAN,
         done : BOOLEAN]

DiskTypes ==
  /\ status \in [Session -> Statuses]
  /\ sidecar \in [Session -> Job \cup {NoJob}]
  /\ sent \in [Session -> Nat]

SlotTypes ==
  /\ handles \in [Session -> RunId \cup {None}]
  /\ run \in [RunId -> Runs]

WaitTypes ==
  /\ \A e \in queue : e.job \in Job
  /\ permit \in BOOLEAN
  /\ mark \in [Session -> Nat \cup {None}]

ThreadTypes ==
  /\ pc \in [Thread -> Pcs]
  /\ job \in [Thread -> [sid : Session \cup {None}, cause : Causes \cup {None},
                         from : Nat \cup {None}]]
  /\ held \in [Thread -> RunId \cup {None}]
  /\ busy \subseteq Session
  /\ todo \subseteq Session

OtherTypes ==
  /\ ops \in 0..MaxOps
  /\ crashes \in 0..MaxCrashes
  /\ handed \in [Session -> Seq(Nat)]
  /\ owed \in [Session -> SUBSET Nat]
  /\ halted \in [Session -> BOOLEAN]

TypeOK == DiskTypes /\ SlotTypes /\ WaitTypes /\ ThreadTypes /\ OtherTypes

Init ==
  /\ status = [s \in Session |-> IF s \in Existing THEN "Idle" ELSE "Absent"]
  /\ sidecar = [s \in Session |-> NoJob]
  /\ sent = [s \in Session |-> 0]
  /\ handles = [s \in Session |-> None]
  /\ queue = {} /\ permit = FALSE
  /\ mark = [s \in Session |-> None]
  /\ run = [r \in RunId |-> NoRun]
  /\ pc = [t \in Thread |-> IF t = Pump THEN "recover" ELSE "idle"]
  /\ job = [t \in Thread |-> NoJob] /\ held = [t \in Thread |-> None]
  /\ busy = {} /\ todo = {}
  /\ ops = 0 /\ crashes = 0
  /\ handed = [s \in Session |-> << >>]
  /\ owed = [s \in Session |-> {}]
  /\ halted = [s \in Session |-> FALSE]

(***************************************************************************)
(* Helpers                                                                 *)
(***************************************************************************)
\* The handle of s belongs to a run whose task is known and has returned.
Finished(s) ==
  /\ handles[s] # None
  /\ run[handles[s]].attached
  /\ run[handles[s]].phase \in TaskOver

\* handles after retain(|_, handle| !handle.finished()).
Reaped == [s \in Session |-> IF Finished(s) THEN None ELSE handles[s]]

Live(h) == {s \in Session : h[s] # None}
\* Broken: off by one.
FullPastMax(h) == Cardinality(Live(h)) > MaxLive

Full(h) == Cardinality(Live(h)) >= MaxLive

\* Broken: the slot is given up whoever holds it.
FreedAnyhow(s, r) == [handles EXCEPT ![s] = None]

\* Broken: the comparison of the ids is inverted.
FreedOthers(s, r) == IF handles[s] # r THEN [handles EXCEPT ![s] = None] ELSE handles

\* handles after run r gives up the slot of s: only its own.
Freed(s, r) == IF handles[s] = r THEN [handles EXCEPT ![s] = None] ELSE handles

\* push_back: behind every entry there is.
PushBack(j) ==
  LET places == {e.place : e \in queue}
      back == IF places = {} THEN 0
              ELSE CHOOSE n \in places : \A m \in places : m <= n
  IN queue' = queue \cup {[place |-> back + 1, job |-> j]}

FreshRun(r) ==
  /\ run[r].phase = "none"
  /\ \A s \in Session : handles[s] # r
  /\ \A t \in Thread : held[t] # r

Goto(t, p) == pc' = [pc EXCEPT ![t] = p]

\* The thread has its answer: a caller returns, the pump loops.
Finish(t) ==
  /\ Goto(t, IF t = Pump THEN "scan" ELSE "idle")
  /\ job' = [job EXCEPT ![t] = NoJob]
  /\ held' = [held EXCEPT ![t] = None]
  /\ UNCHANGED <<busy, todo>>

\* A caller of ours asks for something: bounded by MaxOps.
Calls(op) == op \in Ops /\ ops < MaxOps /\ ops' = ops + 1 /\ UNCHANGED crashes

SetStatus(s, st) == status' = [status EXCEPT ![s] = st]
Move(r, p) == run' = [run EXCEPT ![r] = [@ EXCEPT !.phase = p]]
Awake(s) == halted' = [halted EXCEPT ![s] = FALSE] /\ UNCHANGED <<handed, owed>>

\* The run r is over without a last look: what its session was told it would
\* read is owed no longer.
Forgive(s, r) ==
  /\ owed' = IF handles[s] = r THEN [owed EXCEPT ![s] = {}] ELSE owed
  /\ UNCHANGED <<handed, halted>>

(***************************************************************************)
(* Calls: send_as and compact, spawn_as, spawn_child, send_message         *)
(***************************************************************************)
\* send_as reads the session.  busy remembers nothing for a caller: that the
\* session read Active is kept in the control state.
BeginSend(t, s, op) ==
  /\ op \in {"send", "compact"} /\ Calls(op)
  /\ pc[t] = "idle" /\ t \in Caller
  /\ status[s] # "Absent"
  /\ ~ (FromPerson(op) /\ status[s] = "Queued")
  /\ Goto(t, IF status[s] = "Active" THEN "checkActive" ELSE "check")
  /\ job' = [job EXCEPT ![t] = [sid |-> s, cause |-> op, from |-> None]]
  /\ Awake(s)
  /\ UNCHANGED <<disk, slots, waiting, mark, held, busy, todo>>

\* A live run refuses the send; Active with no handle behind it is reset.
SendCheck(t) ==
  LET s == job[t].sid IN
  /\ pc[t] \in {"check", "checkActive"}
  /\ handles' = Reaped
  /\ IF Reaped[s] # None
       THEN Finish(t) /\ UNCHANGED status
       ELSE /\ IF pc[t] = "checkActive" THEN SetStatus(s, "Idle")
                                        ELSE UNCHANGED status
            /\ Goto(t, "count")
            /\ UNCHANGED local
  /\ UNCHANGED <<sidecar, sent, run, waiting, mark, bounds, history>>

\* The last part of send_as, and dispatch: launch if a slot is free.
Count(t) ==
  /\ pc[t] = "count"
  /\ handles' = Reaped
  /\ IF ~ Full(Reaped) THEN Goto(t, "launch") /\ UNCHANGED local
     ELSE IF QueueWhenBusy THEN Goto(t, "queueing") /\ UNCHANGED local
     ELSE IF job[t].cause = "message" /\ job[t].from = None
            THEN Goto(t, "unstaff") /\ UNCHANGED local
            ELSE Finish(t)
  /\ UNCHANGED <<disk, run, waiting, mark, bounds, history>>

\* Broken: the session is left as create wrote it.
UnstaffLeaves(t) ==
  /\ pc[t] = "unstaff"
  /\ Finish(t)
  /\ UNCHANGED <<disk, slots, waiting, mark, bounds, history>>

\* spawn_child found no slot and may not queue: its session is put back.
Unstaff(t) ==
  /\ pc[t] = "unstaff"
  /\ SetStatus(job[t].sid, "Idle")
  /\ Finish(t)
  /\ UNCHANGED <<sidecar, sent, slots, waiting, mark, bounds, history>>

\* spawn_as counts the live runs before it creates the session.
BeginSpawn(t) ==
  /\ Calls("spawn")
  /\ pc[t] = "idle" /\ t \in Caller
  /\ handles' = Reaped
  /\ Goto(t, IF Full(Reaped) THEN "createFull" ELSE "create")
  /\ UNCHANGED <<disk, run, waiting, mark, local, history>>

\* create writes the session Active; with no slot and no queue it is left so.
Create(t, s) ==
  /\ pc[t] \in {"create", "createFull"}
  /\ status[s] = "Absent"
  /\ SetStatus(s, "Active")
  /\ IF pc[t] = "createFull" /\ ~ QueueWhenBusy
       THEN Finish(t)
       ELSE /\ Goto(t, IF pc[t] = "create" THEN "launch" ELSE "queueing")
            /\ job' = [job EXCEPT ![t] =
                         [sid |-> s, cause |-> "send", from |-> None]]
            /\ UNCHANGED <<held, busy, todo>>
  /\ UNCHANGED <<sidecar, sent, slots, waiting, mark, bounds, history>>

\* spawn_child creates the session, then dispatches.
BeginChild(t, s) ==
  /\ Calls("child")
  /\ pc[t] = "idle" /\ t \in Caller
  /\ status[s] = "Absent"
  /\ SetStatus(s, "Active")
  /\ Goto(t, "count")
  /\ job' = [job EXCEPT ![t] = [sid |-> s, cause |-> "message", from |-> None]]
  /\ UNCHANGED <<sidecar, sent, slots, waiting, mark, held, busy, todo, history>>

\* send_message writes the message and looks for a live run in one section
\* under the handles lock.  A live run is left to read it.
Deliver(t, s) ==
  /\ Calls("message")
  /\ pc[t] = "idle" /\ t \in Caller
  /\ status[s] # "Absent"
  /\ handles' = Reaped
  /\ sent' = [sent EXCEPT ![s] = @ + 1]
  /\ halted' = [halted EXCEPT ![s] = FALSE]
  /\ IF Reaped[s] # None
       THEN /\ owed' = [owed EXCEPT ![s] = @ \cup {sent[s] + 1}]
            /\ UNCHANGED <<pc, job>>
       ELSE /\ Goto(t, "count")
            /\ job' = [job EXCEPT ![t] =
                         [sid |-> s, cause |-> "message", from |-> sent[s]]]
            /\ UNCHANGED owed
  /\ UNCHANGED <<status, sidecar, run, waiting, mark, held, busy, todo, handed>>

(***************************************************************************)
(* enqueue: the status, the copy on disk, then the queue and the pump      *)
(***************************************************************************)
MarkQueued(t) ==
  /\ pc[t] = "queueing"
  /\ SetStatus(job[t].sid, "Queued")
  /\ Goto(t, "persist")
  /\ UNCHANGED <<sidecar, sent, slots, waiting, mark, local, bounds, history>>

Persist(t) ==
  /\ pc[t] = "persist"
  /\ sidecar' = [sidecar EXCEPT ![job[t].sid] = job[t]]
  /\ Goto(t, "push")
  /\ UNCHANGED <<status, sent, slots, waiting, mark, local, bounds, history>>

Push(t) ==
  /\ pc[t] = "push"
  /\ PushBack(job[t])
  /\ permit' = TRUE
  /\ Finish(t)
  /\ UNCHANGED <<disk, slots, mark, bounds, history>>

(***************************************************************************)
(* launch                                                                  *)
(***************************************************************************)
LaunchClear(t) ==
  /\ pc[t] = "launch"
  /\ sidecar' = [sidecar EXCEPT ![job[t].sid] = NoJob]
  /\ Goto(t, "claim")
  /\ UNCHANGED <<status, sent, slots, waiting, mark, local, bounds, history>>

\* The claim: the handle of the session is taken under one lock.
Claim(t, r) ==
  LET s == job[t].sid IN
  /\ pc[t] = "claim"
  /\ Reaped[s] = None
  /\ FreshRun(r)
  /\ handles' = [Reaped EXCEPT ![s] = r]
  /\ run' = [run EXCEPT ![r] = ClaimedRun(job[t], sent[s])]
  /\ held' = [held EXCEPT ![t] = r]
  /\ Goto(t, "start")
  /\ UNCHANGED <<disk, waiting, mark, job, busy, todo, bounds, history>>

\* The claim lost to another run of the session: a person's send is refused, a
\* run that is no message is queued, a message is an error.
LoseClaim(t) ==
  LET j == job[t] IN
  /\ pc[t] = "claim"
  /\ Reaped[j.sid] # None
  /\ handles' = Reaped
  /\ IF ~ FromPerson(j.cause) /\ j.from = None /\ QueueWhenBusy
       THEN Goto(t, "persist") /\ UNCHANGED local
       ELSE Finish(t)
  /\ UNCHANGED <<disk, run, waiting, mark, bounds, history>>

\* launch_inner up to tokio::spawn.
LaunchStart(t) ==
  /\ pc[t] = "start"
  /\ SetStatus(job[t].sid, "Active")
  /\ Move(held[t], "spawned")
  /\ Goto(t, "attach")
  /\ UNCHANGED <<sidecar, sent, handles, waiting, mark, local, bounds, history>>

\* The task goes into the handle, if the handle is still this run's.
LaunchAttach(t) ==
  LET s == job[t].sid
      r == held[t] IN
  /\ pc[t] = "attach"
  /\ run' = [run EXCEPT ![r] = [@ EXCEPT !.attached = (handles[s] = r)]]
  /\ Finish(t)
  /\ UNCHANGED <<disk, handles, waiting, mark, bounds, history>>

\* Broken: the handle is left in the map.
LaunchFailsHolding(t) ==
  /\ "launch_fails" \in Faults
  /\ pc[t] = "start"
  /\ run' = [run EXCEPT ![held[t]] = NoRun]
  /\ Goto(t, "failed")
  /\ UNCHANGED <<disk, handles, waiting, mark, local, bounds, history>>

\* launch_inner returned an error, or took longer than LAUNCH_WAIT.
LaunchFails(t) ==
  /\ "launch_fails" \in Faults
  /\ pc[t] = "start"
  /\ handles' = Freed(job[t].sid, held[t])
  /\ run' = [run EXCEPT ![held[t]] = NoRun]
  /\ Goto(t, "failed")
  /\ Forgive(job[t].sid, held[t])
  /\ UNCHANGED <<disk, waiting, mark, local, bounds>>

LaunchFailed(t) ==
  /\ pc[t] = "failed"
  /\ SetStatus(job[t].sid, "Idle")
  /\ Finish(t)
  /\ UNCHANGED <<sidecar, sent, slots, waiting, mark, bounds, history>>

\* A call of an agent is dropped when the agent's run is cancelled, wherever it
\* waits: for a lock, or in launch_inner.
Dropped(t) ==
  /\ "drop" \in Faults
  /\ t \in Caller /\ job[t].cause = "message"
  /\ pc[t] \in {"count", "push", "claim", "start", "attach"}
  /\ Finish(t)
  /\ UNCHANGED <<disk, slots, waiting, mark, bounds, history>>

(***************************************************************************)
(* kill                                                                    *)
(***************************************************************************)
\* Cancel the run of s and take its task, if the handle has one yet.
KillCancel(t, s) ==
  LET r == handles[s] IN
  /\ Calls("kill")
  /\ pc[t] = "idle" /\ t \in Caller
  /\ status[s] # "Absent"
  /\ job' = [job EXCEPT ![t] = [NoJob EXCEPT !.sid = s]]
  /\ IF r = None
       THEN Goto(t, "killqueue") /\ UNCHANGED <<run, held>>
       ELSE /\ held' = [held EXCEPT ![t] = r]
            /\ run' = [run EXCEPT ![r] = [@ EXCEPT !.cancelled = TRUE,
                                                   !.attached = FALSE]]
            /\ Goto(t, IF run[r].attached THEN "killwait" ELSE "killfree")
  /\ UNCHANGED <<disk, handles, waiting, mark, busy, todo, history>>

KillWait(t) ==
  /\ pc[t] = "killwait"
  /\ run[held[t]].phase \notin Working
  /\ Goto(t, "killfree")
  /\ UNCHANGED <<disk, slots, waiting, mark, local, bounds, history>>

\* The run outlived STOP_GRACE + 2s: its task is aborted.
KillAbort(t) ==
  /\ "abort" \in Faults
  /\ pc[t] = "killwait"
  /\ run[held[t]].phase \in Working
  /\ Move(held[t], "over")
  /\ Goto(t, "killfree")
  /\ Forgive(job[t].sid, held[t])
  /\ UNCHANGED <<disk, handles, waiting, mark, local, bounds>>

KillFree(t) ==
  LET s == job[t].sid IN
  /\ pc[t] = "killfree"
  /\ handles' = Freed(s, held[t])
  /\ Forgive(s, held[t])
  /\ held' = [held EXCEPT ![t] = None]
  /\ Goto(t, "killqueue")
  /\ UNCHANGED <<disk, run, waiting, mark, job, busy, todo, bounds>>

KillQueue(t) ==
  /\ pc[t] = "killqueue"
  /\ queue' = {e \in queue : e.job.sid # job[t].sid}
  /\ Goto(t, "killclear")
  /\ UNCHANGED <<disk, slots, permit, mark, local, bounds, history>>

KillClear(t) ==
  /\ pc[t] = "killclear"
  /\ sidecar' = [sidecar EXCEPT ![job[t].sid] = NoJob]
  /\ Goto(t, "killmark")
  /\ UNCHANGED <<status, sent, slots, waiting, mark, local, bounds, history>>

\* The session is at rest unless another caller is at work on it.
KillMark(t) ==
  LET s == job[t].sid IN
  /\ pc[t] = "killmark"
  /\ SetStatus(s, "Killed")
  /\ permit' = TRUE
  /\ halted' = [halted EXCEPT ![s] = \A c \in Caller \ {t} : job[c].sid # s]
  /\ Finish(t)
  /\ UNCHANGED <<sidecar, sent, slots, queue, mark, bounds, handed, owed>>

(***************************************************************************)
(* A run: run.rs, and RunEnd of launch.rs                                  *)
(***************************************************************************)
\* Where first_input starts to read: at the mark, or at the message that asked
\* for the run.
From(R) == IF mark[R.sid] # None THEN mark[R.sid] ELSE R.from

\* first_input: the messages from there to those the launch saw.  A message
\* finding none of them left is handed over again, as the prompt of its run.
FirstInput(R) ==
  IF From(R) = None THEN [lo |-> 0, hi |-> 0]
  ELSE IF From(R) < R.seen THEN [lo |-> From(R), hi |-> R.seen]
  ELSE IF R.from # None THEN [lo |-> R.from, hi |-> R.from + 1]
  ELSE [lo |-> 0, hi |-> 0]

TakesInput(r) ==
  run' = [run EXCEPT ![r] = [@ EXCEPT !.phase = "ready", !.turns = 1,
                                      !.lo = FirstInput(run[r]).lo,
                                      !.hi = FirstInput(run[r]).hi]]

\* Broken: the messages handed out are not marked read.
BeginUnmarked(r) ==
  /\ run[r].phase = "spawned"
  /\ SetStatus(run[r].sid, "Active")
  /\ TakesInput(r)
  /\ UNCHANGED <<sidecar, sent, handles, waiting, mark, pc, local, bounds, history>>

\* The run begins: a compaction has a turn of its own and reads no messages.
Begin(r) ==
  LET s == run[r].sid IN
  /\ run[r].phase = "spawned"
  /\ SetStatus(s, "Active")
  /\ IF run[r].cause = "compact"
       THEN Move(r, "turn") /\ UNCHANGED mark
       ELSE /\ TakesInput(r)
            /\ IF From(run[r]) = None THEN UNCHANGED mark
               ELSE mark' = [mark EXCEPT ![s] = run[r].seen]
  /\ UNCHANGED <<sidecar, sent, handles, waiting, pc, local, bounds, history>>

\* The turn starts: its input is handed to the agent.
StartTurn(r) ==
  LET R == run[r]
      s == R.sid
      input == [k \in 1..(R.hi - R.lo) |-> R.lo + k] IN
  /\ R.phase = "ready"
  /\ Move(r, "turn")
  /\ handed' = [handed EXCEPT ![s] = @ \o input]
  /\ owed' = [owed EXCEPT ![s] = @ \ (R.lo + 1)..R.hi]
  /\ UNCHANGED <<disk, handles, waiting, mark, pc, local, bounds, halted>>

Settles(r, want, done) ==
  run' = [run EXCEPT ![r] = [@ EXCEPT !.phase = "settling", !.want = want,
                                      !.done = done]]

\* budget_hit before the turn: the run pauses, its input is not handed over.
BudgetHit(r) ==
  /\ "budget" \in Faults
  /\ run[r].phase = "ready"
  /\ Settles(r, "Idle", TRUE)
  /\ UNCHANGED <<disk, handles, waiting, mark, pc, local, bounds, history>>

\* Messages arrived: they are the next turn, or are left at the turn cap.
GoOn(r) ==
  LET R == run[r]
      s == R.sid IN
  IF R.turns >= MaxTurns
    THEN mark' = [mark EXCEPT ![s] = R.seen] /\ Settles(r, "Done", TRUE)
    ELSE /\ mark' = [mark EXCEPT ![s] = sent[s]]
         /\ run' = [run EXCEPT ![r] = [@ EXCEPT !.phase = "ready",
                                                !.turns = R.turns + 1,
                                                !.lo = R.seen, !.hi = sent[s],
                                                !.seen = sent[s]]]

Fresh(r) == sent[run[r].sid] > run[r].seen

\* A turn completed.  A compaction is over; another run looks at its inbox.
TurnCompleted(r) ==
  /\ run[r].phase = "turn"
  /\ IF run[r].cause = "compact" THEN Settles(r, "Done", TRUE) /\ UNCHANGED mark
     ELSE IF Fresh(r) THEN GoOn(r)
     ELSE Move(r, "looking") /\ UNCHANGED mark
  /\ UNCHANGED <<disk, handles, waiting, pc, local, bounds, history>>

\* settle: a cancelled run, or a session read Killed, stays Killed.
Settled(r, want) ==
  IF run[r].cancelled \/ status[run[r].sid] = "Killed" THEN "Killed" ELSE want

\* Broken: the run leaves without the second look.
LastLookBlind(r) ==
  LET s == run[r].sid IN
  /\ run[r].phase = "looking"
  /\ mark' = [mark EXCEPT ![s] = sent[s]]
  /\ SetStatus(s, Settled(r, "Done"))
  /\ handles' = Freed(s, r)
  /\ run' = [run EXCEPT ![r] = [@ EXCEPT !.phase = "over", !.done = TRUE]]
  /\ UNCHANGED <<sidecar, sent, waiting, pc, local, bounds, history>>

\* last_look: under the handles lock, look once more; with nothing there the
\* run settles and gives up its slot before a message can come between.
LastLook(r) ==
  LET s == run[r].sid IN
  /\ run[r].phase = "looking"
  /\ IF Fresh(r)
       THEN GoOn(r) /\ UNCHANGED <<status, handles>>
       ELSE /\ mark' = [mark EXCEPT ![s] = sent[s]]
            /\ SetStatus(s, Settled(r, "Done"))
            /\ handles' = Freed(s, r)
            /\ run' = [run EXCEPT ![r] = [@ EXCEPT !.phase = "over",
                                                   !.done = TRUE]]
  /\ UNCHANGED <<sidecar, sent, waiting, pc, local, bounds, history>>

\* A turn ended otherwise: stopped, closed by the agent, paused or failed.  A
\* cancelled turn reads as stopped whatever its error.
TurnStops(r, o) ==
  /\ run[r].phase = "turn"
  /\ IF run[r].cancelled THEN o \in {"interrupted"} \cup (Outcomes \cap {"paused"})
                         ELSE o \in Outcomes
  /\ Settles(r, IF o = "interrupted" THEN "Killed" ELSE "Idle", o # "failed")
  /\ UNCHANGED <<disk, handles, waiting, mark, pc, local, bounds, history>>

\* end: settle and give up the slot under the handles lock.
Release(r) ==
  LET s == run[r].sid IN
  /\ run[r].phase = "settling"
  /\ SetStatus(s, Settled(r, run[r].want))
  /\ handles' = Freed(s, r)
  /\ Move(r, "over")
  /\ IF run[r].cause = "compact" /\ run[r].want = "Done"
       THEN UNCHANGED history ELSE Forgive(s, r)
  /\ UNCHANGED <<sidecar, sent, waiting, mark, pc, local, bounds>>

\* The task ends without settling: a panic, or its transcript not writable.
RunDies(r) ==
  /\ "run_dies" \in Faults
  /\ run[r].phase \in {"spawned", "turn"}
  /\ Move(r, "over")
  /\ Forgive(run[r].sid, r)
  /\ UNCHANGED <<disk, handles, waiting, mark, pc, local, bounds>>

\* Broken: the status is mended after a kill, too.
EndReleaseKilled(r) ==
  LET R == run[r] IN
  /\ R.phase = "over"
  /\ handles' = Freed(R.sid, r)
  /\ Move(r, IF ~ R.done THEN "repair" ELSE "notify")
  /\ UNCHANGED <<disk, waiting, mark, pc, local, bounds, history>>

\* RunEnd: give up the slot; a run that did not settle has its status mended.
EndRelease(r) ==
  LET R == run[r] IN
  /\ R.phase = "over"
  /\ handles' = Freed(R.sid, r)
  /\ Move(r, IF ~ R.done /\ ~ R.cancelled THEN "repair" ELSE "notify")
  /\ UNCHANGED <<disk, waiting, mark, pc, local, bounds, history>>

EndRead(r) ==
  /\ run[r].phase = "repair"
  /\ Move(r, IF status[run[r].sid] = "Active" THEN "repairing" ELSE "notify")
  /\ UNCHANGED <<disk, handles, waiting, mark, pc, local, bounds, history>>

EndRepair(r) ==
  /\ run[r].phase = "repairing"
  /\ SetStatus(run[r].sid, "Idle")
  /\ Move(r, "notify")
  /\ UNCHANGED <<sidecar, sent, handles, waiting, mark, pc, local, bounds, history>>

\* Broken: the pump is not told of the free slot.
EndSilent(r) ==
  /\ run[r].phase = "notify"
  /\ run' = [run EXCEPT ![r] = NoRun]
  /\ UNCHANGED <<disk, handles, waiting, mark, pc, local, bounds, history>>

EndNotify(r) ==
  /\ run[r].phase = "notify"
  /\ permit' = TRUE
  /\ run' = [run EXCEPT ![r] = NoRun]
  /\ UNCHANGED <<disk, handles, queue, mark, pc, local, bounds, history>>

(***************************************************************************)
(* The pump                                                                *)
(***************************************************************************)
PumpWake ==
  /\ pc[Pump] = "sleep"
  /\ permit
  /\ permit' = FALSE
  /\ Goto(Pump, "scan")
  /\ UNCHANGED <<disk, slots, queue, mark, local, bounds, history>>

PumpScan ==
  /\ pc[Pump] = "scan"
  /\ handles' = Reaped
  /\ IF Full(Reaped)
       THEN Goto(Pump, "sleep") /\ UNCHANGED busy
       ELSE Goto(Pump, "pop") /\ busy' = Live(Reaped)
  /\ UNCHANGED <<disk, run, waiting, mark, job, held, todo, bounds, history>>

\* The first queued run whose session was not busy at the scan.
PumpPop(e) ==
  /\ pc[Pump] = "pop"
  /\ e.job.sid \notin busy
  /\ \A d \in queue : d.place < e.place => d.job.sid \in busy
  /\ queue' = queue \ {e}
  /\ job' = [job EXCEPT ![Pump] = e.job]
  /\ busy' = {}
  /\ Goto(Pump, "popped")
  /\ UNCHANGED <<disk, slots, permit, mark, held, todo, bounds, history>>

PumpFindsNone ==
  /\ pc[Pump] = "pop"
  /\ \A e \in queue : e.job.sid \in busy
  /\ busy' = {}
  /\ Goto(Pump, "sleep")
  /\ UNCHANGED <<disk, slots, waiting, mark, job, held, todo, bounds, history>>

\* A killed session does not run; its entry is dropped.
PumpCheck ==
  /\ pc[Pump] = "popped"
  /\ IF status[job[Pump].sid] = "Killed" THEN Finish(Pump)
     ELSE Goto(Pump, "launch") /\ UNCHANGED local
  /\ UNCHANGED <<disk, slots, waiting, mark, bounds, history>>

(***************************************************************************)
(* Crash and restart: recover, then recover_queue, kick and pump_loop      *)
(***************************************************************************)
Crash ==
  /\ "crash" \in Faults
  /\ crashes < MaxCrashes /\ crashes' = crashes + 1 /\ UNCHANGED ops
  /\ status' = [s \in Session |->
                  IF status[s] = "Active" THEN "Idle" ELSE status[s]]
  /\ handles' = [s \in Session |-> None]
  /\ run' = [r \in RunId |-> NoRun]
  /\ queue' = {} /\ permit' = FALSE
  /\ mark' = [s \in Session |-> None]
  /\ pc' = [t \in Thread |-> IF t = Pump THEN "recover" ELSE "idle"]
  /\ job' = [t \in Thread |-> NoJob] /\ held' = [t \in Thread |-> None]
  /\ busy' = {} /\ todo' = {}
  /\ owed' = [s \in Session |-> {}]
  /\ UNCHANGED <<sidecar, sent, handed, halted>>

\* recover_queue lists the sessions once.
RecoverList ==
  /\ pc[Pump] = "recover"
  /\ todo' = {s \in Session : status[s] = "Queued"}
  /\ Goto(Pump, "recovering")
  /\ UNCHANGED <<disk, slots, waiting, mark, job, held, busy, bounds, history>>

\* Broken: a queued session without its run on disk is passed over.
RecoverOnePasses(s) ==
  /\ pc[Pump] = "recovering" /\ s \in todo
  /\ todo' = todo \ {s}
  /\ IF sidecar[s] # NoJob THEN PushBack(sidecar[s]) ELSE UNCHANGED queue
  /\ UNCHANGED <<disk, slots, permit, mark, pc, job, held, busy, bounds, history>>

RecoverOne(s) ==
  /\ pc[Pump] = "recovering" /\ s \in todo
  /\ todo' = todo \ {s}
  /\ IF sidecar[s] # NoJob
       THEN PushBack(sidecar[s]) /\ UNCHANGED status
       ELSE SetStatus(s, "Idle") /\ UNCHANGED queue
  /\ UNCHANGED <<sidecar, sent, slots, permit, mark, pc, job, held, busy,
                 bounds, history>>

RecoverDone ==
  /\ pc[Pump] = "recovering" /\ todo = {}
  /\ permit' = TRUE
  /\ Goto(Pump, "sleep")
  /\ UNCHANGED <<disk, slots, queue, mark, local, bounds, history>>

(***************************************************************************)
(* The specification                                                       *)
(***************************************************************************)
CallBegins(t) ==
  \/ BeginSpawn(t)
  \/ \E s \in Session : \/ \E op \in Ops : BeginSend(t, s, op)
                        \/ BeginChild(t, s)
                        \/ Deliver(t, s)
                        \/ KillCancel(t, s)

LaunchStep(t) ==
  \/ LaunchClear(t) \/ LoseClaim(t) \/ LaunchStart(t) \/ LaunchAttach(t)
  \/ LaunchFailed(t)
  \/ \E r \in RunId : Claim(t, r)

EnqueueStep(t) == MarkQueued(t) \/ Persist(t) \/ Push(t)

KillStep(t) ==
  KillWait(t) \/ KillFree(t) \/ KillQueue(t) \/ KillClear(t) \/ KillMark(t)

CallStep(t) ==
  \/ SendCheck(t) \/ Count(t) \/ Unstaff(t)
  \/ \E s \in Session : Create(t, s)
  \/ EnqueueStep(t) \/ LaunchStep(t) \/ KillStep(t)

PumpStep ==
  \/ PumpWake \/ PumpScan \/ PumpFindsNone \/ PumpCheck
  \/ \E e \in queue : PumpPop(e)
  \/ RecoverList \/ RecoverDone
  \/ \E s \in Session : RecoverOne(s)
  \/ EnqueueStep(Pump) \/ LaunchStep(Pump)

RunStep(r) ==
  \/ Begin(r) \/ StartTurn(r) \/ LastLook(r) \/ Release(r)
  \/ EndRelease(r) \/ EndRead(r) \/ EndRepair(r) \/ EndNotify(r)

TurnEnds(r) == TurnCompleted(r) \/ \E o \in AllOutcomes : TurnStops(r, o)

Fault ==
  \/ Crash
  \/ \E t \in Thread : LaunchFails(t)
  \/ \E t \in Caller : KillAbort(t) \/ Dropped(t)
  \/ \E r \in RunId : RunDies(r) \/ BudgetHit(r)

Next ==
  \/ \E t \in Caller : CallBegins(t) \/ CallStep(t)
  \/ PumpStep
  \/ \E r \in RunId : RunStep(r) \/ TurnEnds(r)
  \/ Fault

Spec == Init /\ [][Next]_vars

\* Every task of the runtime goes on; a turn ends, since TurnWatch stops an
\* agent that is silent for IDLE_LIMIT.  Nothing makes a caller call.
Fairness ==
  /\ \A t \in Caller : WF_vars(CallStep(t))
  /\ WF_vars(PumpStep)
  /\ \A r \in RunId : WF_vars(RunStep(r)) /\ WF_vars(TurnEnds(r))

LiveSpec == Spec /\ Fairness

(***************************************************************************)
(* Properties                                                              *)
(***************************************************************************)
\* A run is at work from its claim to its release of the slot.
AtWork(r) == run[r].phase \in {"claimed"} \cup Working

\* A run that nobody stopped holds the handle of its session until it settles:
\* the handle is keyed by run id so that the end of an older run, a late kill or
\* a failed launch never gives away the slot of a newer one (launch.rs, mod.rs).
SlotIsHeld ==
  \A r \in RunId : AtWork(r) /\ ~ run[r].cancelled => handles[run[r].sid] = r

\* Behind every handle is a run whose task goes on, or a launch: "still working"
\* and "target is running" are true, and a session is not locked (launch.rs).
SlotHasOwner ==
  \A s \in Session : handles[s] # None =>
    \/ run[handles[s]].phase \in Working \cup TaskOver
    \/ \E t \in Thread : held[t] = handles[s]

\* Two runs that nobody stopped never work on one session at the same time.
OneRunPerSession ==
  \A r, q \in RunId :
    /\ AtWork(r) /\ AtWork(q)
    /\ ~ run[r].cancelled /\ ~ run[q].cancelled
    /\ run[r].sid = run[q].sid
    => r = q

\* The slots as whoever relies on them sees them: what a run is at work on, and
\* which of those runs were told to stop.
WorkOf == [r \in RunId |-> IF AtWork(r) THEN run[r].sid ELSE None]
ToldToStop == {r \in RunId : AtWork(r) /\ run[r].cancelled}

Contract == INSTANCE SlotContract WITH
  slot <- handles, work <- WorkOf, stopped <- ToldToStop

\* The handles map keeps the contract of a lock: a run comes to work only by the
\* claim of a free slot, and no end, repair, late kill, failed launch or sweep
\* of the map frees a slot whose run is at work and was not told to stop.
KeepsSlots == Contract!Spec

\* A message that send_message left to a live run is read before the run ends
\* quietly: no message falls between the last look and the free slot.
PromisedIsRead == \A s \in Session : owed[s] # {} => handles[s] # None

\* The agent is handed the messages of its session in the order they were sent,
\* each once and none left out, whatever the outcomes of the turns.
InOrder ==
  \A s \in Session : \A k \in DOMAIN handed[s] : handed[s][k] = k

\* A session that was stopped stays Killed until somebody asks it for something:
\* neither the end of the run that was stopped nor its repair writes over it.
StaysKilled == \A s \in Session : halted[s] => status[s] = "Killed"

\* A thread or a run that has still to write the status of s.
InHand(s) ==
  \/ \E t \in Thread : job[t].sid = s
  \/ \E r \in RunId : run[r].phase # "none" /\ run[r].sid = s
  \/ s \in todo \/ pc[Pump] = "recover"

\* A session that reads Queued has an entry in the queue or is in somebody's
\* hands: it is not left waiting for a run that is not there.
QueuedIsNotStuck ==
  \A s \in Session : status[s] = "Queued" =>
    InHand(s) \/ \E e \in queue : e.job.sid = s

\* A session that reads Active has a run or is in somebody's hands.
ActiveIsNotStuck == \A s \in Session : status[s] = "Active" => InHand(s)

\* max_concurrent is counted before the slot is claimed, so it can be passed, by
\* no more than the other threads that count in the same moment.
OvershootBounded == Cardinality(Live(handles)) <= MaxLive + Cardinality(Caller)

\* A session that is queued is taken up.
QueuedIsTakenUp ==
  \A s \in Session : status[s] = "Queued" ~> status[s] # "Queued"

\* Every slot that is taken is given up.
SlotsAreFreed ==
  \A s \in Session : handles[s] # None ~> handles[s] = None
=============================================================================
