# Verification of Parzi

TLA+ models of Parzi's runtime, checked with TLC and proved about with TLAPS.
Parzi runs coding agents (Claude, Codex, ACP agents) as *sessions*. Its runtime
starts and stops their runs, queues them, carries messages between them, keeps
their transcripts, and keeps notes, settings and transcripts of several
machines in step through a server. Paths below are relative to the repository.

## 1. The system

`crates/parzi-core` holds files and formats, `crates/parzi-runtime` the running
system, `crates/parzi-providers` the drivers of the agents, `crates/parzi-cli`,
`src-tauri` and `ui` the programs a person sees.

| Component | State it keeps | Operations | Hard behaviour |
|---|---|---|---|
| Run orchestrator: `parzi-runtime/src/orchestrator/`, `run.rs` | `handles` (session → live run), `queue`, read marks, the pump's `Notify`; `meta.json` and `run.json` of each session | spawn, send, compact, spawn a child, message, kill, pump, recover, end of a run | counting and claiming under different locks; messages that race the end of a run; kills that race launches; launches that fail; crash and restart |
| Reports and wakes: `harness.rs`, `wake.rs` | `report_to` of a child; pending wakes and wake times of a parent | ask for a report, wait, report, wake | a child that ends as its parent stops waiting, reports that meet the end of the parent's run, the timer or the cap |
| Session store: `parzi-core/src/store/` | `events.jsonl`, `meta.json`, the cache of events and the index of each process | append, read, update, list, fork, delete, cascade of a kill | lines cut short, a cache extended from a file that others append to, two processes on one session |
| Note and thread sync: `sync.rs`, `hub.rs`, `remote.rs` | vaults, `brain.json`, `settings.json`, `mirror.json`, mirrors on the hub | list, plan, pull, push, delete, conflict; settings by revision; mirror append | edits and other devices between plan and step, calls that fail and are carried out late |
| Daemon and approvals: `osserve.rs`, `toolhost.rs`, `src-tauri/src/main.rs`, `control.rs` | parked approvals and questions, the rows the desktop lists | ask for leave, park, answer, time out, stop | an answer racing the timeout or the stop, two clients that answer at once |
| Background shells: `shell.rs` | shells of a session, at most 8 | start, read, list, kill, kill all, run in the foreground | two starts at the limit, a start racing the kill of all, a command dropped while it runs |
| Provider drivers: `parzi-providers/src/acp.rs`, `codex.rs`, `claude.rs`, `jsonrpc.rs` | the turn's view of its agent; a request and the one who waits for it; the parked processes of an ACP agent | run a turn, answer the agent, park, warm up, take, drop | the answer and the messages before it come by two channels, subagents that outlive the answer, timers of a former parking |
| MCP host and client: `mcp_host.rs`, `mcp/` | which run's tools a session's token reaches; connections | register, call, unregister | a stopped run that leaves after the next one came |
| Tools, hooks, provisioning | little of their own | calls with timeouts | calls dropped where they wait |
| Plans, notes, settings: `plan.rs`, `brain.rs`, `config.rs` | files | edits under a write lock | block states of a plan |
| Programs and UI | views; `held.ts` the messages a composer holds | calls into the runtime | messages held while a run is live |

How they interact: the programs and the tools of an agent call the
orchestrator; a run calls a provider and the tools, appends to the store, and on
its way out releases its slot and notifies the pump; the pump launches queued
runs; the desktop syncs every two minutes (`SYNC_EVERY`) and soon after changes.
Threads share the orchestrator's maps under short locks and files without any.

What makes each part correct: **orchestrator** - one run of a session at a time,
no slot lost or given away, no session left Queued or Active with nobody to end
it, messages in order and none missed, killed means killed, queued means run in
the end; **reports** - the end of a child is reported to whoever was told so, and a
report is read by the parent's run or wakes it; **store** - a read has every event that was acknowledged, a change of `meta.json` is not undone;
**sync** - no text is lost, nothing is deleted that nobody gave up, all sides
agree in the end; **approvals** - nothing runs without leave, whoever is told that an answer was
taken is the one obeyed, none waits for ever; **shells** - never more than the
limit, none survives the kill of all, all end; **turns** - whatever the agent,
completed means answered and heard in full, and a turn that is stopped ends;
**agents** - a turn has its own tools and an agent that knows the conversation,
and no process is left going.

## 2. Plan

| Order | Module | Models | State |
|---|---|---|---|
| 1 | `Orchestrator`, `SlotContract`, `MCOrchestrator`, `OrchestratorProofs` | run orchestrator, and what its handles map promises, which it implements | done, but for fork, rewind and delete |
| 2 | `NoteSync`, `MCNoteSync`, `NoteSyncProofs` | sync of notes, the hub's `brain.*` | done |
| 3 | `Reports`, `MCReports`, `ReportsProofs` | reports and wakes, over an abstract orchestrator that says only when runs start and end | done |
| 4 | `Shells`, `MCShells`, `ShellsProofs` | background shells, foreground commands | done |
| 5 | `Approvals`, `MCApprovals`, `ApprovalsProofs` | a tool call and the person it waits for | done |
| 6 | `TurnContract`, `Turns`, `MCTurns`, `TurnsProofs` | what a provider promises a run, and the three drivers, which implement it | done |
| 7 | `Agents`, `MCAgents`, `AgentsProofs` | processes of an ACP agent, with the tokens of `mcp_host.rs` | done |
| 8 | `Store`, `MCStore`, `StoreProofs` | transcript and `meta.json` under several processes | done |
| 9 | `Mirror`, `Settings` | mirror of sessions on the hub, settings by revision | left |

Every safety property the runs check is proved, the two refinements among them.

## 3. The modules

### Orchestrator

*Threads.* A `Caller` is any task that calls the orchestrator: the desk, the
daemon, a tool call of an agent. `Pump` is the one pump task. `pc[t]` says where
a thread stands; `job[t]` is the queued run it works on and `held[t]` the run
it claimed or kills. A call is a sequence of actions, one for every section under
the handles lock and every access to a file or map that others can come between.

| Code | Model |
|---|---|
| `meta.json` status | `status` (`Absent` before `create`) |
| `run.json` | `sidecar`, one queued run of a session |
| transcript | `sent`, the number of messages to the session |
| `handles` | `handles`, the run of a session; `run[r]` holds the rest of a `Handle` |
| `Handle::task`, `cancel`, `RunEnd::settled` | `run[r].attached`, `.cancelled`, `.done` |
| queue in memory | `queue`, entries with places: only their order counts |
| `Notify` | `permit` |
| read marks | `mark` |
| `send_as`, `compact` | `BeginSend`, `SendCheck`, `Count`, then enqueue or launch |
| `spawn_as`, `spawn_child` | `BeginSpawn`, `Create`; `BeginChild`, `Count`, `Unstaff` |
| `send_message` | `Deliver`: appended and looked up in one section |
| `enqueue` | `MarkQueued`, `Persist`, `Push` |
| `launch` | `LaunchClear`, `Claim` or `LoseClaim`, `LaunchStart` or `LaunchFails`, `LaunchAttach` |
| a tool call when its agent's run is cancelled | `Dropped` |
| `kill` | `KillCancel`, `KillWait` or `KillAbort`, `KillFree`, `KillQueue`, `KillClear`, `KillMark` |
| `EngineRun::run` | `Begin`, `StartTurn`, `TurnCompleted`, `LastLook`, `TurnStops`, `Release` |
| `RunEnd::drop` | `EndRelease`, `EndRead`, `EndRepair`, `EndNotify` |
| `pump_loop` | `PumpWake`, `PumpScan`, `PumpPop`, `PumpFindsNone`, `PumpCheck` |
| restart | `Crash`, `RecoverList`, `RecoverOne`, `RecoverDone` |

A message is its position in the transcript, so a read mark, `inbox_from` and
the input of a turn are counts. What an agent does in a turn is left out but for
how the turn ends (`Outcomes`). A crash loses everything in memory and keeps the
files; `recover` resets Active sessions to Idle in the same step, as the
process does before it serves anybody. `handed`, `owed` and `halted` are history:
what the agent was given, which messages were left to a live run to read, and
which sessions a kill put to rest that nobody has asked for since.

`Ops`, `Outcomes` and `Faults` choose what a run of TLC may do, so that each
question is asked with the calls it needs. `MaxOps` bounds the calls of a
behaviour and `MaxCrashes` its crashes; run ids are used again when nothing
holds them, so they need no bound.

`SlotContract` is the handles map as whoever relies on it sees it: which run holds
the slot of a session, which session a run is at work on, who was told to stop. A slot
is taken for a run that is nowhere at work, by a step that finds nobody with a right to
it; a run keeps its right until it leaves its work or is told to stop, and only then may
anybody free the slot: the run, `RunEnd`, a kill that comes late, `retain`. `Contract` in
`Orchestrator` is the instance with `slot <- handles`, `work <- WorkOf`,
`stopped <- ToldToStop`; queue, files and calls are not seen in it.

### Reports

One parent and its children; parents share nothing. From `Orchestrator` it takes
that a session has one run at a time, that a queued run is started some time,
that a run reads what is delivered while it is live, and no more: a slot is free
or not as it happens, and what a dropped call leaves behind in `handles` is not
in this model.

| Code | Model |
|---|---|
| `report_to` of `run.json`; `set_report_to`, `take_report_to` | `owed`; `Owe`, and `Take` or `NotStarted` |
| status and handle of a child, its queued runs | `child` (`made` is created and not yet started), `waiting`; `PumpStarts`, `PumpFails`, `RunEnds`, `KillChild` |
| `spawn_child`, `send_message` | `call`, by the awaits between their parts: `BeginSpawn`, `BeginMessage`, `Deliver`, then `Launched`, `Queued` and `AskQueued`, or `NotStarted` |
| `await_settled`, `timed_out`, `report_later` | `Answered`; `TimesOut`, `AskLater`, `Look` |
| the task `RunEnd::drop` leaves, `report_to_parent` | an element of `tasks`: `Take`, `Hand`, `Allow`, `Pend` |
| `WakeState::pending`, the sleeping task, `woken` | `pending`, `timers`, `woken` |
| `wake` | `Fire`, `WakeLooks`, `WakeAllowed`, `WakeCounts`, `WakeDispatches` |
| reports in the parent's transcript, its read mark and `inbox_from` | counts: `inbox`, `mark`, `seen`, `queue` |
| the parent's runs | `Send`, `PumpStartsParent`, `PumpFailsParent`, `ParentLooks`, `ParentFails`, `StopParent` |
| `first_input`; `compact` | `Start`: from the read mark, or `inbox_from`, or not at all; `StartCompaction`, `CompactionEnds` |

A wake waits `DEBOUNCE`, two seconds. `Fire` takes it that what a report does
between its delivery and the pending wake, and what a wake does before it
dispatches, take less than that: neither waits for anything but short locks. An
hour that passes (`HourPasses`) forgets any number of wakes. A stopped parent's
calls are dropped where they wait (`StopParent`).

`due` is history: the reports of a parent that may be woken which nobody has read
yet. What the code gives up openly, it gives up there too: a report past the cap, a
launch that fails, a run that fails or is stopped. Two runs read nothing of what is
due: one that a person starts when there is no read mark, as in the first run after
the program started (`first_input` returns the prompt), and a compaction. And a wake
is dropped because its parent is queued, though the queued run may be such a one
(`BlindNext`). `passed` holds what these pass over; it stays due, and `DueIsInHand`
names it as its exception.

A promise is the number of an end: `ended[c]` counts the ends of a child, a report
tells of the ends there were when it was written (`tells`), and `asked[c]` are the
ends a call that has returned was promised to hear of. `report_to` has no number, and
so the code can break a promise: the report of an older run takes what was asked for
a newer one (`Take`; if the asking call has not returned, it is `by` that says so);
a message that is not started takes back what earlier calls asked for (`NotStarted`);
the launch of a queued run fails, and nobody reports that (`PumpFails`); the queued run
has ended before the call that queued it asks for its report (`AskQueued`); a stopped
parent drops the call that was about to deliver it (`StopParent`). `broken[c]` are those,
until they are promised anew; no other step adds to it. `told[c]` is the last end that
was told.

### NoteSync

`notes` holds a vault for every device and for the hub: a function from paths to
texts. Every edit writes a text of its own, which stands for its hash too.
`base[d]` is `brain.json`; `sync[d]` is the sync under way: the two listings,
the fetched texts, what will be agreed on, the paths still to do, the puts and
deletes for the hub. `wire` holds the requests of `brain.apply` the hub has yet to
carry out. A `Fail` ends a sync with `base` as it was, and leaves any part of
its requests to be carried out later (a call that timed out is not taken back:
`remote.rs` `Link::call`). A path is a note's name and the conflict copies it is
a copy of, so copies of copies occur.

What to keep and what to delete there are only noted down, and are taken with
the plan in `ListThere`. To write or delete a note is two steps as in the code, the check of the
hash and the write: `CheckHere`, then `Pull` or `DeleteHere` on a device; `CheckThere`, then `Apply`
on the hub, for every note of a request by itself. A conflict is two writes. The hub
serves every connection in a task of its own (`osserve.rs`), so any requests overlap, each
between the check and the write of another. In the code only plan notes are locked from
check to write (`lock_if_plan`), so on a device an edit, and on the hub an edit or another
device's request, can come in between, and is then written over or deleted. That window is
real, and it is in the model: `crossed` is history, what was written to a note while somebody
stood between its check and its write (None if it was deleted). `NothingLost` and
`OnlyGivenUpIsDeleted` are about every text but those (`Standing`). `Big` are texts longer
than `MAX_NOTE`, which listings leave out.

`Write` and `Delete` stand for every way a note is changed; resolving a conflict
in the app is a write and a delete. `alive` is the set of texts that nobody
replaced or deleted; `past[x]` are the texts `x` was written over; `failed` says
that a sync failed, by a call or over a note that had vanished.

### Shells

One session's registries, one after the other, and the map of the orchestrator
that holds the present one. A background shell is counted and reserved under the
registry's lock, spawned without it, and adopted under it again.

| Code | Model |
|---|---|
| `shells_for`, `drop_shells` | `mapped`; `ShellsFor`, `DropShells`; `held` are the registries that tool calls still hold |
| `LiveShell`: `exit`, `child`, `pump` | `shell[s].exit`, `.child`, `.pump`; `.os` is its process, `.reaper` the task that waits for it, `.err` the task that reads its errors |
| `start` | `Reserve`, `Spawn` or `SpawnFails`, `Adopt` or `AdoptLate` (stopped meanwhile) |
| `pump`, `enforce` | `PumpReads`, `PumpEnforces`, `DrainEnds`, `StderrEnds`, `ErrReads`, `ErrAppends` |
| `reap` | `Reap` |
| `kill`, `kill_all`, `logs`, `jobs` | `Kill`, `KillAll`, `Logs`, `Jobs` |
| `exec` and its guard `FgMark` | `foreground`; `Exec`, `ExecTimesOut`, `ExecKills`, `ExecEnds`, `ExecReturns`, `ExecDropped`, `ExecReaped` |

`told` and `swept` are history: what was appended since a reader heard "done", and
which shells a sweep found. Output is counted, not kept. Two windows the code
leaves open are in the model and not in the properties: a tool call that holds a
registry goes on with it after `drop_shells` has swept it, and the task that
reads a shell's errors may append one chunk after "done" (`DoneIsFinal` says: no
more than one).

### Approvals

The tool calls of one run, and the clients that answer. The daemon and the
desktop park a question in much the same way; `desk` says which one serves the
run, and what differs hangs on it.

| Code | Model |
|---|---|
| `approved` and the rules of `execute_inner` | `Approved`, `Verdict`: every setting is looked at |
| `ToolHost::call` | `Begin`, `HookBlocks` or `HookPasses`, then `Execute`, `PostHooks` |
| `ask` of an approver or an asker | `Park`, `OpenRow`, `Receive` or `Elapse`, `Expire`, `Leave`, `CloseRow` |
| the `oneshot` channel | `chan`: open, what was sent, closed |
| the map of parked questions, the rows of the desktop | `pending`, `rows` |
| an answer from the window | `AnswerHere`, under the lock |
| an answer from a client | `Take`, or `Find` and `TakeFound`, `Send`, `CloseAnswered` |
| the `select!` on the cancelled run | `Cancel`, `Stop`: the call is dropped where it is; `DropSlot` is the daemon's guard, `SlotGuard` |
| `spawn_blocking` of a dropped call | `loose`, `LooseWork` |

Only the daemon's approvals have a guard that takes the question away when the
call is dropped. The desktop's approvals, and the questions of both, stay open to
answer until somebody does; `NoGhosts` names that exception. An answer that
comes between the timeout and the removal is taken, and obeyed.

### Turns and TurnContract

`TurnContract` says what `run_turn` of a provider promises the run that calls
it: Completed means that the agent answered and everything before the answer was
passed on; Interrupted, that somebody stopped the run or the agent broke off or
says it was cancelled. `Turns` is a turn of each of the three drivers against an agent that may do
anything, and implements it:
`C == INSTANCE TurnContract WITH stopped <- cancelled, gone <- agent = "gone",
sent <- Len(wire), heard <- taken - held, outcome <- IF Astray THEN "failed" ELSE outcome`.

| Code | Model |
|---|---|
| the agent's output, the reader task, the channel `incoming` | `wire`, `read`, `taken` |
| an answer to a request, the `oneshot` of who waits for it | `response`, `reply` |
| messages held until the prompt goes out | `held` (`Meanwhile` of ACP) |
| `interrupting`, `stop_by` | `stopping`; `SeeStop`, `Elapse` |
| `Background` of ACP, `st.agents` of Claude | `known`: the set of those that run, and one flag `wake`; `helper` are the subagents themselves |
| `prompt_seen` of Claude | `seen` |
| `initialize` of ACP, when nobody reads `incoming` | the place `init`: `StopEarly`, `NoStart` (its limit), `Opens` |
| the rest of the setup: the session, the model | one request: `StopEarly`, `NoStart`, `Meanwhile`, then a prompt |
| the agent's input, which it may leave unread | `full`: whoever writes waits (`Clear`); `writes`, the loop waits so (`SeeStop`, `Refuses`, `Written`); `ClaudePrompt`, `ClaudePrompted` |
| a Codex turn without an id | `named` |
| the loops | `AcpTake`, `AcpDone`, `AcpClosed`, `CodexTake`, `ClaudeTake`, `StreamClosed` |

One poll of a `select!` is one step, as its branches run to their next await
without a break; a branch that awaits a write to the agent holds up the whole loop
(`session/cancel`, the refusal of a request). The agent reads what it is sent in its own
time or never, and its exit closes both its pipes. A prompt may fill the pipe: ACP's is
written by a task of its own, which keeps the writer, Claude's by the turn itself outside
of any cancel and limit. An agent that gives its subagents' messages their
`parent_prompt_id` is assumed. Left out: a compaction's wait for the list of commands. The
model stops when the turn is over.

Three things the code does are named in the properties, which say what holds but for them:

* `Astray`: the end of another turn is taken for this one's. Claude's `error_max_turns`
  becomes Completed without a look at `prompt_seen`, before the prompt is sent too; a Codex
  compaction has an empty turn id, as has a turn whose start was answered without one, and
  takes any `turn/completed`. `KeepsContract` shows the contract such a turn as one that failed,
  which it allows at any time.
* `Overtaken`: one flag stands for all subagents that wake an ACP agent, so the end of the turn
  that one of them woke it for clears it for another that is yet to have its own, and the turn may
  be Completed while that one is to come; what is started in the turn to come goes unheard
  too. Claude, which does not count the woken either, can be overtaken likewise.
  `StaysForAgents` excepts these, and Claude at its limit (`AtLimit`), which ends the turn
  whoever works.
* `Stuck`: the turn awaits a write to an agent that does not read. Neither the stop nor its
  `STOP_GRACE` is polled there; `TurnsEnd` ends in the end of the turn, or in this.

### Agents

The processes of one ACP agent: opened for a turn, parked when it is Completed
(`LIVE`), warmed up ahead for an agent that is slow to start (`WARM`), and
killed by timers, by `LIVE_MAX`, by settings and by drops.

| Code | Model |
|---|---|
| `LIVE`, `WARM`, `WARM_ID`, `WARMING` | `live`, `warm`, `nextId`, `warming`; a list is a set of records, in the order of their ids |
| the task that sleeps for a parking | a member of `timers`; `Expire` |
| `McpHost::runs` | `tools`; `Begin` registers, `Unregister` gives back |
| `run_turn` | `TakeLive` or `FindNone`, `TakeWarm`, `Open`, `Opened`, `Prompt`, `Complete` or `Break` |
| `EngineRun::turn` around it | `wrap`; `Cancel`, `Leave` |
| `warm_up`, `drop_parked`, `switch_project`, `delete_thread` with `drop_live_in` | `WarmUp`, `WarmedUp`, `DropParked`, `Move`, `Delete` |

Every session already had a turn, so that its conversation has an id; a first
turn differs in that nothing is looked for in `LIVE`. `Kinds` are the pairs of
`slow_start` and `can_resume`, which decide what is parked and where. A killed
process is gone at once. `knows`, `heard`, `parks` and `moved` are history.
Two runs of a session overlap in the model as they may in the code: after a kill
that came before the task was in its handle.

### Store

One session's files, and the memory of every process that works on them: the
desktop, the daemon and the command line each have a `SessionStore` over one
directory.

| Code | Model |
|---|---|
| `events.jsonl` | `file`, a sequence of cells and newlines: a line is two cells and a newline, so that a line can be cut short |
| `meta.json`, the time of its directory | `disk`, `changed` |
| the cache of events, the index, `meta_writes`, `META_WRITE` | `cache`, `index`, `writes`, `lock`, one of each per process |
| `append` | `AppendOpens`, `AppendLooks`, `WriteStarts`, `WriteEnds` or `WriteFails`, `AppendRemembers` |
| `with_events` | `ReadCalls`, `ReadStats`, `ReadTakes`, `ReadReads`, `ReadMerges`, and `ReadHolds` when `Tries` are used up |
| `update_meta`, `touch` | `EditReads`, `EditSaves`, `EditSettles` |
| `list` | `ListScans`, `ListLooks`, `ListFetches`, `ListKeeps`, `ListOverlays` |
| `StoreCache::session_mut`, the end of a process | `Evict`, `Crash` |

`events.jsonl` only grows: a rewind and a fork make a new session. A write is
one call to the system, which other writers do not come between and readers may;
one that was cut short is followed by an error. `now` is as coarse as the file
system's clock. `glued` is history: an append that saw a whole last line which
another's write then cut short, so that the two are glued together; `ReadsAreWhole` leaves them out. Two processes that
change `meta.json` at once are not protected from each other by the code
(`META_WRITE` is a lock in a process); `EditsAreKept` and `ActivityIsKept` say
what is left. The index of one process cannot see another's change within one
tick of the clock, so `ListSeesOwnEdits` is about a process' own.

## 4. What the runs check

A mutated definition, named `Broken:` where it stands, makes each property of a
passing run fail; it is the bug the property guards against. The type
invariants are proved and are in no run.

| Run | Instance | What it shows |
|---|---|---|
| `slots` | 3 sessions, one there already, 1 slot; a caller and the pump; 3 calls of child, kill, send; dropped calls | `KeepsSlots` (the refinement of `SlotContract`); `OvershootBounded`: `max_concurrent` is counted before the claim, so it can be passed, by one run per caller and no more |
| `inbox` | 1 session, 4 messages, every outcome of a turn | `InOrder`, `PromisedIsRead` |
| `stop` | 2 sessions, 2 calls of message, send, compact, kill, child; aborts, budgets and failed launches; queueing off | `StaysKilled`; `SlotIsHeld`; `SlotHasOwner`: every handle has a run or a launch behind it; `ActiveIsNotStuck`: whoever reads Active has a run or is in somebody's hands |
| `live` | 2 sessions, 2 calls of spawn and kill, runs that die, one crash; fair | `QueuedIsTakenUp`, `SlotsAreFreed`, and `QueuedIsNotStuck` across the restart |
| `reports` | 2 children, 2 calls, launches that fail or find no slot, 1 stop or crash, 1 send or compaction, a cap of 1 wake | `PromiseIsInHand`: an end that a call was promised to hear of is told by a report on its way, or asked for with a run or a task that will come to it, unless the code broke the promise in one of five ways; `DueIsInHand`: a report that nobody reads yet is in the hands of a run, a timer, a wake or a queued run that will start to read no later than it, unless a run that reads nothing passed over it; `PendingHasTimer` |
| `note_sync` | 2 devices that write, the hub, 1 note and its copies, 3 edits, 1 failed sync (of one device, it does not matter which); fair | `NothingLost`, `OnlyGivenUpIsDeleted`, `ConflictsAreRealUnlessFailed`, `InStepAtLast` |
| `shells` | 1 registry, 2 shells, 2 commands, 2 calls, a limit of 1, spawns and waits that fail; fair | `LimitKept`, `NothingUnowned`, `SweptStaysDown`, `ForegroundIsTrue`, `EverythingEnds` |
| `approvals` | 2 calls, 2 clients, daemon and desktop, every setting; fair | `RunsWithLeave`, `OneAnswer`, `NoGhosts`, `QuestionsEnd` |
| `turns` | every driver, an agent with 2 subagents that writes 5 messages, one of them idle talk or of another turn, and may leave its input unread; fair | `KeepsContract` (the refinement), `StaysForAgents`, `TurnsEnd`, `AsksEnd` |
| `agents` | 2 processes, 2 runs of 1 session, 2 folders, `LIVE_MAX` 1, 2 parkings, 3 kinds of agent; fair | `TurnHasTools`, `Remembers`, `TimersSpare`, `ProcessesGo` |
| `store` | 2 processes, seven mixes of 3 or 4 calls, 2 tries, 2 ticks, 2 crashes or failed writes | `CacheIsTheFile`, `ReadsAreWhole`, `EditsAreKept`, `ActivityIsKept`, `ListSeesOwnEdits` |
| `dropped_call` | 1 session, 1 caller, 1 child, dropped calls | refutes `SlotHasOwner`, see below |

*Why the bounds are enough.* One slot and two sessions is the least in which one
must wait; the pump and a caller are two threads that can race for a claim, and
the claim is between two at a time. Two or three calls allow a run, a kill of it,
and a start that meets both. Four messages pass the turn cap (2 in the runs, 8
in the code, `MAX_TURNS`) and leave some for a second run. In `reports` two
children meet in one wake, two calls let one be messaged while it ends, and a cap
of one (12 in the code) is reached by the second wake. Three edits and two
devices give an edit on each side and one on top of either while a sync, a failed
one or a late request is under way. At a
limit of one shell (8 in the code) two starts already meet at the limit, and two calls are
all that can race in the registry at once. Two clients and two calls let each question be answered twice
and two questions wait together. Five messages are a subagent's start, its end, its wake, an answer
and one more, which is all the order there is between two channels, and let two subagents of an
ACP agent wake it and one overtake the other (start, start, end, end, and one woken turn, with the
answer on the other channel). Without the one message of idle talk it is one less. Claude's
subagents overtake each other only in seven messages: with `MaxWire = 7` the invariant was
checked once, and the theorem holds for every length and any number of subagents. Which
subagent is started next is no choice (`Fresh`), since they differ in nothing. Two processes are one
that is parked and one that is opened meanwhile, and `LIVE_MAX` of one (4 in
the code) is passed by the second; two parkings of a process are what a timer
can mistake. In `store` two appends and a read are the least in
which a read is extended across another's write, three reads with two evictions
the least in which one uses up two tries (3 in the code), two changes and two
lists the least in which an index is filled with what is already old.
The proofs of section 5 hold for every value of these bounds.

The runs use symmetry in run ids, in callers, in children or in calls and
processes, which are interchangeable; the fair runs use none.

*Deadlock* is not checked: the system may stop. Nobody needs to call, and the
pump sleeps when nothing is queued. What must not stop is stated as liveness.

*Fairness*, weak throughout, is stated for what the program itself does next:

* `Orchestrator`: every step of a caller that is inside a call, of the pump and
  of a run: they are tokio tasks that wait for nothing but short locks and file
  accesses. A turn ends (`TurnEnds`) because `TurnWatch` stops an agent that is
  silent for `IDLE_LIMIT`, and `KillWait` because of that too. Nothing makes a caller
  call: no call's beginning is fair, and no fault.
* `NoteSync`: a device syncs again and again (`SYNC_EVERY`) and the hub serves
  what it has received.
* `Shells`: the spawn and its adoption, the pump's time limits, which a lifetime
  that passes sets off, and `reap`. Nobody need look at a shell, nor stop it.
* `Approvals`: parking, time running out (`approval_wait_secs`), and the way
  out. Nobody need answer, and no tool need finish.
* `Turns`: the reader, the steps of the driver, and the time that a stopped
  agent has left (`STOP_GRACE`). The agent need do nothing, nor read anything. Of the
  limits only that of `initialize` is used: nobody reads `incoming` before it is answered, so
  what the agent asks there waits for it.
* `Agents`: the timers, the warm-up, and the end of a turn that was stopped.
  A turn that nobody stops may go on for ever.

### Disagreements found

`dropped_call` is a run that TLC refutes, with the line it disagrees with in
`PROJECT.json`. An agent that is stopped drops its calls. Dropped inside
`launch_inner`, a spawn leaves the child's handle in the map with no task: the
slot is lost and the child refuses every send, until it is killed or the program
restarts.

Seen in the models and kept as hazards, since no document promises otherwise:

* a launch that fails removes its handle and does not notify the pump: a session
  queued while it held the slot waits until something else notifies
  (`QueuedIsTakenUp` is refuted with `launch_fails` among the faults of `live`);
* two queued message runs of one session: the first reads both messages, the
  second finds its inbox empty and hands its own over again, as its prompt;
* a kill between the spawn of the task and its entry in the handle does not wait
  for the stopped run; the next run starts its turn beside it;
* a message to a session that is being compacted is left to a run that never
  reads its inbox, and so is one to a run that dies before its task is in the
  handle (`PromisesAreRead` is proved without the two);
* a stopped run that dies between a kill's write of Killed and its own write of
  Active leaves its session Active, with nobody to end it;
* a first run that a person starts, and a compaction, read no report, and a parent that is
  queued for one is not woken: the report stays in the transcript and no agent is handed
  it unless a later wake starts before it;
* the report of an ended run takes `report_to` from the run that follows it; a
  message that is not started takes back what was asked for by earlier ones; a queued run
  that fails to start, or ends before its report is asked for, is not reported;
* between the check of a note and its write another can write it, on a device and on the hub,
  where two devices' requests can both pass the check: one text is lost, or a new one deleted;
* the flag for a woken agent is cleared by another's woken turn, and the turn ends before the one
  it waits for;
* Claude's `error_max_turns` ends a turn as Completed when it is that of a turn before it,
  or when agents work; a Codex compaction takes any turn's end for its own;
* a turn that is stopped waits for its prompt or for `session/cancel` to be written,
  however long the agent does not read;
* a kill between the pump's look at the status and its launch does not stop the
  run; a message that finds no slot leaves `report_to` set; the loser of two
  first messages leaves its message to nobody if it is the earlier one;
  `run.json` has room for one queued run of a session and the queue for many; a
  popped message run that loses the claim leaves its session Queued;
* the name of a conflict copy counts as free if it is in neither listing; a copy
  longer than `MAX_NOTE` is in none, and the next conflict of the note overwrites
  it; a device whose push was carried out but not answered can be in conflict
  with its own earlier text, and so can one whose sync failed over a note that had
  vanished (what it agreed on before is forgotten); a note that grows past `MAX_NOTE` is deleted on the
  other machines;
* the desktop's row of an approval stays after an answer whose call was dropped
  in between, and its questions stay open after their run was stopped;
* two processes that change `meta.json` at once: one of the changes is undone.

## 5. What is proved

`OrchestratorProofs` proves, for every finite or infinite set of sessions,
callers and run ids, every setting and every choice of calls and faults, from the
named assumptions on the constants only:

* `TypeCorrect`: `Spec => []TypeOK`.
* `SlotHeld`: `Spec => []SlotIsHeld`: a run that nobody stopped holds the handle
  of its session from its claim to its release. This is what `SessionSlot` and the
  checks of run ids in `kill` and `launch` are for.
* `OneRun`: `Spec => []OneRunPerSession`, which follows: a handle names one run.
* `SlotsRefine`: `Spec => KeepsSlots`: every step of the orchestrator, whatever fails or
  is dropped, is a step of `SlotContract` or none. Where the two invariants above speak of
  states, this says who may change the slot and when.

`SlotIsHeld` is not inductive. The invariant `IInv` adds: a thread has a session,
and a run, where it uses one (`ThreadsHaveWork`, `RunsHaveSessions`); a kill that
is about to free a slot has cancelled its run or seen it over (`KillsAreSafe`),
without which `KillFree` could take the slot of a run at work; and a launch at
`start` is the only one at its claimed run (`StartsAreClaimed`), without which
`LaunchFails` could erase another's run. `IInv` was first checked with TLC as an
invariant. The proof has a lemma per action, which says that each conjunct is
kept, lemmas on `Reaped` and `Freed` for the handles map, and puts them together
in `Inductive`. The refinement has a lemma for each way a step can touch the
contract: it frees what nobody has a right to (`FreesRefine`), a run leaves its work
(`LeaveRefines`), the claim takes a slot (`ClaimRefines`); `StepsRefine` finds one of
these, or a stutter, behind every action. It needs `Owners` too (below): a launch
that fails frees the slot of its own session.

`ReportsProofs` proves every invariant of `Reports`, for any set of children, any
cap of at least one wake, any faults and any values of the bounds:

* `TypeCorrect`: `Spec => []TypeOK`.
* `TimerKept` and `CapKept`: `Spec => []PendingHasTimer` and `Spec => []CapIsKept`.
  They are inductive together with `AllowedHasRoom`: a wake that was allowed and
  is not yet counted has room under the cap. It is what makes the cap hold although
  reports and wakes look at the count at different moments, and it rests on
  `Fire` taking one wake at a time.
* `PromiseKept`: `Spec => []PromiseIsInHand`, every promise but those broken in the
  five ways of section 3. The promises are kept child by child
  (`Kept`): steps about one child leave the others alone (`OthersUntouched`), and
  a step that changes nothing of a child keeps its promises (`UntouchedKeeps`).
  To be inductive it needs that a call about a child that was not yet started is
  still to dispatch it (`HasChild`), that a report tells of no end that has not come
  (`TellsEnds`), and that what a call has asked for and was not yet promised is still asked for,
  or was taken by a report `by` the end it names (`AskedFor`).
* `DueKept`: `Spec => []DueIsInHand`. It needs `Bounded`, that nobody starts to read
  beyond the end of the transcript, and `Passed`, which is about what is due and was not
  passed over (`Awaited`): it is beyond the read
  mark, beyond what a live run has in view, and beyond where the next run without a
  read mark will start, be it at the head of the queue (`HeadPassed`) or a wake's
  (`WakePassed`); and nothing is awaited by a parent that was stopped or compacts. A run that starts
  then takes everything that is awaited, or passes it over (`StartClears`), and a wake that finds the
  parent running or queued leaves it in good hands (`RunHasDue`).

`OrchestratorProofs` goes on from there, with invariants on whose hands a handle is in.

* `SlotsOwned`: `Spec => []SlotHasOwner`, if no call is dropped (which
  `dropped_call` shows is needed), from `HandlesOwned`: a handle names its
  session's run, a run that is not attached has the launch that starts it, and a
  thread that starts a run has claimed it.
* `OvershootIsBounded`: `Spec => []OvershootBounded`, for a finite set of callers.
  The sum of live runs and of threads between the count and the claim does not
  grow but by a count that found room (`Room`).
* `PromisesAreRead`: `Spec => []PromisedIsRead`, if no run dies or is aborted and
  nothing is compacted (`Calm`): of every message left to a live run, the run is
  one that attends to its inbox (`Attends`) and has not looked past it (`InView`).
* `QueuedMoves` and `ActiveMoves`: `Spec => []QueuedIsNotStuck` and
  `Spec => []ActiveIsNotStuck`, from `SessionsLookedAfter`. The two properties let
  anybody who has the session in hand answer for it; a step by one that does not
  write the status breaks them, so the invariant `LookedAfter` names those who will:
  a thread at a place from which it goes on to a write (`Writing`), a run whose
  `settle` is still to come (`InCare`), and for Queued also whoever holds the entry
  (`InLine`). `Minding` says besides that a kill knows its session, that a run that is
  over with its handle was aborted by a kill, and that nothing settles as Active or
  Queued. Both assume that no call is dropped and no run dies (`NothingDies`): a
  call dropped at `push` leaves Queued with no entry, one at `count` leaves the
  child Active, and so does a stopped run that dies (section 4). The second assumes too that
  `spawn` finds a slot or a queue (`CreatesStart`): `create` leaves the session Active
  otherwise. Run `stop` is within these terms; run `live` lets runs die, where a kill
  cannot meet them, and so checks more than the theorem there.
* `KilledStays`: `Spec => []StaysKilled`, for calls that come one at a time, without a
  queue, and with neither drops, deaths nor failed runs (`OneAtATime`); aborts,
  failed launches, budgets and crashes are among the faults. The invariant `Resting` says that a
  stopped run at work has a kill waiting for it (`StopsWait`), that the handle a kill finds
  has its task (`HandlesAttached`), which is what makes the kill wait, that its slot stays free
  to its end (`StopsFree`), and that no run of a session at rest is about to begin
  (`AtRest`). A second caller breaks it, as TLC shows: a send that counted before the
  kill is launched after it, and begins where nobody stops it.
* `HandedInOrder`: `Spec => []InOrder`, for one caller that sends messages, a slot for
  every session and no fault (`OneInbox`), whatever the outcomes of the turns and any number of
  messages and sessions. The invariant `Inbox` ties the read mark, where a run begins and how
  far it has seen to what was handed over (`Told`, of every session): a run that has not begun
  starts at the mark, or at the first message (`Reads`), and with no run at work the
  mark is at what was handed over (`Rests`). Each assumption is needed: two
  callers claim in another order than they wrote; a failed launch, a crash, a budget
  and a death lose or repeat the input; at the limit a message is left unread or queued
  behind one that reads it too.

`ShellsProofs` proves, for finite sets of shells and commands and any limit,
`TypeCorrect`, `LimitHolds`, `Owned`, `SweptStaysStopped` and `Told` (`Spec =>
[]LimitKept`, `[]NothingUnowned`, `[]SweptStaysDown`, `[]DoneIsFinal`). The invariant is
a condition on every shell's record alone (`Fine`) and the limit on how many
of a registry are listed and not ended (`LiveKept`): a reservation counts before the process
is there, which is what keeps the limit across the unlocked spawn. `ListIsTrue`
(`[]ForegroundIsTrue`) has an invariant of its own, `ListTrue`, by positions of the
list: an entry of a command that runs is there, or the list is full.

`ApprovalsProofs` proves `TypeCorrect`, `LeaveGiven` (`[]RunsWithLeave`),
`AnsweredOnce` (`[]OneAnswer`) and `GhostsNamed` (`[]NoGhosts`) for any calls, clients and
settings. The key of a question is a token: it is in `pending`, in one client's
hands, or spent, so that one answer at most is sent.

`TurnsProofs` proves `TypeCorrect` and `Refinement` (`Spec => KeepsContract`), for
any number of messages and subagents. The invariant says for every phase of a turn what the
reply, the answer and the channel can be (`Phases`), and for each driver that an
answer it has taken was given, and after which messages (`AcpAnswer`,
`CodexAnswer`, `ClaudeEcho`, `ClaudeResults`, `ClaudeEnds`, `Stamps`). Every
action is then a step of the contract or none, but for the last one of a turn that goes
astray. `TurnsStay` (`[]StaysForAgents`) rests on `SubagentsTold` (`[]Helped`): there are no
subagents before the prompt (`NoneEarly`); the wire tells of each what became of it, and of one
that waits to have its turn, that no turn ended since but such as overtook it (`Tells`,
with `Running` and `Waiting`); what the turn knows is what the messages it has taken say (`Knows`);
and where the prompt was answered, and nobody is said to work or was overtaken, nobody
works ever after (`Quiet`). So whoever is left when a turn is Completed was overtaken
(`AtWork`), or started in the turn of one who was (`AtEnd`). With three subagents this goes on:
that one's own subagents are unheard too, which is why the exception is about any.

`AgentsProofs` proves `TypeCorrect`, `ToolsKept` (`[]TurnHasTools`), `Remembered`
(`[]Remembers`) and `Spared` (`TimersSpare`) for any processes, runs and
sessions. What is used is not parked, no process is parked twice (`Users`,
`OneCounts`), a run is where its session was (`Places`, `Homes`), a parked
process has seen all of its conversation, or no run will match it (`Memory`),
and the numbers of parkings are never used again (`Numbers`).

`NoteSyncProofs` proves `TypeCorrect` for any devices, notes and bounds. If no note is longer
than `MAX_NOTE` (`Big = {}`; section 4 says what happens otherwise) it proves
`KeepsEverything` (`[]NothingLost`) and `DeletesGivenUp` (`[]OnlyGivenUpIsDeleted`), with edits and
requests that overlap in any way: what comes into a window is in `crossed`, and what is not is
not lost. `NothingLost` is not inductive: the invariant follows
every text that stands (alive and not crossed) through a sync. A text in `base` is on both sides or
given up (`Held`), so where a listing differs from `base` the text was given up
(`Plans`); what is agreed on and fetched is what the sides hold (`Agrees`); what
will be put or deleted replaces only what was given up (`Asks`); a text about to
be written over was put aside or given up (`Works`), under a name no other note
has (`Names`, `AsideIsFree`, `AsideInjective`); and no request on its way
replaces a text that stands, be it checked already or not, and however late it is carried out
(`Posted`). `World` shows that edits and the hub keep all this, `StepFits` what a step of the sync must show.

If `Big = {}`, too, it proves `ConflictsReal` (`[]ConflictsAreRealUnlessFailed`). The line
of a text is the text and what it was written over (`Line`), and `Apart`, which holds until
a sync fails, says who has what. A text a device has of its own, and has not agreed on, is in
the line of nothing that is anywhere else (`OwnIsNew`, `Fresh`); a copy put aside is
not in the line of the note it was taken from (`CopiesApart`); a request on its way
is that of the device that waits for it (`Told`); what a device takes for changed was
changed, on either side, and what it finds of its own line it agreed on
(`Knows`). A failed sync breaks it, for its request stays on its way and its `base` is behind
what the hub has: the inductive invariant is `IInv /\ (failed \/ Apart)`.

`StoreProofs` proves every invariant of `Store`, for any processes, calls, tries and
bounds: `TypeCorrect`, `CacheIsTrue` (`[]CacheIsTheFile`), `ReadsAreTrue` (`[]ReadsAreWhole`),
`EditsStay` (`[]EditsAreKept`), `ActivityStays` (`[]ActivityIsKept`) and `ListIsFresh`
(`[]ListSeesOwnEdits`). It has two halves.

* The file. What `Cut` and `Events` return is first proved of every text: `Events` is a
  recursive function, and its values follow by induction, which is carried out with the
  least element of a set of naturals (`Least`, `Climbs`), since the induction theorems of the
  library cannot be instantiated. `IsUpTo` says it without recursion: what is read of a
  text is a growing sequence, one event longer at every position where `EndsEvent` holds. The
  file only grows, so what was known of a part of it stays true (`PastKept`), and a reader
  that takes a part between two newlines joins it to what it knows. `Appends` says of
  every append where its line is by now and who is in the middle of a write; `Entries`
  that every cache is what its part of the file says; `Reads` what a read has covered,
  by where it is: the appends that had returned before it began end their lines within
  what it has taken (`Covers`).
* `meta.json`. `Locked` says that one thread of a process at a time is between the read
  of an edit and its settling, `EditsInv` that the copy in its hands has every edit that was made
  before it, but for those another process may undo, `ActivityInv` (while no two
  processes change the file at once) that the time of the last event is in the file, in
  every copy about to replace it, or remembered, and `VersionsInv` that the index, and what a
  list is about to put there, are no older than the last change of the process.

`Sound` is their conjunction and was checked with TLC before it was proved.

*Only model-checked*: the liveness properties (TLAPS has no rules for fairness
here, and ENABLED is out of its reach). No module has a RECURSIVE operator.

## 6. What is not modelled

* In the orchestrator: fork, rewind and delete of a session, applied settings,
  events shown to the desk. `LaunchFails` is taken only before
  the task is spawned; in the code `LAUNCH_WAIT` can also pass at the last lock
  after it.
* In the reports: their text, messages between sessions that are not parent and
  child (`Orchestrator` has those), and deliveries that fail for want of disk.
* In the sync: notes that are not UTF-8 (their text changes on the way), more than
  5000 notes, two processes that sync the same device, `claim_plain_folders`
  (an edit like any other), settings, mirrors.
* In the shells: what the output says. In the approvals: the window and the
  daemon's other requests.
* In the drivers: the vendors' messages but for what they mean to a turn, sign-in
  and status, an agent that has lost a session (`SessionLost`), a change of
  provider, billing, models.
* In the store: create, purge, fork, the cascade of a kill over child sessions,
  `session.md` (which is written from a list that may be behind), an append to a
  deleted session, whose entry in the cache stays.
* The other components of section 1, for the reasons in `PROJECT.json`: planned
  (`Mirror`, `Settings`), or file formats, vendor protocols, platform calls and
  presentation with little state of their own.

The models stand for the code that decides what happens in which order. The
rest, which is most of the lines, writes and reads formats (`brain.rs`, the wire
formats in `acp.rs`, `codex.rs` and `claude.rs`, the tools' arguments), calls the
platform (`onboard.rs`, `browser`, the window) or prints (`main.rs` of the command
line): a model of it would say the same as the code, and its tests say it
already. So the map covers a small share of the lines.
