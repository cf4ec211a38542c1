--------------------------------- MODULE Turns ---------------------------------
(***************************************************************************)
(* One turn of an agent: run_turn of the ACP driver (acp.rs: Grok,         *)
(* OpenCode and others), of Codex (codex.rs) and of Claude Code            *)
(* (claude.rs), over the JSON-RPC peer of jsonrpc.rs and the Link of       *)
(* claude.rs.  The agent is another process and may do as it likes.        *)
(*                                                                         *)
(* wire is all the agent has written, answers to requests left out: read   *)
(* says how far the reader task is with it, taken how far the turn is with *)
(* the channel incoming, which holds what is between.  response is an      *)
(* answer to a request that is still on the wire, after as many messages;  *)
(* reply is the oneshot channel of the request that is under way.          *)
(***************************************************************************)
EXTENDS Naturals, Sequences

CONSTANTS
  Driver,    \* the drivers looked at, of "acp", "codex", "claude"
  Subagent,  \* the subagents the agent can start in the background
  MaxWire,   \* bound: the messages of the agent, one less after MaxSay of the others
  MaxSay     \* bound: those that neither begin nor end anything of this turn

Spare == {"say", "odd", "ask", "ended"}
Tidings == {"echo", "began", "finished", "wakes", "agents", "woken"}
Hows == {"ok", "max", "cancelled", "refused", "error"}

\* A message about the subagents "of".  The answer to the prompt is one for
\* Codex and Claude; it is not "mine" where it is another turn's.
Message == [what : Spare \cup Tidings \cup Hows, of : SUBSET Subagent, mine : BOOLEAN]
Msg(what, of) == [what |-> what, of |-> of, mine |-> TRUE]
Foreign(how) == [what |-> how, of |-> {}, mine |-> FALSE]

Answers == [how : Hows \cup {"none"}, after : 0 .. MaxWire]
Nothing == [how |-> "none", after |-> 0]

ASSUME DriverAssumption == Driver \subseteq {"acp", "codex", "claude"}
ASSUME BoundAssumption == MaxWire \in Nat /\ MaxSay \in Nat

VARIABLES
  driver,     \* the driver of this turn
  cancelled,  \* the run is cancelled
  agent,      \* the agent's process: boots, opens, ready, works, rests, gone
  helper,     \* each background subagent: none, runs, wakes it, over
  answer,     \* history: how it answered the prompt, and after how much
  wire, read, eof,  \* its output, and how far the reader is
  full,       \* its input is full: who writes waits until it reads the prompt
  response, reply,
  taken,      \* how far the turn is with incoming
  held,       \* how much of it was put aside until the prompt goes out
  ask,        \* a permission: none, asked, decides, told
  at,         \* where the turn is: init, setup, prompts, starts, loop, over
  writes,     \* the loop awaits a write to the agent, and polls nothing else
  named,      \* Codex: the turn has an id, no compaction has
  stopping,   \* interrupting: the agent was told to stop, and has STOP_GRACE
  known,      \* Background, or st.agents: what the turn knows of the subagents
  seen,       \* prompt_seen: Claude has echoed the prompt
  answered,   \* the prompt was answered and the turn stays for subagents
  open,       \* incoming has not ended
  outcome     \* the TurnEnd, "failed" for an error, or "none"

proc == <<agent, helper, answer, ask>>
pipe == <<wire, response>>
link == <<read, eof, reply>>
turn == <<taken, held, at, writes, named, stopping, known, seen, answered, open, outcome>>
vars == <<driver, cancelled, proc, pipe, full, link, turn>>

Idle == [runs |-> {}, wake |-> FALSE]

TypeOK ==
  /\ driver \in Driver /\ cancelled \in BOOLEAN
  /\ agent \in {"boots", "opens", "ready", "works", "rests", "gone"}
  /\ helper \in [Subagent -> {"none", "runs", "wakes", "over"}]
  /\ answer \in Answers
  /\ wire \in Seq(Message) /\ Len(wire) <= MaxWire
  /\ read \in 0 .. Len(wire) /\ eof \in BOOLEAN /\ full \in BOOLEAN
  /\ response \in Answers
  /\ reply \in {"none", "waits", "closed"} \cup Hows
  /\ taken \in 0 .. read /\ held \in 0 .. taken
  /\ ask \in {"none", "asked", "decides", "told"}
  /\ at \in {"init", "setup", "prompts", "starts", "loop", "over"}
  /\ writes \in BOOLEAN /\ named \in BOOLEAN /\ stopping \in BOOLEAN
  /\ known \in [runs : SUBSET Subagent, wake : BOOLEAN]
  /\ seen \in BOOLEAN /\ answered \in BOOLEAN /\ open \in BOOLEAN
  /\ outcome \in {"none", "completed", "interrupted", "failed"}

\* A request of the setup is under way: initialize of an ACP agent that was
\* just started, and then one that stands for all the others, which open the
\* session or thread and choose the model and the effort.
Init ==
  /\ driver \in Driver /\ cancelled = FALSE
  /\ \/ at = "init" /\ agent = "boots" /\ driver = "acp"
     \/ at = "setup" /\ agent = "opens"
  /\ helper = [h \in Subagent |-> "none"] /\ answer = Nothing
  /\ wire = <<>> /\ read = 0 /\ eof = FALSE /\ full = FALSE
  /\ response = Nothing /\ reply = "waits"
  /\ taken = 0 /\ held = 0
  /\ ask = "none"
  /\ writes = FALSE /\ named = TRUE /\ stopping = FALSE
  /\ known = Idle /\ seen = FALSE /\ answered = FALSE /\ open = TRUE
  /\ outcome = "none"

Cancel ==
  /\ ~cancelled
  /\ cancelled' = TRUE
  /\ UNCHANGED <<driver, proc, pipe, full, link, turn>>

(***************************************************************************)
(* The agent                                                               *)
(***************************************************************************)
Runs == {h \in Subagent : helper[h] = "runs"}
Waits == {h \in Subagent : helper[h] = "wakes"}
\* The next one there is: which it is does not matter.
Fresh == IF \E h \in Subagent : helper[h] = "none"
         THEN {CHOOSE h \in Subagent : helper[h] = "none"} ELSE {}
Now(S, state) == helper' = [h \in Subagent |-> IF h \in S THEN state ELSE helper[h]]

Active == agent = "works" \/ (agent = "rests" /\ Runs \cup Waits # {})

MaySay == Len(SelectSeq(wire, LAMBDA m : m.what \in Spare \/ ~m.mine)) < MaxSay

Writes(m) ==
  /\ Len(wire) < (IF MaySay THEN MaxWire ELSE MaxWire - 1)
  /\ wire' = Append(wire, m)

HowsOf(d) == CASE d = "acp" -> Hows
               [] d = "codex" -> {"ok", "cancelled", "error"}
               [] d = "claude" -> {"ok", "max", "error"}

Responds(how) == response' = [how |-> how, after |-> Len(wire)]

\* It answers initialize, and then the requests that open its session.
Boot ==
  /\ \/ agent = "boots" /\ agent' = "opens"
     \/ agent = "opens" /\ at = "setup" /\ agent' = "ready"
  /\ \E how \in {"ok", "error"} : Responds(how)
  /\ UNCHANGED <<driver, cancelled, helper, answer, ask, wire, full, link, turn>>

\* It reads the prompt.  Codex answers turn/start, Claude echoes the prompt.
Begin ==
  /\ agent = "ready"
  /\ at \in (IF driver = "codex" THEN {"starts"} ELSE {"prompts", "loop"})
  /\ agent' = "works" /\ full' = FALSE
  /\ IF driver = "codex" THEN \E how \in {"ok", "error"} : Responds(how)
                         ELSE UNCHANGED response
  /\ IF driver = "claude" THEN Writes(Msg("echo", {})) ELSE UNCHANGED wire
  /\ UNCHANGED <<driver, cancelled, helper, answer, ask, link, turn>>

\* An update, or a request Parzi does not offer.
Say ==
  /\ agent # "gone"
  /\ MaySay
  /\ \E what \in {"say", "odd"} : Writes(Msg(what, {}))
  /\ UNCHANGED <<driver, cancelled, proc, full, response, link, turn>>

\* An ACP agent may have to ask before it can start.
Ask ==
  /\ ask = "none" /\ MaySay
  /\ Active \/ (agent \in {"boots", "opens"} /\ driver = "acp")
  /\ Writes(Msg("ask", {}))
  /\ ask' = "asked"
  /\ UNCHANGED <<driver, cancelled, agent, helper, answer, full, response, link, turn>>

\* Claude resumes and may first end a turn of its own; Codex reports the end
\* of other turns of the thread.
Elsewhere ==
  /\ \/ driver = "claude" /\ agent \in {"opens", "ready"}
     \/ driver = "codex" /\ agent \in {"ready", "works", "rests"}
  /\ MaySay
  /\ \E how \in HowsOf(driver) : Writes(Foreign(how))
  /\ UNCHANGED <<driver, cancelled, proc, full, response, link, turn>>

\* The agent, or a turn it was woken for, starts one; Claude lists those that
\* run whenever that changes.
StartHelper ==
  /\ agent = "works" \/ (agent = "rests" /\ Waits # {})
  /\ driver \in {"acp", "claude"}
  /\ \E h \in Fresh :
       /\ Now({h}, "runs")
       /\ Writes(IF driver = "acp" THEN Msg("began", {h}) ELSE Msg("agents", Runs \cup {h}))
  /\ UNCHANGED <<driver, cancelled, agent, answer, ask, full, response, link, turn>>

\* will_wake, for ACP; Claude wakes if it has ended its own turn by then.
HelperEnds ==
  /\ agent \in {"works", "rests"}
  /\ \E h \in Runs, wakes \in BOOLEAN :
       /\ driver = "claude" => wakes = (agent = "rests")
       /\ Now({h}, IF wakes THEN "wakes" ELSE "over")
       /\ Writes(IF driver = "claude" THEN Msg("agents", Runs \ {h})
                   ELSE Msg(IF wakes THEN "wakes" ELSE "finished", {h}))
  /\ UNCHANGED <<driver, cancelled, agent, answer, ask, full, response, link, turn>>

\* The turn of its own that the agent runs when some have woken it, those "of"
\* its message are still to have theirs.
WokenTurn ==
  /\ agent = "rests"
  /\ \E S \in (SUBSET Waits) \ {{}} :
       /\ Now(S, "over")
       /\ \E what \in (IF driver = "claude" THEN {"woken", "max", "error"} ELSE {"woken"}) :
            Writes(Msg(what, Waits \ S))
  /\ UNCHANGED <<driver, cancelled, agent, answer, ask, full, response, link, turn>>

Answer ==
  /\ agent = "works"
  /\ agent' = "rests"
  /\ \E how \in HowsOf(driver) :
       /\ IF driver = "acp"
          THEN /\ \/ MaySay /\ Writes(Msg("ended", {}))
                  \/ UNCHANGED wire
               /\ response' = [how |-> how, after |-> Len(wire')]
          ELSE Writes(Msg(how, {})) /\ UNCHANGED response
       /\ answer' = [how |-> how, after |-> Len(wire')]
  /\ UNCHANGED <<driver, cancelled, helper, ask, full, link, turn>>

Exit ==
  /\ agent # "gone"
  /\ agent' = "gone"
  /\ UNCHANGED <<driver, cancelled, helper, answer, ask, pipe, full, link, turn>>

(***************************************************************************)
(* read_loop and dispatch of the peer; Link::start and settle              *)
(***************************************************************************)
ReadMessage ==
  /\ ~eof /\ read < Len(wire)
  /\ response = Nothing \/ read < response.after
  /\ read' = read + 1
  /\ UNCHANGED <<driver, cancelled, proc, pipe, full, eof, reply, turn>>

\* An answer nobody waits for any more is dropped.
ReadResponse ==
  /\ ~eof /\ response # Nothing /\ read = response.after
  /\ response' = Nothing
  /\ reply' = IF reply = "waits" THEN response.how ELSE reply
  /\ UNCHANGED <<driver, cancelled, proc, wire, full, read, eof, turn>>

\* Broken: the requests under way are left in the table.
ReadEofKeeps ==
  /\ ~eof /\ agent = "gone" /\ response = Nothing /\ read = Len(wire)
  /\ eof' = TRUE
  /\ UNCHANGED <<driver, cancelled, proc, pipe, full, read, reply, turn>>

ReadEof ==
  /\ ~eof /\ agent = "gone" /\ response = Nothing /\ read = Len(wire)
  /\ eof' = TRUE
  /\ reply' = IF reply = "waits" THEN "closed" ELSE reply
  /\ UNCHANGED <<driver, cancelled, proc, pipe, full, read, turn>>

(***************************************************************************)
(* A permission: the task that asks the gate, outside of the turn's loop.  *)
(* Once session/cancel is sent it no longer waits for the gate.  A write   *)
(* to a process that is gone is an error at once.                          *)
(***************************************************************************)
Clear == ~full \/ agent = "gone"

Decide ==
  /\ ask = "decides" /\ Clear
  /\ ask' = "told"
  /\ UNCHANGED <<driver, cancelled, agent, helper, answer, pipe, full, link, turn>>

TakesAsk == ask' = IF wire[taken + 1].what = "ask" THEN "decides" ELSE ask

Ends(how) == at' = "over" /\ outcome' = how

(***************************************************************************)
(* Before the prompt: or_cancel, with the limits of the requests           *)
(***************************************************************************)
Awaits == at \in {"init", "setup", "starts"}

StopEarly ==
  /\ Awaits /\ cancelled
  /\ Ends("interrupted")
  /\ UNCHANGED <<driver, cancelled, proc, pipe, full, link, taken, held, writes, named, stopping,
                 known, seen, answered, open>>

\* Refused, closed, or no answer within the limit.
NoStart ==
  /\ Awaits /\ ~cancelled
  /\ reply \in {"waits", "error", "closed"}
  /\ Ends("failed")
  /\ UNCHANGED <<driver, cancelled, proc, pipe, full, link, taken, held, writes, named, stopping,
                 known, seen, answered, open>>

\* A request goes out, and fails if nobody is there.
Requests == reply' = IF agent = "gone" THEN "closed" ELSE "waits"

\* Nobody reads incoming before initialize is answered.
Opens ==
  /\ at = "init" /\ ~cancelled /\ reply = "ok"
  /\ at' = "setup"
  /\ Requests
  /\ UNCHANGED <<driver, cancelled, proc, pipe, full, read, eof, taken, held, writes, named, stopping,
                 known, seen, answered, open, outcome>>

\* Broken: requests are held like the rest.
MeanwhileHolds ==
  /\ driver = "acp" /\ at = "setup" /\ ~cancelled
  /\ taken < read
  /\ taken' = taken + 1 /\ held' = held + 1
  /\ UNCHANGED <<driver, cancelled, proc, pipe, full, link,
                 at, writes, named, stopping, known, seen, answered, open, outcome>>

\* meanwhile of ACP: requests are answered, the rest is held.
Meanwhile ==
  /\ driver = "acp" /\ at = "setup" /\ ~cancelled
  /\ taken < read
  /\ taken' = taken + 1 /\ held' = held + 1
  /\ TakesAsk
  /\ UNCHANGED <<driver, cancelled, agent, helper, answer, pipe, full, link,
                 at, writes, named, stopping, known, seen, answered, open, outcome>>

\* The prompt is written in a task of its own, which keeps the writer until
\* the agent has read enough of it.
AcpPrompt ==
  /\ driver = "acp" /\ at = "setup" /\ ~cancelled /\ reply = "ok"
  /\ at' = "loop" /\ full' \in BOOLEAN
  /\ Requests
  /\ held' = 0
  /\ UNCHANGED <<driver, cancelled, proc, pipe, read, eof, taken, writes, named, stopping,
                 known, seen, answered, open, outcome>>

CodexStart ==
  /\ driver = "codex" /\ at = "setup" /\ ~cancelled /\ reply = "ok"
  /\ at' = "starts"
  /\ Requests
  /\ UNCHANGED <<driver, cancelled, proc, pipe, full, read, eof, taken, held, writes, named, stopping,
                 known, seen, answered, open, outcome>>

\* A compaction has no turn id.
CodexStarted ==
  /\ at = "starts" /\ ~cancelled /\ reply = "ok"
  /\ at' = "loop" /\ reply' = "none"
  /\ named' \in BOOLEAN
  /\ UNCHANGED <<driver, cancelled, proc, pipe, full, read, eof, taken, held, writes, stopping,
                 known, seen, answered, open, outcome>>

\* The prompt is written outside of any cancel and limit: whole if the pipe
\* has room for it, else when the agent has read it.
ClaudePrompt ==
  /\ driver = "claude" /\ at = "setup" /\ ~cancelled /\ reply = "ok" /\ taken = read
  /\ reply' = "none"
  /\ IF agent = "gone" THEN Ends("failed") /\ UNCHANGED full
     ELSE /\ full' \in BOOLEAN
          /\ at' \in {"loop"} \cup (IF full' THEN {"prompts"} ELSE {})
          /\ UNCHANGED outcome
  /\ UNCHANGED <<driver, cancelled, proc, pipe, read, eof, taken, held, writes, named, stopping,
                 known, seen, answered, open>>

ClaudePrompted ==
  /\ at = "prompts" /\ Clear
  /\ IF agent = "gone" /\ full THEN Ends("failed") ELSE at' = "loop" /\ UNCHANGED outcome
  /\ UNCHANGED <<driver, cancelled, proc, pipe, full, link, taken, held, writes, named, stopping,
                 known, seen, answered, open>>

(***************************************************************************)
(* The loop of the turn                                                    *)
(***************************************************************************)
idle == <<driver, cancelled, proc, pipe, full, link, named>>

InLoop == at = "loop" /\ ~writes

\* interrupting: Codex and Claude are told in a task; the loop of ACP itself
\* writes session/cancel, behind the prompt.
SeeStop ==
  /\ InLoop /\ cancelled /\ ~stopping
  /\ stopping' = TRUE
  /\ writes' = (driver = "acp" /\ full)
  /\ UNCHANGED <<idle, taken, held, at, known, seen, answered, open, outcome>>

Written ==
  /\ writes /\ Clear
  /\ writes' = FALSE
  /\ UNCHANGED <<idle, taken, held, at, stopping, known, seen, answered, open, outcome>>

\* A request that is not offered is refused by the loop itself.
Refuses == writes' = (at = "loop" /\ wire[taken + 1].what = "odd" /\ full)

\* stop_by has passed.
Elapse ==
  /\ InLoop /\ stopping
  /\ Ends("interrupted")
  /\ UNCHANGED <<idle, taken, held, writes, stopping, known, seen, answered, open>>

\* Background::note, and background_tasks_changed of Claude, whose number is
\* all that counts.
Starts(m, h) == m.what \in {"began", "agents"} /\ h \in m.of
Stops(m, h) == \/ m.what \in {"finished", "wakes"} /\ h \in m.of
               \/ m.what = "agents" /\ h \notin m.of

Note(m) ==
  [runs |-> {h \in Subagent : Starts(m, h) \/ (h \in known.runs /\ ~Stops(m, h))},
   wake |-> m.what = "wakes" \/ (known.wake /\ m.what # "woken")]

Busy(k) == k.runs # {} \/ k.wake

\* select! is biased: the stop comes before the messages, these before the answer.
Sees == InLoop /\ (cancelled => stopping)
Caught == taken = read /\ (eof => ~open)
Requested == {"ask", "odd"}

AcpTake ==
  /\ driver = "acp" /\ Sees /\ taken < read
  /\ taken' = taken + 1
  /\ TakesAsk /\ Refuses
  /\ known' = Note(wire[taken'])
  /\ IF answered /\ wire[taken'].what \notin Requested /\ ~Busy(known')
     THEN Ends("completed") ELSE UNCHANGED <<at, outcome>>
  /\ UNCHANGED <<driver, cancelled, agent, helper, answer, pipe, full, link,
                 held, named, stopping, seen, answered, open>>

AcpClosed ==
  /\ driver = "acp" /\ Sees /\ eof /\ open /\ taken = read
  /\ open' = FALSE
  /\ IF answered THEN Ends("completed") ELSE UNCHANGED <<at, outcome>>
  /\ UNCHANGED <<idle, taken, held, writes, stopping, known, seen, answered>>

\* closed, cancelled, and whatever ends a turn that is being stopped.
AcpEnd(how) ==
  IF how = "refused" \/ (how = "error" /\ ~stopping) THEN "failed"
  ELSE IF how = "max" \/ (how = "ok" /\ ~stopping) THEN "completed"
  ELSE "interrupted"

\* Broken: it ends with its answer whoever still works.
AcpDoneAtOnce ==
  /\ driver = "acp" /\ Sees /\ Caught /\ ~answered
  /\ reply \notin {"none", "waits"}
  /\ reply' = "none"
  /\ Ends(AcpEnd(reply))
  /\ UNCHANGED <<driver, cancelled, proc, pipe, full, read, eof, taken, held, writes, named, stopping,
                 known, seen, answered, open>>

\* Broken: the answer may come before the messages.
AcpDoneUnbiased ==
  /\ driver = "acp" /\ InLoop /\ ~answered
  /\ reply \notin {"none", "waits"}
  /\ reply' = "none"
  /\ IF AcpEnd(reply) = "completed" /\ Busy(known) /\ open
     THEN answered' = TRUE /\ UNCHANGED <<at, outcome>>
     ELSE Ends(AcpEnd(reply)) /\ UNCHANGED answered
  /\ UNCHANGED <<driver, cancelled, proc, pipe, full, read, eof, taken, held, writes, named, stopping,
                 known, seen, open>>

\* The prompt was answered: over, unless subagents go on.
AcpDone ==
  /\ driver = "acp" /\ Sees /\ Caught /\ ~answered
  /\ reply \notin {"none", "waits"}
  /\ reply' = "none"
  /\ IF AcpEnd(reply) = "completed" /\ Busy(known) /\ open
     THEN answered' = TRUE /\ UNCHANGED <<at, outcome>>
     ELSE Ends(AcpEnd(reply)) /\ UNCHANGED answered
  /\ UNCHANGED <<driver, cancelled, proc, pipe, full, read, eof, taken, held, writes, named, stopping,
                 known, seen, open>>

\* The agent is silent and its log ends with an error.
AcpSilent ==
  /\ driver = "acp" /\ Sees /\ ~stopping /\ Caught
  /\ reply = "waits" \/ answered
  /\ Ends("failed")
  /\ UNCHANGED <<idle, taken, held, writes, stopping, known, seen, answered, open>>

\* Another turn's end is nothing to this one, if this one has an id; a failure
\* is one, stopped or not.
CodexTake ==
  /\ driver = "codex" /\ at = "loop" /\ taken < read
  /\ taken' = taken + 1
  /\ TakesAsk
  /\ LET m == wire[taken']
         how == IF m.mine \/ ~named THEN m.what ELSE "say"
     IN CASE how = "ok" -> Ends(IF stopping THEN "interrupted" ELSE "completed")
          [] how = "cancelled" -> Ends("interrupted")
          [] how = "error" -> Ends("failed")
          [] OTHER -> UNCHANGED <<at, outcome>>
  /\ UNCHANGED <<driver, cancelled, agent, helper, answer, pipe, full, link,
                 held, writes, named, stopping, known, seen, answered, open>>

\* handle, before and after the prompt.  A success counts once the prompt was
\* echoed, and is not the last one while agents run in the background; neither
\* is asked of a turn that ran into its limit, or failed.
ClaudeTake ==
  /\ driver = "claude" /\ at \in {"setup", "loop"} /\ ~writes /\ (at = "setup" => ~cancelled)
  /\ taken < read
  /\ taken' = taken + 1
  /\ TakesAsk /\ Refuses
  /\ seen' = (seen \/ wire[taken'].what = "echo")
  /\ known' = Note(wire[taken'])
  /\ LET what == wire[taken'].what
     IN CASE what \in {"ok", "woken"} /\ seen /\ (stopping \/ known.runs = {}) ->
               Ends(IF stopping THEN "interrupted" ELSE "completed")
          [] what = "max" -> Ends(IF stopping THEN "interrupted" ELSE "completed")
          [] what = "error" -> Ends(IF stopping THEN "interrupted" ELSE "failed")
          [] OTHER -> UNCHANGED <<at, outcome>>
  /\ UNCHANGED <<driver, cancelled, agent, helper, answer, pipe, full, link,
                 held, named, stopping, answered, open>>

\* incoming ends before the turn does.
StreamClosed ==
  /\ driver \in {"codex", "claude"} /\ InLoop /\ eof /\ taken = read
  /\ Ends(IF stopping THEN "interrupted" ELSE "failed")
  /\ UNCHANGED <<idle, taken, held, writes, stopping, known, seen, answered, open>>

Agent == \/ Boot \/ Begin \/ Say \/ Ask \/ Elsewhere \/ StartHelper \/ HelperEnds
         \/ WokenTurn \/ Answer \/ Exit
Reader == ReadMessage \/ ReadResponse \/ ReadEof
Setup == \/ StopEarly \/ NoStart \/ Opens \/ Meanwhile \/ AcpPrompt
         \/ CodexStart \/ CodexStarted \/ ClaudePrompt \/ ClaudePrompted
Loop == \/ SeeStop \/ Written \/ Elapse \/ AcpTake \/ AcpClosed \/ AcpDone \/ AcpSilent
        \/ CodexTake \/ ClaudeTake \/ StreamClosed

\* What happens to the process after its turn is another matter (see Agents).
Next == at # "over" /\ (Cancel \/ Agent \/ Reader \/ Decide \/ Setup \/ Loop)

Spec == Init /\ [][Next]_vars

(***************************************************************************)
(* The tasks run; the agent and the person who stops it may not, and       *)
(* nothing makes the agent read.  Of the limits only that of initialize    *)
(* is leaned on: nothing but it ends a wait for an answer there.           *)
(***************************************************************************)
Fairness ==
  /\ WF_vars(Reader) /\ WF_vars(Decide)
  /\ WF_vars(StopEarly) /\ WF_vars(NoStart /\ (reply # "waits" \/ at = "init"))
  /\ WF_vars(Opens \/ Meanwhile \/ AcpPrompt \/ CodexStart \/ CodexStarted \/ ClaudePrompt)
  /\ WF_vars(ClaudePrompted) /\ WF_vars(Written)
  /\ WF_vars(SeeStop) /\ WF_vars(Elapse)
  /\ WF_vars(AcpTake \/ AcpClosed \/ AcpDone \/ CodexTake \/ ClaudeTake \/ StreamClosed)

LiveSpec == Spec /\ Fairness

(***************************************************************************)
(* Properties                                                              *)
(***************************************************************************)

\* The end of another turn was taken for this one's: Claude's at its limit,
\* which is not looked at, and any where a Codex turn has no id.
Astray ==
  /\ outcome \in {"completed", "interrupted"}
  /\ taken > 0 /\ ~wire[taken].mine
  /\ \/ driver = "claude" /\ wire[taken].what = "max"
     \/ driver = "codex" /\ ~named

C == INSTANCE TurnContract WITH
       stopped <- cancelled,
       gone <- agent = "gone",
       sent <- Len(wire),
       heard <- taken - held,
       outcome <- IF Astray THEN "failed" ELSE outcome

\* A turn of each driver keeps the contract of run_turn, unless it goes astray:
\* Completed comes after an answer and after all the agent wrote before it,
\* though the answer and the messages come by different channels; Interrupted
\* comes from a stop, an agent that broke off or one that says so.
KeepsContract == C!Spec

\* The turn was told that a woken agent has ended its turn, when h was yet to
\* have the one it woke the agent for.
Overtaken(h) == \E i \in 1 .. taken : wire[i].what = "woken" /\ h \in wire[i].of

Told(h) == \E i \in 1 .. taken : Starts(wire[i], h)

\* Claude ran into its limit of turns, which ends the turn whoever works.
AtLimit == driver = "claude" /\ taken > 0 /\ wire[taken].what = "max"

\* A turn that ends as Completed, with the agent still there and below its
\* limit, leaves no subagent running that it was told of, and none that was to
\* wake the agent without the turn it woke it for.  The one exception is the
\* code's own, one flag for all that wake: a subagent that another's turn has
\* overtaken, and what is started in its turn, which was not heard of.
StaysForAgents ==
  outcome = "completed" /\ ~eof /\ ~AtLimit =>
    \A h \in Runs \cup Waits :
      Overtaken(h) \/ (~Told(h) /\ \E g \in Subagent : Overtaken(g))

\* The turn awaits a write, and the agent does not read.
Stuck == full /\ agent # "gone" /\ (writes \/ at = "prompts")

\* A stopped turn ends, and so does one whose agent is gone, whatever it waits
\* for by then: an answer of the setup, its prompt, a subagent, the agent's
\* word that it has stopped.  It waits for good only while it writes to an
\* agent that never reads.
TurnsEnd == (cancelled \/ agent = "gone") ~> (at = "over" \/ Stuck)

\* A permission the agent asks for is answered, before its session is open
\* too, unless the agent goes, does not read, or the turn ends; while nobody
\* reads what it asks, the turn ends by the limit of initialize.
AsksEnd ==
  ask \in {"asked", "decides"} ~> (ask = "told" \/ agent = "gone" \/ at = "over" \/ full)
================================================================================
