------------------------------- MODULE Approvals -------------------------------
(***************************************************************************)
(* A tool call of an agent from its start to its end, and the person it    *)
(* may have to wait for: ToolHost::call and ask, the approver and asker of *)
(* the daemon (osserve.rs) and of the desktop (main.rs), and the ways an   *)
(* answer comes in: a client of the daemon, the window (sessions.rs) or a  *)
(* request to the desktop (control.rs).                                    *)
(*                                                                         *)
(* Every question has a key, the call itself here.  pending maps it to the *)
(* sending end of a oneshot channel, whose receiving end the call holds.   *)
(* The desktop also keeps rows, the approvals it lists.                    *)
(***************************************************************************)
EXTENDS Naturals, FiniteSets

CONSTANTS
  Call,    \* tool calls of one run
  Client,  \* requests that answer: each is one connection, with one question at a time
  None     \* no value

Said == {"allow", "deny"}

ASSUME NoneAssumption == None \notin Call \cup Said \cup {"late", "stopped", "blocked", "refused", "auto"}

VARIABLES
  desk,       \* the desktop serves this run, else the daemon
  cancelled,  \* the run is cancelled
  at,         \* where a call stands
  verdict,    \* what its settings say
  chan,       \* its oneshot channel: open, or what was sent, or closed
  result,     \* how it ended
  pending,    \* the keys an answer can be given to
  rows,       \* the approvals the desktop lists
  client,     \* the answers under way
  effects,    \* history: the calls whose tool ran
  loose,      \* work of dropped calls that goes on by itself
  told        \* history: what answerers were told was taken

vars == <<desk, cancelled, at, verdict, chan, result, pending, rows, client,
          effects, loose, told>>

(***************************************************************************)
(* What the settings say of a call: approved() and the rules for the       *)
(* kinds of tools in execute_inner                                         *)
(***************************************************************************)
Kind == {"reads", "plan", "public", "acts", "question"}
Settings == [mode : {"deny", "auto", "ask"}, listed : BOOLEAN, full : BOOLEAN,
             override : {None, "deny", "auto", "ask"}]

Approved(s) ==
  IF s.mode = "deny" \/ ~s.listed \/ s.override = "deny" THEN "deny"
  ELSE IF s.full THEN "auto"
  ELSE IF s.override # None THEN s.override
  ELSE s.mode

\* public: an issue on GitHub, the tabs of every session.
Verdict(kind, s) ==
  CASE kind = "reads" -> IF s.listed THEN "auto" ELSE "deny"
    [] kind = "plan" -> IF s.listed /\ s.mode # "deny" THEN "auto" ELSE "deny"
    [] kind = "public" -> IF s.mode = "deny" \/ ~s.listed THEN "deny"
                          ELSE IF s.full THEN "auto" ELSE "ask"
    [] kind = "question" -> IF s.listed THEN "question" ELSE "deny"
    [] kind = "acts" -> Approved(s)

Idle == [at |-> "idle", key |-> None, say |-> None]

TypeOK ==
  /\ desk \in BOOLEAN /\ cancelled \in BOOLEAN
  /\ at \in [Call -> {"unused", "hook", "park", "open", "waits", "elapsed", "leaves",
                      "closes", "dropped", "runs", "post", "over"}]
  /\ verdict \in [Call -> {None, "deny", "auto", "ask", "question"}]
  /\ chan \in [Call -> {"none", "open", "closed"} \cup Said]
  /\ result \in [Call -> {None, "late", "stopped", "blocked", "refused", "auto"} \cup Said]
  /\ pending \subseteq Call /\ rows \subseteq Call
  /\ client \in [Client -> [at : {"idle", "found", "sends", "closes"},
                            key : Call \cup {None}, say : Said \cup {None}]]
  /\ effects \subseteq Call /\ loose \subseteq Call
  /\ told \in [Call -> SUBSET Said]

Init ==
  /\ desk \in BOOLEAN /\ cancelled = FALSE
  /\ at = [c \in Call |-> "unused"]
  /\ verdict = [c \in Call |-> None]
  /\ chan = [c \in Call |-> "none"]
  /\ result = [c \in Call |-> None]
  /\ pending = {} /\ rows = {}
  /\ client = [k \in Client |-> Idle]
  /\ effects = {} /\ loose = {}
  /\ told = [c \in Call |-> {}]

Goes(c, to) == at' = [at EXCEPT ![c] = to]
Ends(c, how) == result' = [result EXCEPT ![c] = how]

(***************************************************************************)
(* ToolHost::call, up to the question                                      *)
(***************************************************************************)
book == <<pending, rows, client, told>>

Begin(c) ==
  /\ at[c] = "unused"
  /\ \E kind \in Kind, s \in Settings :
       /\ verdict' = [verdict EXCEPT ![c] = Verdict(kind, s)]
       /\ Goes(c, "hook")
  /\ UNCHANGED <<desk, cancelled, chan, result, book, effects, loose>>

HookBlocks(c) ==
  /\ at[c] = "hook"
  /\ Goes(c, "over")
  /\ Ends(c, "blocked")
  /\ UNCHANGED <<desk, cancelled, verdict, chan, book, effects, loose>>

\* The hooks let it pass; then the settings decide.
HookPasses(c) ==
  /\ at[c] = "hook"
  /\ Goes(c, CASE verdict[c] = "deny" -> "post"
               [] verdict[c] = "auto" -> "runs"
               [] OTHER -> "park")
  /\ result' = CASE verdict[c] = "deny" -> [result EXCEPT ![c] = "refused"]
                 [] verdict[c] = "auto" -> [result EXCEPT ![c] = "auto"]
                 [] OTHER -> result
  /\ UNCHANGED <<desk, cancelled, verdict, chan, book, effects, loose>>

(***************************************************************************)
(* approve and ask of the approver or asker                                *)
(***************************************************************************)
\* The desktop lists approvals, and no questions.
Park(c) ==
  /\ at[c] = "park"
  /\ pending' = pending \cup {c}
  /\ chan' = [chan EXCEPT ![c] = "open"]
  /\ Goes(c, IF desk /\ verdict[c] = "ask" THEN "open" ELSE "waits")
  /\ UNCHANGED <<desk, cancelled, verdict, result, rows, client, effects, loose, told>>

OpenRow(c) ==
  /\ at[c] = "open"
  /\ rows' = rows \cup {c}
  /\ Goes(c, "waits")
  /\ UNCHANGED <<desk, cancelled, verdict, chan, result, pending, client, effects, loose, told>>

\* Broken: whoever is answered at all goes on.
ReceiveAny(c) ==
  /\ at[c] = "waits" /\ chan[c] \in Said
  /\ Ends(c, "allow")
  /\ chan' = [chan EXCEPT ![c] = "closed"]
  /\ Goes(c, "leaves")
  /\ UNCHANGED <<desk, cancelled, verdict, book, effects, loose>>

\* An answer that has come is seen before the time that is up.
Receive(c) ==
  /\ at[c] = "waits" /\ chan[c] \in Said
  /\ Ends(c, chan[c])
  /\ chan' = [chan EXCEPT ![c] = "closed"]
  /\ Goes(c, "leaves")
  /\ UNCHANGED <<desk, cancelled, verdict, book, effects, loose>>

\* Broken: a question somebody has taken up is left to them.
ElapseListed(c) ==
  /\ at[c] = "waits" /\ chan[c] = "open" /\ c \in pending
  /\ Goes(c, "elapsed")
  /\ UNCHANGED <<desk, cancelled, verdict, chan, result, book, effects, loose>>

\* The time is up; the receiver is still there for a moment.
Elapse(c) ==
  /\ at[c] = "waits" /\ chan[c] = "open"
  /\ Goes(c, "elapsed")
  /\ UNCHANGED <<desk, cancelled, verdict, chan, result, book, effects, loose>>

Expire(c) ==
  /\ at[c] = "elapsed"
  /\ Ends(c, "late")
  /\ chan' = [chan EXCEPT ![c] = "closed"]
  /\ Goes(c, "leaves")
  /\ UNCHANGED <<desk, cancelled, verdict, book, effects, loose>>

\* Only an allowed call goes on.  A question goes on to its end.
Onward(c) == IF result[c] = "allow" /\ verdict[c] = "ask" THEN "runs" ELSE "post"

Leave(c) ==
  /\ at[c] = "leaves"
  /\ pending' = pending \ {c}
  /\ Goes(c, IF desk /\ verdict[c] = "ask" THEN "closes" ELSE Onward(c))
  /\ UNCHANGED <<desk, cancelled, verdict, chan, result, rows, client, effects, loose, told>>

CloseRow(c) ==
  /\ at[c] = "closes"
  /\ rows' = rows \ {c}
  /\ Goes(c, Onward(c))
  /\ UNCHANGED <<desk, cancelled, verdict, chan, result, pending, client, effects, loose, told>>

(***************************************************************************)
(* The rest of ToolHost::call                                              *)
(***************************************************************************)
Execute(c) ==
  /\ at[c] = "runs"
  /\ effects' = effects \cup {c}
  /\ Goes(c, "post")
  /\ UNCHANGED <<desk, cancelled, verdict, chan, result, book, loose>>

PostHooks(c) ==
  /\ at[c] = "post"
  /\ Goes(c, "over")
  /\ UNCHANGED <<desk, cancelled, verdict, chan, result, book, effects, loose>>

(***************************************************************************)
(* A cancelled run: its calls are dropped where they wait, by call itself  *)
(* or, if a person is asked for leave, by ask, and then the hooks after    *)
(* the call still run.  Only the daemon's approver has a guard that takes  *)
(* the key back; work handed to spawn_blocking goes on.                    *)
(***************************************************************************)
Cancel ==
  /\ ~cancelled
  /\ cancelled' = TRUE
  /\ UNCHANGED <<desk, at, verdict, chan, result, book, effects, loose>>

Guarded(c) == ~desk /\ verdict[c] = "ask"
Asking(c) == at[c] = "waits" \/ (desk /\ at[c] \in {"park", "leaves"})

Stop(c) ==
  /\ cancelled
  /\ Asking(c) \/ at[c] \in {"hook", "runs"}
  /\ \E to \in IF Asking(c) /\ Guarded(c) THEN {"dropped"}
               ELSE IF Asking(c) /\ verdict[c] = "ask" THEN {"over", "post"} ELSE {"over"} :
       Goes(c, to)
  /\ Ends(c, "stopped")
  /\ chan' = IF chan[c] = "none" THEN chan ELSE [chan EXCEPT ![c] = "closed"]
  /\ loose' = IF at[c] = "runs" THEN loose \cup {c} ELSE loose
  /\ UNCHANGED <<desk, cancelled, verdict, book, effects>>

\* Broken: no guard.
DropSlotKeeps(c) ==
  /\ at[c] = "dropped"
  /\ \E to \in {"over", "post"} : Goes(c, to)
  /\ UNCHANGED <<desk, cancelled, verdict, chan, result, book, effects, loose>>

DropSlot(c) ==
  /\ at[c] = "dropped"
  /\ pending' = pending \ {c}
  /\ \E to \in {"over", "post"} : Goes(c, to)
  /\ UNCHANGED <<desk, cancelled, verdict, chan, result, rows, client, effects, loose, told>>

\* It may have been in the middle of its work, or not have begun.
LooseWork(c) ==
  /\ c \in loose
  /\ loose' = loose \ {c}
  /\ effects' \in {effects, effects \cup {c}}
  /\ UNCHANGED <<desk, cancelled, at, verdict, chan, result, book>>

(***************************************************************************)
(* Answers                                                                 *)
(***************************************************************************)
calls == <<desk, cancelled, at, verdict, result, effects, loose>>

Sent(c, v) == chan' = IF chan[c] = "open" THEN [chan EXCEPT ![c] = v] ELSE chan
Tell(c, v) == told' = [told EXCEPT ![c] = @ \cup {v}]

\* Broken: the key stays for a second answer.
AnswerHereAgain(c, v) ==
  /\ desk /\ c \in pending
  /\ Sent(c, v)
  /\ Tell(c, v)
  /\ UNCHANGED <<calls, pending, rows, client>>

\* The window: under one lock, and told so whether the call is still there or not.
AnswerHere(c, v) ==
  /\ desk /\ c \in pending
  /\ pending' = pending \ {c}
  /\ Sent(c, v)
  /\ Tell(c, v)
  /\ UNCHANGED <<calls, rows, client>>

\* The daemon: taken under the lock, sent without it.
Take(k, c, v) ==
  /\ ~desk /\ client[k].at = "idle" /\ c \in pending
  /\ pending' = pending \ {c}
  /\ client' = [client EXCEPT ![k] = [at |-> "sends", key |-> c, say |-> v]]
  /\ UNCHANGED <<calls, chan, rows, told>>

\* A request to the desktop looks among the rows first.
Find(k, c, v) ==
  /\ desk /\ client[k].at = "idle" /\ c \in rows
  /\ client' = [client EXCEPT ![k] = [at |-> "found", key |-> c, say |-> v]]
  /\ UNCHANGED <<calls, chan, pending, rows, told>>

TakeFound(k) ==
  LET c == client[k].key IN
  /\ client[k].at = "found"
  /\ IF c \in pending
     THEN /\ pending' = pending \ {c}
          /\ client' = [client EXCEPT ![k].at = "sends"]
          /\ rows' = rows
     ELSE /\ rows' = rows \ {c}
          /\ client' = [client EXCEPT ![k] = Idle]
          /\ pending' = pending
  /\ UNCHANGED <<calls, chan, told>>

\* Taken: the call still waits.
Send(k) ==
  LET c == client[k].key  v == client[k].say IN
  /\ client[k].at = "sends"
  /\ Sent(c, v)
  /\ told' = IF chan[c] = "open" THEN [told EXCEPT ![c] = @ \cup {v}] ELSE told
  /\ client' = [client EXCEPT ![k] = IF desk /\ chan[c] = "open"
                                     THEN [@ EXCEPT !.at = "closes"] ELSE Idle]
  /\ UNCHANGED <<calls, pending, rows>>

CloseAnswered(k) ==
  /\ client[k].at = "closes"
  /\ rows' = rows \ {client[k].key}
  /\ client' = [client EXCEPT ![k] = Idle]
  /\ UNCHANGED <<calls, chan, pending, told>>

Next ==
  \/ Cancel
  \/ \E c \in Call :
       \/ Begin(c) \/ HookBlocks(c) \/ HookPasses(c)
       \/ Park(c) \/ OpenRow(c) \/ Receive(c) \/ Elapse(c) \/ Expire(c)
       \/ Leave(c) \/ CloseRow(c)
       \/ Execute(c) \/ PostHooks(c) \/ Stop(c) \/ DropSlot(c) \/ LooseWork(c)
       \/ \E v \in Said :
            \/ AnswerHere(c, v)
            \/ \E k \in Client : Take(k, c, v) \/ Find(k, c, v)
  \/ \E k \in Client : TakeFound(k) \/ Send(k) \/ CloseAnswered(k)

Spec == Init /\ [][Next]_vars

\* A question has an end: approval_wait_secs passes, and what follows waits for
\* nothing but locks.  Nobody has to answer, and no tool has to finish.
LiveSpec ==
  /\ Spec
  /\ \A c \in Call :
       /\ WF_vars(Park(c)) /\ WF_vars(OpenRow(c)) /\ WF_vars(Receive(c) \/ Elapse(c))
       /\ WF_vars(Expire(c)) /\ WF_vars(Leave(c)) /\ WF_vars(CloseRow(c)) /\ WF_vars(DropSlot(c))

(***************************************************************************)
(* Properties                                                              *)
(***************************************************************************)
\* A tool that needs leave runs only if a person gave it while the call waited, and
\* nobody was told that it was refused - whatever times out, is cancelled or is
\* answered twice, and though dropped work goes on by itself.
RunsWithLeave ==
  \A c \in effects \cup loose :
    verdict[c] = "auto" \/ (verdict[c] = "ask" /\ told[c] = {"allow"})

\* A question has one answer: whoever else answers is told that it is too late, and
\* the one who is told it was taken is the one the call listens to, unless its time
\* was up in the same moment or its run was stopped.
OneAnswer ==
  \A c \in Call :
    /\ Cardinality(told[c]) <= 1
    /\ result[c] \in Said => told[c] = {result[c]}

\* What can be answered, and what the desktop lists, is a call that waits or is just
\* about to leave; or, but for the approvals of the daemon, one whose run was stopped.
NoGhosts ==
  /\ \A c \in pending : \/ at[c] \in {"open", "waits", "elapsed", "leaves", "dropped"}
                        \/ result[c] = "stopped" /\ ~Guarded(c)
  /\ \A c \in rows : \/ at[c] \in {"waits", "elapsed", "leaves", "closes"}
                     \/ result[c] = "stopped" /\ desk

\* Whoever is asked, the call does not wait for ever.
QuestionsEnd == \A c \in Call : at[c] = "park" ~> at[c] \in {"runs", "post", "over"}
=============================================================================
