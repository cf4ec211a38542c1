------------------------------ MODULE TurnsProofs ------------------------------
(***************************************************************************)
(* Turns implements TurnContract, for every driver and however much the    *)
(* agent writes, and a turn stays for the subagents of its agent.          *)
(***************************************************************************)
EXTENDS Turns, TLAPS

(***************************************************************************)
(* The inductive invariant, by what it is about                            *)
(***************************************************************************)
Early == agent \in {"boots", "opens", "ready"}

Phases ==
  /\ at = "over" <=> outcome # "none"
  /\ stopping => cancelled
  /\ agent = "boots" => at \in {"init", "over"}
  /\ agent = "opens" => at \in {"init", "setup", "over"}
  /\ agent = "boots" \/ (agent = "opens" /\ at = "setup") => reply = "waits" /\ response = Nothing
  /\ at \in {"init", "setup"} => Early \/ agent = "gone"
  /\ Early \/ agent = "works" \/ at \in {"init", "setup"} => answer = Nothing
  /\ agent = "rests" => answer.how # "none"
  /\ eof \/ reply = "closed" => agent = "gone"
  /\ at = "init" => driver = "acp"
  /\ at = "prompts" => driver = "claude"
  /\ at = "starts" => driver = "codex"
  /\ held # 0 => driver = "acp" /\ at \in {"setup", "over"}
  /\ ~open => eof

\* How a request of the setup, or the prompt, can have been answered.
Stamps ==
  /\ answer.how = "none" => answer = Nothing
  /\ answer.after <= Len(wire)
  /\ response.how = "none" => response = Nothing
  /\ driver # "acp" => ~answered
  /\ driver = "codex" => \A h \in Subagent : helper[h] = "none"

\* The answer to an ACP prompt is the response on the wire, then the reply.
AcpAnswer ==
  driver = "acp" =>
    /\ at \in {"init", "setup"} /\ reply # "waits" => response = Nothing
    /\ at = "loop" /\ response # Nothing => response = answer
    /\ at = "loop" /\ reply \in Hows =>
         answer.how = reply /\ answer.after <= read /\ response = Nothing
    /\ answered => answer.how \in {"ok", "max"} /\ answer.after <= taken

\* Codex's answer is the one message that ends this turn.
CodexAnswer ==
  driver = "codex" =>
    \A i \in 1 .. Len(wire) :
      wire[i].mine /\ wire[i].what \in {"ok", "cancelled"} =>
        answer = [how |-> wire[i].what, after |-> i]

\* Claude echoes the prompt after all that is not about it,
ClaudeEcho ==
  driver = "claude" =>
    /\ Early => \A j \in 1 .. Len(wire) : wire[j].what # "echo"
    /\ seen => \E j \in 1 .. taken : wire[j].what = "echo"
    /\ \A i, j \in 1 .. Len(wire) : wire[j].what = "echo" /\ j <= i => wire[i].mine

\* and has no result of this turn before its answer.
ClaudeResults ==
  driver = "claude" =>
    \A i \in 1 .. Len(wire) :
      wire[i].mine /\ wire[i].what \in {"ok", "max", "error", "woken"} =>
        /\ answer.how # "none" /\ answer.after <= i
        /\ wire[i].what = "ok" => answer.after = i

ClaudeEnds ==
  driver = "claude" =>
    /\ answer.how \in {"none", "ok", "max", "error"}
    /\ answer.how \in {"max", "error"} =>
         answer.after \in 1 .. Len(wire) /\ wire[answer.after].what = answer.how
    /\ at # "over" => \A i \in 1 .. taken : wire[i].what \notin {"max", "error"}

IInv == TypeOK /\ Phases /\ Stamps /\ AcpAnswer /\ CodexAnswer /\ ClaudeEcho /\ ClaudeResults /\ ClaudeEnds

(***************************************************************************)
(* What the steps write                                                    *)
(***************************************************************************)
Grows(m) ==
  /\ wire' \in Seq(Message)
  /\ Len(wire') = Len(wire) + 1 /\ Len(wire') <= MaxWire
  /\ wire'[Len(wire')] = m
  /\ \A i \in 1 .. Len(wire) : wire'[i] = wire[i]

Whats == Spare \cup Tidings \cup Hows

LEMMA Messages ==
  ASSUME NEW what \in Whats, NEW of \in SUBSET Subagent
  PROVE  /\ Msg(what, of) \in Message /\ Foreign(what) \in Message
         /\ Msg(what, of).what = what /\ Msg(what, of).of = of /\ Msg(what, of).mine
         /\ Foreign(what).what = what /\ Foreign(what).of = {} /\ ~Foreign(what).mine
  BY DEF Msg, Foreign, Message, Whats

LEMMA Appends ==
  ASSUME TypeOK, NEW m \in Message, Writes(m)
  PROVE  Grows(m)
<1>1. Len(wire) < MaxWire /\ wire' = Append(wire, m)
  BY BoundAssumption DEF Writes
<1>2. wire \in Seq(Message)
  BY DEF TypeOK
<1> QED BY <1>1, <1>2, BoundAssumption DEF Grows

\* What all steps of the agent leave alone, but for Boot, Begin, Answer and Exit.
Aside == UNCHANGED <<driver, cancelled, agent, answer, full, response, link, turn>>

LEMMA SayWrites ==
  ASSUME TypeOK, Say \/ Ask
  PROVE  /\ Aside /\ helper' = helper
         /\ ask' \in {ask, "asked"}
         /\ \E what \in Spare : Grows(Msg(what, {}))
<1>1. PICK what \in Spare : Writes(Msg(what, {}))
  BY DEF Say, Ask, Spare
<1>2. Grows(Msg(what, {}))
  BY <1>1, Messages, Appends DEF Whats
<1>3. Aside /\ helper' = helper /\ ask' \in {ask, "asked"}
  BY DEF Say, Ask, Aside, proc
<1> QED BY <1>2, <1>3

LEMMA ElsewhereWrites ==
  ASSUME TypeOK, Elsewhere
  PROVE  /\ Aside /\ helper' = helper /\ ask' = ask
         /\ driver = "codex" \/ (driver = "claude" /\ Early)
         /\ \E how \in Hows : Grows(Foreign(how))
<1>1. PICK how \in HowsOf(driver) : Writes(Foreign(how))
  BY DEF Elsewhere
<1>2. how \in Hows
  BY DriverAssumption DEF HowsOf, Hows, TypeOK
<1>3. Grows(Foreign(how))
  BY <1>1, <1>2, Messages, Appends DEF Whats
<1>4. Aside /\ helper' = helper /\ ask' = ask
  BY DEF Elsewhere, Aside, proc
<1>5. driver = "codex" \/ (driver = "claude" /\ Early)
  BY DEF Elsewhere, Early
<1> QED BY <1>2, <1>3, <1>4, <1>5

LEMMA StartWrites ==
  ASSUME TypeOK, StartHelper
  PROVE  /\ Aside /\ ask' = ask
         /\ agent = "works" \/ (agent = "rests" /\ Waits # {})
         /\ driver \in {"acp", "claude"}
         /\ \E h \in Subagent :
              /\ helper[h] = "none" /\ Now({h}, "runs")
              /\ driver = "acp" => Grows(Msg("began", {h}))
              /\ driver = "claude" => Grows(Msg("agents", Runs \cup {h}))
<1>1. PICK h \in Fresh :
        /\ Now({h}, "runs")
        /\ Writes(IF driver = "acp" THEN Msg("began", {h}) ELSE Msg("agents", Runs \cup {h}))
  BY DEF StartHelper
<1>2. h \in Subagent /\ helper[h] = "none"
  <2>1. \E g \in Subagent : helper[g] = "none"
    BY <1>1 DEF Fresh
  <2>2. h = CHOOSE g \in Subagent : helper[g] = "none"
    BY <1>1, <2>1 DEF Fresh
  <2> QED BY <2>1, <2>2
<1>3. /\ Msg("began", {h}) \in Message /\ Msg("agents", Runs \cup {h}) \in Message
  BY <1>2, Messages DEF Whats, Tidings, Runs
<1>4. /\ driver = "acp" => Grows(Msg("began", {h}))
      /\ driver = "claude" => Grows(Msg("agents", Runs \cup {h}))
  BY <1>1, <1>3, Appends
<1>5. /\ Aside /\ ask' = ask
      /\ agent = "works" \/ (agent = "rests" /\ Waits # {})
      /\ driver \in {"acp", "claude"}
  BY DEF StartHelper, Aside
<1> QED BY <1>1, <1>2, <1>4, <1>5

LEMMA EndWrites ==
  ASSUME TypeOK, HelperEnds
  PROVE  /\ Aside /\ ask' = ask /\ agent \in {"works", "rests"}
         /\ \E h \in Subagent :
              /\ helper[h] = "runs"
              /\ \/ /\ Now({h}, "wakes")
                    /\ driver = "claude" => agent = "rests"
                    /\ driver # "claude" => Grows(Msg("wakes", {h}))
                 \/ /\ Now({h}, "over")
                    /\ driver # "claude" => Grows(Msg("finished", {h}))
              /\ driver = "claude" => Grows(Msg("agents", Runs \ {h}))
<1>1. PICK h \in Runs, wakes \in BOOLEAN :
        /\ driver = "claude" => wakes = (agent = "rests")
        /\ Now({h}, IF wakes THEN "wakes" ELSE "over")
        /\ Writes(IF driver = "claude" THEN Msg("agents", Runs \ {h})
                    ELSE Msg(IF wakes THEN "wakes" ELSE "finished", {h}))
  BY DEF HelperEnds
<1>2. h \in Subagent /\ helper[h] = "runs"
  BY DEF Runs
<1>3. /\ Msg("wakes", {h}) \in Message /\ Msg("finished", {h}) \in Message
      /\ Msg("agents", Runs \ {h}) \in Message
  BY <1>2, Messages DEF Whats, Tidings, Runs
<1>4. driver = "claude" => Grows(Msg("agents", Runs \ {h}))
  BY <1>1, <1>3, Appends
<1>5. driver # "claude" /\ wakes => Grows(Msg("wakes", {h}))
  BY <1>1, <1>3, Appends
<1>6. driver # "claude" /\ ~wakes => Grows(Msg("finished", {h}))
  BY <1>1, <1>3, Appends
<1>7. Aside /\ ask' = ask /\ agent \in {"works", "rests"}
  BY DEF HelperEnds, Aside
<1> QED BY <1>1, <1>2, <1>4, <1>5, <1>6, <1>7

LEMMA WokenWrites ==
  ASSUME TypeOK, WokenTurn
  PROVE  /\ Aside /\ ask' = ask /\ agent = "rests"
         /\ \E S \in SUBSET Waits :
              /\ S # {} /\ Now(S, "over")
              /\ \E what \in {"woken", "max", "error"} :
                   /\ Grows(Msg(what, Waits \ S))
                   /\ driver # "claude" => what = "woken"
<1>1. PICK S \in (SUBSET Waits) \ {{}}, what \in {"woken", "max", "error"} :
        /\ Now(S, "over")
        /\ Writes(Msg(what, Waits \ S))
        /\ driver # "claude" => what = "woken"
  BY DEF WokenTurn
<1>2. Msg(what, Waits \ S) \in Message
  BY Messages DEF Whats, Tidings, Hows, Waits
<1>3. Grows(Msg(what, Waits \ S))
  BY <1>1, <1>2, Appends
<1>4. Aside /\ ask' = ask /\ agent = "rests"
  BY DEF WokenTurn, Aside
<1> QED BY <1>1, <1>3, <1>4

LEMMA BeginWrites ==
  ASSUME TypeOK, Begin
  PROVE  /\ UNCHANGED <<driver, cancelled, helper, answer, ask, link, turn>>
         /\ agent = "ready" /\ agent' = "works" /\ full' = FALSE
         /\ at \in (IF driver = "codex" THEN {"starts"} ELSE {"prompts", "loop"})
         /\ IF driver = "claude" THEN Grows(Msg("echo", {})) ELSE wire' = wire
         /\ driver # "codex" => response' = response
         /\ \/ response' = response
            \/ \E how \in {"ok", "error"} : response' = [how |-> how, after |-> Len(wire)]
<1>1. Msg("echo", {}) \in Message
  BY Messages DEF Whats, Tidings
<1> QED BY <1>1, Appends DEF Begin, Responds

LEMMA AnswerWrites ==
  ASSUME TypeOK, Answer
  PROVE  /\ UNCHANGED <<driver, cancelled, helper, ask, full, link, turn>>
         /\ agent = "works" /\ agent' = "rests"
         /\ \E how \in Hows :
              /\ answer' = [how |-> how, after |-> Len(wire')]
              /\ driver = "acp" => response' = answer'
                                   /\ (wire' = wire \/ Grows(Msg("ended", {})))
              /\ driver # "acp" => response' = response /\ Grows(Msg(how, {}))
              /\ driver = "codex" => how \in {"ok", "cancelled", "error"}
              /\ driver = "claude" => how \in {"ok", "max", "error"}
<1>1. PICK how \in HowsOf(driver) :
        /\ IF driver = "acp"
           THEN /\ Writes(Msg("ended", {})) \/ wire' = wire
                /\ response' = [how |-> how, after |-> Len(wire')]
           ELSE Writes(Msg(how, {})) /\ UNCHANGED response
        /\ answer' = [how |-> how, after |-> Len(wire')]
  BY DEF Answer
<1>2. /\ how \in Hows
      /\ driver = "codex" => how \in {"ok", "cancelled", "error"}
      /\ driver = "claude" => how \in {"ok", "max", "error"}
  BY DriverAssumption DEF HowsOf, Hows, TypeOK
<1>3. Msg(how, {}) \in Message /\ Msg("ended", {}) \in Message
  BY <1>2, Messages DEF Whats, Spare
<1>4. driver = "acp" => wire' = wire \/ Grows(Msg("ended", {}))
  BY <1>1, <1>3, Appends
<1>5. driver # "acp" => Grows(Msg(how, {}))
  BY <1>1, <1>3, Appends
<1>6. UNCHANGED <<driver, cancelled, helper, ask, full, link, turn>> /\ agent = "works" /\ agent' = "rests"
  BY DEF Answer
<1> QED BY <1>1, <1>2, <1>4, <1>5, <1>6

\* The wire only grows, by one message at a time.
LEMMA AgentWrites ==
  ASSUME TypeOK, Agent
  PROVE  wire' = wire \/ \E m : Grows(m)
<1>1. CASE Boot \/ Exit
  BY <1>1 DEF Boot, Exit, pipe
<1>2. CASE Begin
  BY <1>2, BeginWrites
<1>3. CASE Answer
  BY <1>3, AnswerWrites, DriverAssumption
<1>4. CASE Say \/ Ask
  BY <1>4, SayWrites
<1>5. CASE Elsewhere
  BY <1>5, ElsewhereWrites
<1>6. CASE StartHelper
  BY <1>6, StartWrites
<1>7. CASE HelperEnds
  BY <1>7, EndWrites
<1>8. CASE WokenTurn
  BY <1>8, WokenWrites
<1> QED BY <1>1, <1>2, <1>3, <1>4, <1>5, <1>6, <1>7, <1>8 DEF Agent

(***************************************************************************)
(* The types                                                               *)
(***************************************************************************)
LEMMA TypeAgent ==
  ASSUME TypeOK, Agent
  PROVE  TypeOK'
<1>0. /\ wire' \in Seq(Message) /\ Len(wire') \in {Len(wire), Len(wire) + 1} /\ Len(wire') <= MaxWire
      /\ Len(wire) \in Nat /\ Len(wire') \in Nat
  <2>1. wire \in Seq(Message) /\ Len(wire) <= MaxWire
    BY DEF TypeOK
  <2> QED BY <2>1, AgentWrites DEF Grows
<1>1. ASSUME NEW how \in Hows, NEW n \in 0 .. MaxWire
      PROVE  [how |-> how, after |-> n] \in Answers
  BY DEF Answers
<1>2. Len(wire) \in 0 .. MaxWire /\ Len(wire') \in 0 .. MaxWire
  BY <1>0, BoundAssumption DEF TypeOK
<1>3. CASE Boot \/ Exit
  <2>1. response' \in Answers
    BY <1>1, <1>2, <1>3 DEF Boot, Exit, Responds, Hows, pipe, TypeOK
  <2>2. /\ agent' \in {"opens", "ready", "gone"}
        /\ UNCHANGED <<driver, cancelled, helper, answer, ask, wire, full, link, turn>>
    BY <1>3 DEF Boot, Exit, pipe
  <2> QED BY <2>1, <2>2 DEF TypeOK, link, turn
<1>4. CASE Begin
  <2>1. response' \in Answers
    BY <1>1, <1>2, <1>4, BeginWrites DEF Hows, TypeOK
  <2>2. /\ UNCHANGED <<driver, cancelled, helper, answer, ask, link, turn>>
        /\ agent' = "works" /\ full' \in BOOLEAN
    BY <1>4, BeginWrites
  <2> QED BY <1>0, <2>1, <2>2 DEF TypeOK, link, turn
<1>5. CASE Answer
  <2>1. response' \in Answers /\ answer' \in Answers
    BY <1>1, <1>2, <1>5, AnswerWrites DEF TypeOK
  <2> QED BY <1>0, <1>5, <2>1, AnswerWrites DEF TypeOK, link, turn
<1>6. CASE Say \/ Ask \/ Elsewhere \/ StartHelper \/ HelperEnds \/ WokenTurn
  <2>1. Aside /\ ask' \in {ask, "asked"}
    BY <1>6, SayWrites, ElsewhereWrites, StartWrites, EndWrites, WokenWrites
  <2>2. ASSUME NEW S, NEW state \in {"none", "runs", "wakes", "over"}, Now(S, state)
        PROVE  helper' \in [Subagent -> {"none", "runs", "wakes", "over"}]
    BY <2>2 DEF Now, TypeOK
  <2>3. helper' \in [Subagent -> {"none", "runs", "wakes", "over"}]
    <3>1. CASE Say \/ Ask \/ Elsewhere
      BY <3>1, SayWrites, ElsewhereWrites DEF TypeOK
    <3>2. CASE StartHelper
      <4>1. PICK h \in Subagent : Now({h}, "runs")
        BY <3>2, StartWrites
      <4> QED BY <2>2, <4>1
    <3>3. CASE HelperEnds
      <4>1. PICK h \in Subagent : Now({h}, "wakes") \/ Now({h}, "over")
        BY <3>3, EndWrites
      <4> QED BY <2>2, <4>1
    <3>4. CASE WokenTurn
      <4>1. PICK S \in SUBSET Waits : Now(S, "over")
        BY <3>4, WokenWrites
      <4> QED BY <2>2, <4>1
    <3> QED BY <1>6, <3>1, <3>2, <3>3, <3>4
  <2> QED BY <1>0, <2>1, <2>3 DEF TypeOK, Aside, link, turn
<1> QED BY <1>3, <1>4, <1>5, <1>6 DEF Agent

LEMMA TypeReader ==
  ASSUME TypeOK, Cancel \/ Reader \/ Decide
  PROVE  TypeOK'
<1> USE DEF TypeOK, proc, pipe, link, turn
<1>0. CASE Cancel
  BY <1>0 DEF Cancel
<1>1. CASE ReadMessage
  BY <1>1 DEF ReadMessage
<1>2. CASE ReadResponse
  <2>1. response' \in Answers
    BY <1>2, BoundAssumption DEF ReadResponse, Answers, Nothing
  <2>2. reply' \in {"none", "waits", "closed"} \cup Hows
    BY <1>2 DEF ReadResponse, Answers, Nothing, Hows
  <2> QED BY <1>2, <2>1, <2>2 DEF ReadResponse
<1>3. CASE ReadEof
  BY <1>3 DEF ReadEof
<1>4. CASE Decide
  BY <1>4 DEF Decide
<1> QED BY <1>0, <1>1, <1>2, <1>3, <1>4 DEF Reader

LEMMA Noted ==
  ASSUME TypeOK, NEW m
  PROVE  Note(m) \in [runs : SUBSET Subagent, wake : BOOLEAN]
  BY DEF Note, TypeOK

LEMMA TypeTurn ==
  ASSUME TypeOK, Setup \/ Loop
  PROVE  TypeOK'
<1> USE DEF TypeOK, proc, pipe, link, turn, idle, Ends, Requests
<1>1. CASE StopEarly
  BY <1>1 DEF StopEarly
<1>2. CASE NoStart
  BY <1>2 DEF NoStart
<1>3. CASE Opens
  BY <1>3 DEF Opens
<1>4. CASE Meanwhile
  BY <1>4 DEF Meanwhile, TakesAsk
<1>5. CASE AcpPrompt
  BY <1>5 DEF AcpPrompt
<1>6. CASE CodexStart
  BY <1>6 DEF CodexStart
<1>7. CASE CodexStarted
  BY <1>7 DEF CodexStarted
<1>8. CASE ClaudePrompt
  <2>1. /\ at' \in {"over", "loop", "prompts"} /\ full' \in BOOLEAN /\ reply' = "none"
        /\ outcome' \in {"failed", outcome}
    BY <1>8 DEF ClaudePrompt
  <2> QED BY <1>8, <2>1 DEF ClaudePrompt
<1>9. CASE ClaudePrompted
  <2>1. at' \in {"over", "loop"} /\ outcome' \in {"failed", outcome}
    BY <1>9 DEF ClaudePrompted
  <2> QED BY <1>9, <2>1 DEF ClaudePrompted
<1>10. CASE SeeStop
  <2>1. writes' \in BOOLEAN
    BY <1>10 DEF SeeStop
  <2> QED BY <1>10, <2>1 DEF SeeStop
<1>11. CASE Written
  <2>1. /\ writes' \in BOOLEAN
        /\ UNCHANGED <<idle, taken, held, at, stopping, known, seen, answered, open, outcome>>
    BY <1>11 DEF Written
  <2> QED BY <2>1
<1>12. CASE Elapse
  BY <1>12 DEF Elapse
<1>13. CASE AcpTake
  <2>1. /\ known' \in [runs : SUBSET Subagent, wake : BOOLEAN]
        /\ at' \in {at, "over"} /\ outcome' \in {outcome, "completed"}
        /\ writes' \in BOOLEAN
    BY <1>13, Noted DEF AcpTake, Refuses
  <2> QED BY <1>13, <2>1 DEF AcpTake, TakesAsk
<1>14. CASE AcpClosed
  <2>1. at' \in {at, "over"} /\ outcome' \in {outcome, "completed"}
    BY <1>14 DEF AcpClosed
  <2>2. /\ open' \in BOOLEAN
        /\ UNCHANGED <<idle, taken, held, writes, stopping, known, seen, answered>>
    BY <1>14 DEF AcpClosed
  <2> QED BY <2>1, <2>2
<1>15. CASE AcpDone
  <2>1. AcpEnd(reply) \in {"completed", "interrupted", "failed"}
    BY DEF AcpEnd
  <2>2. at' \in {at, "over"} /\ outcome' \in {outcome, AcpEnd(reply)} /\ answered' \in BOOLEAN
    BY <1>15 DEF AcpDone
  <2> QED BY <1>15, <2>1, <2>2 DEF AcpDone
<1>16. CASE AcpSilent
  BY <1>16 DEF AcpSilent
<1>17. CASE CodexTake
  <2>1. at' \in {at, "over"} /\ outcome' \in {outcome, "completed", "interrupted", "failed"}
    BY <1>17 DEF CodexTake
  <2> QED BY <1>17, <2>1 DEF CodexTake, TakesAsk
<1>18. CASE ClaudeTake
  <2>1. /\ known' \in [runs : SUBSET Subagent, wake : BOOLEAN]
        /\ seen' \in BOOLEAN /\ writes' \in BOOLEAN
    BY <1>18, Noted DEF ClaudeTake, Refuses
  <2>2. at' \in {at, "over"} /\ outcome' \in {outcome, "completed", "interrupted", "failed"}
    BY <1>18 DEF ClaudeTake
  <2> QED BY <1>18, <2>1, <2>2 DEF ClaudeTake, TakesAsk
<1>19. CASE StreamClosed
  BY <1>19 DEF StreamClosed
<1> QED BY <1>1, <1>2, <1>3, <1>4, <1>5, <1>6, <1>7, <1>8, <1>9, <1>10, <1>11, <1>12,
           <1>13, <1>14, <1>15, <1>16, <1>17, <1>18, <1>19 DEF Setup, Loop

LEMMA TypeStep ==
  ASSUME TypeOK, Next
  PROVE  TypeOK'
  BY TypeAgent, TypeReader, TypeTurn DEF Next

(***************************************************************************)
(* The invariant is kept                                                   *)
(***************************************************************************)
LEMMA ReaderKeeps ==
  ASSUME Cancel \/ Reader \/ Decide
  PROVE  UNCHANGED <<driver, agent, helper, answer, wire, full, turn>>
  BY DEF Cancel, Reader, ReadMessage, ReadResponse, ReadEof, Decide, proc, pipe

LEMMA TurnKeeps ==
  ASSUME Setup \/ Loop
  PROVE  /\ UNCHANGED <<driver, cancelled, agent, helper, answer, wire, response, read, eof>>
         /\ taken' = taken \/ (taken' = taken + 1 /\ taken < read)
         /\ \/ taken' = taken /\ known' = known
            \/ Meanwhile \/ AcpTake \/ CodexTake \/ ClaudeTake
         /\ at' \in {"init", "setup"} => at \in {"init", "setup"}
<1> USE DEF proc, pipe, link, idle, Ends
<1>1. CASE StopEarly
  BY <1>1 DEF StopEarly, Awaits
<1>2. CASE NoStart
  BY <1>2 DEF NoStart, Awaits
<1>3. CASE Opens
  BY <1>3 DEF Opens, Requests
<1>4. CASE Meanwhile
  BY <1>4 DEF Meanwhile
<1>5. CASE AcpPrompt
  BY <1>5 DEF AcpPrompt, Requests
<1>6. CASE CodexStart
  BY <1>6 DEF CodexStart, Requests
<1>7. CASE CodexStarted
  BY <1>7 DEF CodexStarted
<1>8. CASE ClaudePrompt
  BY <1>8 DEF ClaudePrompt
<1>9. CASE ClaudePrompted
  BY <1>9 DEF ClaudePrompted, Clear
<1>10. CASE SeeStop
  BY <1>10 DEF SeeStop, InLoop
<1>11. CASE Written
  BY <1>11 DEF Written
<1>12. CASE Elapse
  BY <1>12 DEF Elapse, InLoop
<1>13. CASE AcpTake
  BY <1>13 DEF AcpTake, Sees, InLoop
<1>14. CASE AcpClosed
  BY <1>14 DEF AcpClosed, Sees, InLoop
<1>15. CASE AcpDone
  BY <1>15 DEF AcpDone, Sees, InLoop, Caught, AcpEnd
<1>16. CASE AcpSilent
  BY <1>16 DEF AcpSilent, Sees, InLoop, Caught
<1>17. CASE CodexTake
  BY <1>17 DEF CodexTake
<1>18. CASE ClaudeTake
  BY <1>18 DEF ClaudeTake
<1>19. CASE StreamClosed
  BY <1>19 DEF StreamClosed, InLoop
<1> QED BY <1>1, <1>2, <1>3, <1>4, <1>5, <1>6, <1>7, <1>8, <1>9, <1>10,
           <1>11, <1>12, <1>13, <1>14, <1>15, <1>16, <1>17, <1>18, <1>19 DEF Setup, Loop

LEMMA PhasesAgent ==
  ASSUME IInv, at # "over", Agent
  PROVE  Phases' /\ Stamps' /\ AcpAnswer'
<1>0. /\ TypeOK /\ TypeOK'
      /\ Len(wire) \in Nat /\ Len(wire') \in Nat /\ Len(wire) <= Len(wire')
  <2>1. TypeOK /\ TypeOK'
    BY TypeStep DEF IInv, Next
  <2>2. wire \in Seq(Message) /\ wire' \in Seq(Message)
    BY <2>1 DEF TypeOK
  <2>3. wire' = wire \/ Len(wire') = Len(wire) + 1
    BY <2>1, AgentWrites DEF Grows
  <2> QED BY <2>1, <2>2, <2>3
<1>1. answer.after <= Len(wire) /\ answer.after \in Nat
  BY <1>0 DEF IInv, Stamps, TypeOK, Answers
<1>2. CASE Say \/ Ask \/ Elsewhere \/ StartHelper \/ HelperEnds \/ WokenTurn
  <2>1. Aside
    BY <1>0, <1>2, SayWrites, ElsewhereWrites, StartWrites, EndWrites, WokenWrites
  <2>2. driver = "codex" => helper' = helper
    <3>1. driver = "codex" => Waits = {} /\ \A h \in Subagent : helper[h] # "runs"
      BY DEF Waits, IInv, Stamps
    <3> QED BY <1>0, <1>2, <3>1, SayWrites, ElsewhereWrites, StartWrites, EndWrites, WokenWrites
  <2>3. Phases'
    BY <2>1 DEF IInv, Phases, Early, Aside, link, turn, Nothing
  <2>4. Stamps'
    BY <1>0, <1>1, <2>1, <2>2 DEF IInv, Stamps, Aside, turn, Nothing
  <2>5. AcpAnswer'
    BY <2>1 DEF IInv, AcpAnswer, Aside, link, turn, Nothing
  <2> QED BY <2>3, <2>4, <2>5
<1>3. CASE Boot
  <2>1. /\ UNCHANGED <<driver, cancelled, helper, answer, ask, wire, full, link, turn>>
        /\ \/ agent = "boots" /\ agent' = "opens"
           \/ agent = "opens" /\ at = "setup" /\ agent' = "ready"
        /\ response'.how \in {"ok", "error"}
    BY <1>3 DEF Boot, Responds
  <2> QED BY <2>1 DEF IInv, Phases, Stamps, AcpAnswer, Early, link, turn, Nothing
<1>4. CASE Begin
  <2>1. /\ UNCHANGED <<driver, cancelled, helper, answer, ask, link, turn>>
        /\ agent = "ready" /\ agent' = "works" /\ at \notin {"init", "setup"}
        /\ driver = "acp" => response' = response
        /\ response' = response \/ response'.how \in {"ok", "error"}
    BY <1>0, <1>4, BeginWrites
  <2>2. Phases'
    BY <2>1 DEF IInv, Phases, Early, link, turn, Nothing
  <2>3. Stamps' /\ AcpAnswer'
    BY <1>0, <1>1, <2>1 DEF IInv, Stamps, AcpAnswer, link, turn, Nothing
  <2> QED BY <2>2, <2>3
<1>5. CASE Answer
  <2>1. PICK how \in Hows :
          /\ answer' = [how |-> how, after |-> Len(wire')]
          /\ driver = "acp" => response' = answer'
          /\ driver # "acp" => response' = response
    BY <1>0, <1>5, AnswerWrites
  <2>2. /\ UNCHANGED <<driver, cancelled, helper, ask, full, link, turn>>
        /\ agent = "works" /\ agent' = "rests" /\ answer = Nothing
    BY <1>0, <1>5, AnswerWrites DEF IInv, Phases
  <2>3. how # "none"
    BY DEF Hows
  <2>4. Phases'
    BY <2>1, <2>2, <2>3 DEF IInv, Phases, Early, link, turn
  <2>5. Stamps'
    BY <1>0, <2>1, <2>2, <2>3 DEF IInv, Stamps, turn, Nothing
  <2>6. AcpAnswer'
    BY <2>1, <2>2, <2>3 DEF IInv, Phases, AcpAnswer, link, turn, Early, Nothing, Hows
  <2> QED BY <2>4, <2>5, <2>6
<1>6. CASE Exit
  BY <1>6 DEF Exit, IInv, Phases, Stamps, AcpAnswer, Early, pipe, link, turn
<1> QED BY <1>2, <1>3, <1>4, <1>5, <1>6 DEF Agent

LEMMA PhasesReader ==
  ASSUME IInv, at # "over", Cancel \/ Reader \/ Decide
  PROVE  Phases' /\ Stamps' /\ AcpAnswer'
<1>0. /\ response.how \notin {"waits", "closed"}
      /\ read \in Nat /\ response.after \in Nat
  BY DEF IInv, TypeOK, Answers, Hows
<1> USE <1>0 DEF IInv, Phases, Stamps, AcpAnswer, Early, Nothing, Hows, proc, pipe, link, turn
<1>1. CASE Cancel
  BY <1>1 DEF Cancel
<1>2. CASE ReadMessage
  <2>1. /\ UNCHANGED <<driver, cancelled, proc, pipe, eof, reply, turn>> /\ read' = read + 1
    BY <1>2 DEF ReadMessage
  <2>2. answer.after \in Nat
    BY DEF TypeOK, Answers
  <2> QED BY <2>1, <2>2
<1>3. CASE ReadResponse
  BY <1>3 DEF ReadResponse
<1>4. CASE ReadEof
  BY <1>4 DEF ReadEof
<1>5. CASE Decide
  BY <1>5 DEF Decide
<1> QED BY <1>1, <1>2, <1>3, <1>4, <1>5 DEF Reader

LEMMA PhasesTurn ==
  ASSUME IInv, at # "over", Setup \/ Loop
  PROVE  Phases'
<1> USE DEF IInv, TypeOK, Phases, Stamps, AcpAnswer, Early, Nothing, Hows, proc, pipe, link, idle
<1>1. CASE StopEarly
  BY <1>1 DEF StopEarly, Awaits, Ends
<1>2. CASE NoStart
  BY <1>2 DEF NoStart, Awaits, Ends
<1>3. CASE Opens
  BY <1>3 DEF Opens, Requests
<1>4. CASE Meanwhile
  BY <1>4 DEF Meanwhile
<1>5. CASE AcpPrompt
  BY <1>5 DEF AcpPrompt, Requests
<1>6. CASE CodexStart
  BY <1>6 DEF CodexStart, Requests
<1>7. CASE CodexStarted
  BY <1>7 DEF CodexStarted
<1>8. CASE ClaudePrompt
  BY <1>8 DEF ClaudePrompt, Ends
<1>9. CASE ClaudePrompted
  BY <1>9 DEF ClaudePrompted, Ends, Clear
<1>10. CASE SeeStop
  BY <1>10 DEF SeeStop, InLoop
<1>11. CASE Written
  BY <1>11 DEF Written
<1>12. CASE Elapse
  BY <1>12 DEF Elapse, InLoop, Ends
<1>13. CASE AcpTake
  BY <1>13 DEF AcpTake, Sees, InLoop, Ends
<1>14. CASE AcpClosed
  BY <1>14 DEF AcpClosed, Sees, InLoop, Ends
<1>15. CASE AcpDone
  BY <1>15 DEF AcpDone, Sees, InLoop, Caught, AcpEnd, Ends
<1>16. CASE AcpSilent
  BY <1>16 DEF AcpSilent, Sees, InLoop, Caught, Ends
<1>17. CASE CodexTake
  BY <1>17 DEF CodexTake, Ends
<1>18. CASE ClaudeTake
  BY <1>18 DEF ClaudeTake, Ends
<1>19. CASE StreamClosed
  BY <1>19 DEF StreamClosed, InLoop, Ends
<1> QED BY <1>1, <1>2, <1>3, <1>4, <1>5, <1>6, <1>7, <1>8, <1>9, <1>10,
           <1>11, <1>12, <1>13, <1>14, <1>15, <1>16, <1>17, <1>18, <1>19 DEF Setup, Loop

LEMMA StampsTurn ==
  ASSUME IInv, at # "over", Setup \/ Loop
  PROVE  Stamps'
<1>1. UNCHANGED <<driver, helper, answer, wire, response>>
  BY TurnKeeps
<1>2. driver # "acp" => answered' = answered
  BY DEF Setup, Loop, StopEarly, NoStart, Opens, Meanwhile, AcpPrompt, CodexStart, CodexStarted, ClaudePrompt,
         ClaudePrompted, SeeStop, Written, Elapse, AcpTake, AcpClosed, AcpDone, AcpSilent, CodexTake, ClaudeTake,
         StreamClosed
<1> QED BY <1>1, <1>2 DEF IInv, Stamps, Nothing

LEMMA AcpAnswerTurn ==
  ASSUME IInv, at # "over", Setup \/ Loop
  PROVE  AcpAnswer'
<1> USE DEF IInv, TypeOK, Phases, Stamps, AcpAnswer, Early, Nothing, Hows, Answers, proc, pipe, link, idle
<1>1. CASE StopEarly
  BY <1>1 DEF StopEarly, Awaits, Ends
<1>2. CASE NoStart
  BY <1>2 DEF NoStart, Awaits, Ends
<1>3. CASE Opens
  BY <1>3 DEF Opens, Requests
<1>4. CASE Meanwhile
  BY <1>4 DEF Meanwhile
<1>5. CASE AcpPrompt
  BY <1>5 DEF AcpPrompt, Requests
<1>6. CASE CodexStart
  BY <1>6 DEF CodexStart, Requests
<1>7. CASE CodexStarted
  BY <1>7 DEF CodexStarted
<1>8. CASE ClaudePrompt
  BY <1>8 DEF ClaudePrompt, Ends
<1>9. CASE ClaudePrompted
  BY <1>9 DEF ClaudePrompted, Ends, Clear
<1>10. CASE SeeStop
  BY <1>10 DEF SeeStop, InLoop
<1>11. CASE Written
  BY <1>11 DEF Written
<1>12. CASE Elapse
  BY <1>12 DEF Elapse, InLoop, Ends
<1>13. CASE AcpTake
  <2>1. /\ taken' = taken + 1 /\ at' \in {at, "over"} /\ at = "loop"
        /\ UNCHANGED <<driver, answer, read, response, reply, answered, wire>>
    BY <1>13 DEF AcpTake, Sees, InLoop, Ends
  <2> QED BY <2>1
<1>14. CASE AcpClosed
  BY <1>14 DEF AcpClosed, Sees, InLoop, Ends
<1>15. CASE AcpDone
  BY <1>15 DEF AcpDone, Sees, InLoop, Caught, AcpEnd, Ends
<1>16. CASE AcpSilent
  BY <1>16 DEF AcpSilent, Sees, InLoop, Caught, Ends
<1>17. CASE CodexTake
  BY <1>17 DEF CodexTake, Ends
<1>18. CASE ClaudeTake
  BY <1>18 DEF ClaudeTake, Ends
<1>19. CASE StreamClosed
  BY <1>19 DEF StreamClosed, InLoop, Ends
<1> QED BY <1>1, <1>2, <1>3, <1>4, <1>5, <1>6, <1>7, <1>8, <1>9, <1>10,
           <1>11, <1>12, <1>13, <1>14, <1>15, <1>16, <1>17, <1>18, <1>19 DEF Setup, Loop

LEMMA WireType ==
  ASSUME IInv, at # "over", Next
  PROVE  /\ TypeOK /\ TypeOK'
         /\ Len(wire) \in Nat /\ Len(wire') \in Nat
         /\ taken \in Nat /\ taken <= Len(wire)
         /\ answer.after \in Nat /\ answer.after <= Len(wire)
<1>1. TypeOK /\ TypeOK'
  BY TypeStep DEF IInv
<1>2. wire \in Seq(Message) /\ wire' \in Seq(Message)
  BY <1>1 DEF TypeOK
<1>3. taken \in Nat /\ taken <= Len(wire)
  BY <1>1, <1>2 DEF TypeOK
<1>4. answer.after \in Nat /\ answer.after <= Len(wire)
  BY <1>1 DEF IInv, Stamps, TypeOK, Answers
<1> QED BY <1>1, <1>2, <1>3, <1>4

LEMMA CodexAnswerAgent ==
  ASSUME IInv, at # "over", Agent
  PROVE  CodexAnswer'
<1>0. /\ TypeOK /\ Len(wire) \in Nat /\ Len(wire') \in Nat
  BY WireType DEF Next
<1> USE DEF IInv, CodexAnswer
<1>1. CASE Boot \/ Exit
  BY <1>1 DEF Boot, Exit, pipe
<1>2. CASE Begin
  BY <1>0, <1>2, BeginWrites
<1>3. ASSUME driver = "codex", NEW m, Grows(m), UNCHANGED <<driver, answer>>,
             ~(m.mine /\ m.what \in {"ok", "cancelled"})
      PROVE  CodexAnswer'
  BY <1>0, <1>3 DEF Grows
<1>4. CASE Say \/ Ask
  <2>1. PICK what \in Spare : Grows(Msg(what, {}))
    BY <1>0, <1>4, SayWrites
  <2>2. Msg(what, {}).what \notin {"ok", "cancelled"}
    BY DEF Msg, Spare
  <2>3. UNCHANGED <<driver, answer>>
    BY <1>0, <1>4, SayWrites DEF Aside
  <2> QED BY <1>3, <2>1, <2>2, <2>3
<1>5. CASE Elsewhere
  <2>1. PICK how \in Hows : Grows(Foreign(how))
    BY <1>0, <1>5, ElsewhereWrites
  <2>2. ~Foreign(how).mine
    BY DEF Foreign
  <2>3. UNCHANGED <<driver, answer>>
    BY <1>0, <1>5, ElsewhereWrites DEF Aside
  <2> QED BY <1>3, <2>1, <2>2, <2>3
<1>6. CASE StartHelper \/ HelperEnds \/ WokenTurn
  <2>1. driver # "codex"
    <3>1. driver = "codex" => Waits = {} /\ \A h \in Subagent : helper[h] # "runs"
      BY DEF Stamps, Waits
    <3> QED BY <1>0, <1>6, <3>1, StartWrites, EndWrites, WokenWrites
  <2>2. driver' = driver
    BY <1>0, <1>6, StartWrites, EndWrites, WokenWrites DEF Aside
  <2> QED BY <2>1, <2>2
<1>7. CASE Answer
  <2>1. PICK how \in Hows :
          /\ answer' = [how |-> how, after |-> Len(wire')]
          /\ driver = "codex" => Grows(Msg(how, {}))
    BY <1>0, <1>7, AnswerWrites
  <2>2. answer = Nothing /\ driver' = driver
    BY <1>0, <1>7, AnswerWrites DEF Phases
  <2>3. ASSUME driver = "codex", NEW i \in 1 .. Len(wire)
        PROVE  ~(wire[i].mine /\ wire[i].what \in {"ok", "cancelled"})
    BY <2>2, <2>3 DEF Nothing
  <2>4. Msg(how, {}).what = how
    BY DEF Msg
  <2> QED BY <1>0, <2>1, <2>2, <2>3, <2>4 DEF Grows
<1> QED BY <1>1, <1>2, <1>4, <1>5, <1>6, <1>7 DEF Agent

\* What a message of Claude's must not break.
Fits(m) ==
  /\ Early' => m.what # "echo"
  /\ ~m.mine => Early /\ Early'
  /\ m.mine /\ m.what \in {"ok", "max", "error", "woken"} =>
       /\ answer'.how # "none"
       /\ m.what = "ok" => answer'.after = Len(wire')

LEMMA ClaudeFits ==
  ASSUME IInv, at # "over", driver = "claude", NEW m, Grows(m), Fits(m),
         UNCHANGED <<driver, taken, seen, at>>,
         Early' => Early,
         \/ answer' = answer
         \/ /\ answer = Nothing /\ answer' = [how |-> m.what, after |-> Len(wire')]
            /\ m.what \in {"ok", "max", "error"},
         Next
  PROVE  ClaudeEcho' /\ ClaudeResults' /\ ClaudeEnds'
<1>0. /\ Len(wire) \in Nat /\ Len(wire') = Len(wire) + 1 /\ wire'[Len(wire')] = m
      /\ \A i \in 1 .. Len(wire) : wire'[i] = wire[i]
      /\ taken \in Nat /\ taken <= Len(wire)
      /\ answer.after \in Nat /\ answer.after <= Len(wire)
  BY WireType DEF Grows
<1>1. ClaudeEcho'
  <2>1. ASSUME Early', NEW j \in 1 .. Len(wire')
        PROVE  wire'[j].what # "echo"
    BY <1>0, <2>1 DEF IInv, ClaudeEcho, Fits
  <2>2. ASSUME seen
        PROVE  \E j \in 1 .. taken : wire'[j].what = "echo"
    <3>1. PICK j \in 1 .. taken : wire[j].what = "echo"
      BY <2>2 DEF IInv, ClaudeEcho
    <3> QED BY <1>0, <3>1
  <2>3. ASSUME NEW i \in 1 .. Len(wire'), NEW j \in 1 .. Len(wire'), wire'[j].what = "echo", j <= i
        PROVE  wire'[i].mine
    <3>1. CASE i \in 1 .. Len(wire)
      BY <1>0, <2>3, <3>1 DEF IInv, ClaudeEcho
    <3>2. CASE i = Len(wire')
      BY <1>0, <2>1, <2>3, <3>2 DEF Fits
    <3> QED BY <1>0, <3>1, <3>2
  <2> QED BY <2>1, <2>2, <2>3 DEF ClaudeEcho
<1>2. ASSUME NEW i \in 1 .. Len(wire'), wire'[i].mine,
             wire'[i].what \in {"ok", "max", "error", "woken"}
      PROVE  /\ answer'.how # "none" /\ answer'.after <= i
             /\ wire'[i].what = "ok" => answer'.after = i
  <2>1. CASE i \in 1 .. Len(wire)
    <3>1. wire'[i] = wire[i]
      BY <1>0, <2>1
    <3>2. /\ answer.how # "none" /\ answer.after <= i
          /\ wire[i].what = "ok" => answer.after = i
      BY <1>2, <2>1, <3>1 DEF IInv, ClaudeResults
    <3>3. answer' = answer
      BY <3>2 DEF Nothing
    <3> QED BY <3>1, <3>2, <3>3
  <2>2. CASE i = Len(wire')
    BY <1>0, <1>2, <2>2 DEF Fits
  <2> QED BY <1>0, <2>1, <2>2
<1>3. ClaudeEnds'
  <2>1. CASE answer' = answer
    BY <1>0, <2>1 DEF IInv, ClaudeEnds
  <2>2. CASE answer' # answer
    BY <1>0, <2>2 DEF IInv, ClaudeEnds
  <2> QED BY <2>1, <2>2
<1> QED BY <1>1, <1>2, <1>3 DEF ClaudeResults

LEMMA ClaudeAgent ==
  ASSUME IInv, at # "over", Agent
  PROVE  ClaudeEcho' /\ ClaudeResults' /\ ClaudeEnds'
<1>0. TypeOK /\ Next
  BY DEF IInv, Next
<1>1. CASE driver # "claude"
  <2>1. driver' = driver
    BY <1>0, SayWrites, ElsewhereWrites, StartWrites, EndWrites, WokenWrites, BeginWrites, AnswerWrites
       DEF Agent, Boot, Exit, Aside
  <2> QED BY <1>1, <2>1 DEF ClaudeEcho, ClaudeResults, ClaudeEnds
<1> SUFFICES ASSUME driver = "claude"
             PROVE  ClaudeEcho' /\ ClaudeResults' /\ ClaudeEnds'
  BY <1>1
<1>2. CASE Boot \/ Exit
  <2>1. UNCHANGED <<driver, answer, wire, turn>> /\ (Early' => Early)
    BY <1>2 DEF Boot, Exit, pipe, Early
  <2> QED BY <2>1 DEF IInv, ClaudeEcho, ClaudeResults, ClaudeEnds, turn
<1>3. CASE Begin
  <2>1. /\ Grows(Msg("echo", {})) /\ ~Early'
        /\ UNCHANGED <<driver, answer, taken, seen, at>>
    BY <1>0, <1>3, BeginWrites DEF turn, Early
  <2>2. Fits(Msg("echo", {}))
    BY <2>1 DEF Fits, Msg
  <2> QED BY <1>0, <2>1, <2>2, ClaudeFits
<1>4. CASE Answer
  <2>1. PICK how \in {"ok", "max", "error"} :
          answer' = [how |-> how, after |-> Len(wire')] /\ Grows(Msg(how, {}))
    BY <1>0, <1>4, AnswerWrites
  <2>2. /\ UNCHANGED <<driver, taken, seen, at>> /\ ~Early'
        /\ answer = Nothing
    BY <1>0, <1>4, AnswerWrites DEF turn, Early, IInv, Phases
  <2>3. Msg(how, {}).what = how
    BY DEF Msg
  <2>4. Fits(Msg(how, {}))
    BY <2>1, <2>2 DEF Fits, Msg
  <2> QED BY <1>0, <2>1, <2>2, <2>3, <2>4, ClaudeFits
<1>5. CASE Say \/ Ask \/ Elsewhere \/ StartHelper \/ HelperEnds \/ WokenTurn
  <2>1. /\ UNCHANGED <<driver, answer, taken, seen, at>> /\ Early' = Early
    BY <1>0, <1>5, SayWrites, ElsewhereWrites, StartWrites, EndWrites, WokenWrites
       DEF Aside, turn, Early
  <2>2. \E m : Grows(m) /\ Fits(m)
    <3>1. CASE Say \/ Ask
      <4>1. PICK what \in Spare : Grows(Msg(what, {}))
        BY <1>0, <3>1, SayWrites
      <4>2. Fits(Msg(what, {}))
        BY DEF Fits, Msg, Spare
      <4> QED BY <4>1, <4>2
    <3>2. CASE Elsewhere
      <4>1. PICK how \in Hows : Grows(Foreign(how))
        BY <1>0, <3>2, ElsewhereWrites
      <4>2. Early
        BY <1>0, <3>2, ElsewhereWrites
      <4>3. Fits(Foreign(how))
        BY <2>1, <4>2 DEF Fits, Foreign, Hows
      <4> QED BY <4>1, <4>3
    <3>3. CASE StartHelper
      <4>1. PICK h \in Subagent : Grows(Msg("agents", Runs \cup {h}))
        BY <1>0, <3>3, StartWrites
      <4>2. Fits(Msg("agents", Runs \cup {h}))
        BY DEF Fits, Msg
      <4> QED BY <4>1, <4>2
    <3>4. CASE HelperEnds
      <4>1. PICK h \in Subagent : Grows(Msg("agents", Runs \ {h}))
        BY <1>0, <3>4, EndWrites
      <4>2. Fits(Msg("agents", Runs \ {h}))
        BY DEF Fits, Msg
      <4> QED BY <4>1, <4>2
    <3>5. CASE WokenTurn
      <4>1. PICK S \in SUBSET Waits, what \in {"woken", "max", "error"} : Grows(Msg(what, Waits \ S))
        BY <1>0, <3>5, WokenWrites
      <4>2. answer'.how # "none"
        BY <1>0, <2>1, <3>5, WokenWrites DEF IInv, Phases
      <4>3. Fits(Msg(what, Waits \ S))
        BY <4>2 DEF Fits, Msg
      <4> QED BY <4>1, <4>3
    <3> QED BY <1>5, <3>1, <3>2, <3>3, <3>4, <3>5
  <2> QED BY <1>0, <2>1, <2>2, ClaudeFits
<1> QED BY <1>2, <1>3, <1>4, <1>5 DEF Agent

LEMMA ClaudeTurn ==
  ASSUME IInv, at # "over", Setup \/ Loop
  PROVE  ClaudeEcho' /\ ClaudeEnds'
<1>0. /\ taken \in Nat /\ taken <= Len(wire) /\ Len(wire) \in Nat
  BY WireType DEF Next
<1>1. UNCHANGED <<driver, agent, answer, wire>>
  BY TurnKeeps
<1>2. CASE ClaudeTake
  <2>1. /\ taken' = taken + 1 /\ (seen' <=> (seen \/ wire[taken'].what = "echo"))
        /\ wire[taken'].what \in {"max", "error"} => at' = "over"
    BY <1>2 DEF ClaudeTake, Ends
  <2>2. ASSUME seen', driver = "claude"
        PROVE  \E j \in 1 .. taken' : wire[j].what = "echo"
    <3>1. CASE seen
      <4>1. PICK j \in 1 .. taken : wire[j].what = "echo"
        BY <2>2, <3>1 DEF IInv, ClaudeEcho
      <4> QED BY <1>0, <2>1, <4>1
    <3>2. CASE ~seen
      BY <1>0, <2>1, <2>2, <3>2
    <3> QED BY <3>1, <3>2
  <2>3. ClaudeEcho'
    BY <1>1, <2>2 DEF IInv, ClaudeEcho, Early
  <2>4. ClaudeEnds'
    BY <1>0, <1>1, <2>1 DEF IInv, ClaudeEnds
  <2> QED BY <2>3, <2>4
<1>3. CASE driver = "claude" /\ ~ClaudeTake
  <2>1. seen' = seen
    BY <1>3 DEF Setup, Loop, StopEarly, NoStart, Opens, Meanwhile, AcpPrompt, CodexStart, CodexStarted, ClaudePrompt,
         ClaudePrompted, SeeStop, Written, Elapse, AcpTake, AcpClosed, AcpDone, AcpSilent, CodexTake,
         StreamClosed
  <2>2. taken' = taken
    BY <1>3, TurnKeeps DEF Meanwhile, AcpTake, CodexTake
  <2> QED BY <1>1, <2>1, <2>2 DEF IInv, ClaudeEcho, ClaudeEnds, Early
<1>4. CASE driver # "claude"
  BY <1>1, <1>4 DEF ClaudeEcho, ClaudeEnds
<1> QED BY <1>2, <1>3, <1>4

LEMMA InvStep ==
  ASSUME IInv, [Next]_vars
  PROVE  IInv'
<1>1. CASE UNCHANGED vars
  BY <1>1 DEF IInv, TypeOK, Phases, Stamps, AcpAnswer, CodexAnswer, ClaudeEcho, ClaudeResults, ClaudeEnds,
              Early, vars, proc, pipe, link, turn
<1>2. CASE Next
  <2>1. at # "over" /\ (Cancel \/ Agent \/ Reader \/ Decide \/ Setup \/ Loop)
    BY <1>2 DEF Next
  <2>2. TypeOK'
    BY <1>2, TypeStep DEF IInv
  <2>3. Phases' /\ Stamps' /\ AcpAnswer'
    BY <2>1, PhasesAgent, PhasesReader, PhasesTurn, StampsTurn, AcpAnswerTurn
  <2>4. CASE Agent
    BY <2>1, <2>2, <2>3, <2>4, CodexAnswerAgent, ClaudeAgent DEF IInv
  <2>5. CASE Cancel \/ Reader \/ Decide
    <3>1. UNCHANGED <<driver, agent, answer, wire, taken, seen, at>>
      BY <2>5, ReaderKeeps DEF turn
    <3>2. CodexAnswer' /\ ClaudeEcho' /\ ClaudeResults' /\ ClaudeEnds'
      BY <3>1 DEF IInv, CodexAnswer, ClaudeEcho, ClaudeResults, ClaudeEnds, Early
    <3> QED BY <2>2, <2>3, <3>2 DEF IInv
  <2>6. CASE Setup \/ Loop
    <3>1. UNCHANGED <<driver, answer, wire>>
      BY <2>6, TurnKeeps
    <3>2. CodexAnswer' /\ ClaudeResults'
      BY <3>1 DEF IInv, CodexAnswer, ClaudeResults
    <3> QED BY <2>1, <2>2, <2>3, <2>6, <3>2, ClaudeTurn DEF IInv
  <2> QED BY <2>1, <2>4, <2>5, <2>6
<1> QED BY <1>1, <1>2

LEMMA InvInit ==
  ASSUME Init
  PROVE  IInv
<1>1. TypeOK
  <2>1. Nothing \in Answers
    BY BoundAssumption DEF Nothing, Answers
  <2>2. Idle \in [runs : SUBSET Subagent, wake : BOOLEAN]
    BY DEF Idle
  <2>3. wire \in Seq(Message) /\ Len(wire) = 0
    BY DEF Init
  <2>4. /\ cancelled \in BOOLEAN /\ eof \in BOOLEAN /\ full \in BOOLEAN /\ stopping \in BOOLEAN
        /\ writes \in BOOLEAN /\ named \in BOOLEAN
        /\ seen \in BOOLEAN /\ answered \in BOOLEAN /\ open \in BOOLEAN
    BY DEF Init
  <2>5. read = 0 /\ taken = 0 /\ held = 0 /\ MaxWire \in Nat
    BY BoundAssumption DEF Init
  <2>6. /\ driver \in Driver /\ response \in Answers /\ answer \in Answers
        /\ known \in [runs : SUBSET Subagent, wake : BOOLEAN]
        /\ helper \in [Subagent -> {"none", "runs", "wakes", "over"}]
    BY <2>1, <2>2 DEF Init
  <2>7. /\ agent \in {"boots", "opens"} /\ ask = "none" /\ at \in {"init", "setup"}
        /\ reply = "waits" /\ outcome = "none"
    BY DEF Init
  <2> QED BY <2>3, <2>4, <2>5, <2>6, <2>7 DEF TypeOK
<1>2. Phases /\ Stamps /\ AcpAnswer
  BY DEF Init, Phases, Stamps, AcpAnswer, Early, Nothing, Hows
<1>3. CodexAnswer /\ ClaudeEcho /\ ClaudeResults /\ ClaudeEnds
  BY DEF Init, CodexAnswer, ClaudeEcho, ClaudeResults, ClaudeEnds, Nothing
<1> QED BY <1>1, <1>2, <1>3 DEF IInv

\* The invariant holds of every turn, and the types of its state with it.
THEOREM Invariance == Spec => []IInv
<1> QED BY InvInit, InvStep, PTL DEF Spec

\* Every variable keeps to its type.
THEOREM TypeCorrect == Spec => []TypeOK
<1>1. IInv => TypeOK
  BY DEF IInv
<1> QED BY <1>1, Invariance, PTL

(***************************************************************************)
(* The refinement                                                          *)
(***************************************************************************)
\* What the contract sees of a step that passes messages on and goes on.
LEMMA Passes ==
  ASSUME IInv, at # "over", UNCHANGED <<cancelled, agent, answer, wire, outcome>>,
         taken' - held' \in taken - held .. Len(wire)
  PROVE  C!Hear
<1>1. outcome = "none" /\ outcome' = "none"
  BY DEF IInv, Phases, TypeOK
<1>2. ~Astray /\ ~Astray'
  BY <1>1 DEF Astray
<1> QED BY <1>1, <1>2 DEF C!Hear, C!Hears

LEMMA Finishes ==
  ASSUME IInv, at # "over", UNCHANGED <<cancelled, agent, answer, wire>>,
         taken' - held' \in taken - held .. Len(wire),
         \/ Astray'
         \/ /\ outcome' = "completed"
            /\ answer.how \in {"ok", "max"} /\ answer.after <= taken' - held'
         \/ /\ outcome' = "interrupted"
            /\ cancelled \/ agent = "gone" \/ answer.how = "cancelled"
         \/ outcome' = "failed"
  PROVE  C!Next
<1>1. outcome = "none" /\ ~Astray
  BY DEF IInv, Phases, TypeOK, Astray
<1>2. CASE Astray'
  BY <1>1, <1>2 DEF C!Next, C!Fail, C!Hears
<1>3. CASE ~Astray'
  BY <1>1, <1>3 DEF C!Next, C!Complete, C!Interrupt, C!Fail, C!Hears, C!Whole
<1> QED BY <1>2, <1>3

\* Nothing is astray before the end.
LEMMA NotAstray ==
  ASSUME IInv, at # "over", outcome' = outcome
  PROVE  outcome = "none" /\ ~Astray /\ ~Astray'
  BY DEF IInv, Phases, TypeOK, Astray

LEMMA AgentRefines ==
  ASSUME IInv, at # "over", Agent
  PROVE  [C!Next]_(C!vars)
<1>0. /\ TypeOK /\ Len(wire) \in Nat
      /\ wire' = wire \/ Len(wire') = Len(wire) + 1
  BY WireType, AgentWrites DEF Grows, Next
<1>1. CASE Answer
  <2>1. PICK how \in Hows : answer' = [how |-> how, after |-> Len(wire')]
    BY <1>0, <1>1, AnswerWrites
  <2>2. /\ answer = C!NoAnswer /\ UNCHANGED <<cancelled, outcome, taken, held>>
        /\ (agent' = "gone") = (agent = "gone")
    BY <1>0, <1>1, AnswerWrites DEF IInv, Phases, Nothing, C!NoAnswer, turn
  <2>3. how \in C!Hows
    BY DEF Hows, C!Hows, C!Whole
  <2>4. Len(wire') \in {Len(wire), Len(wire) + 1}
    BY <1>0
  <2>5. C!Answer
    BY <2>1, <2>2, <2>3, <2>4, NotAstray DEF C!Answer
  <2> QED BY <2>5 DEF C!Next
<1>2. CASE Exit
  <2>1. UNCHANGED <<cancelled, answer, wire, outcome, taken, held>> /\ agent' = "gone"
    BY <1>2 DEF Exit, pipe, turn
  <2>2. C!Exit
    BY <2>1, NotAstray DEF C!Exit
  <2> QED BY <2>2 DEF C!Next
<1>3. CASE Boot \/ Begin \/ Say \/ Ask \/ Elsewhere \/ StartHelper \/ HelperEnds \/ WokenTurn
  <2>1. /\ UNCHANGED <<cancelled, answer, outcome, taken, held>>
        /\ (agent' = "gone") = (agent = "gone")
    BY <1>0, <1>3, SayWrites, ElsewhereWrites, StartWrites, EndWrites, WokenWrites, BeginWrites
       DEF Boot, Aside, turn
  <2> QED BY <1>0, <2>1, NotAstray DEF C!Next, C!Send, C!vars
<1> QED BY <1>1, <1>2, <1>3 DEF Agent

LEMMA ReaderRefines ==
  ASSUME IInv, at # "over", Cancel \/ Reader \/ Decide
  PROVE  [C!Next]_(C!vars)
<1>1. UNCHANGED <<agent, answer, wire, outcome, taken, held>>
  BY ReaderKeeps DEF turn
<1>2. cancelled' = cancelled \/ cancelled' = TRUE
  BY DEF Cancel, Reader, ReadMessage, ReadResponse, ReadEof, Decide
<1> QED BY <1>1, <1>2, NotAstray DEF C!Next, C!Stop, C!vars

LEMMA SetupRefines ==
  ASSUME IInv, at # "over", Setup
  PROVE  [C!Next]_(C!vars)
<1>0. taken \in Nat /\ held \in 0 .. taken /\ taken <= Len(wire) /\ Len(wire) \in Nat
      /\ read \in 0 .. Len(wire)
  BY DEF IInv, TypeOK
<1>1. UNCHANGED <<cancelled, agent, answer, wire>>
  BY TurnKeeps
<1> USE <1>0, <1>1
<1>2. CASE outcome' = "failed" /\ UNCHANGED <<taken, held>>
  BY <1>2, Finishes
<1>3. CASE outcome' = outcome /\ UNCHANGED <<taken, held>>
  BY <1>3, NotAstray DEF C!vars
<1>4. CASE StopEarly
  <2>1. cancelled /\ outcome' = "interrupted" /\ UNCHANGED <<taken, held>>
    BY <1>4 DEF StopEarly, Ends
  <2> QED BY <2>1, Finishes
<1>5. CASE Meanwhile
  <2>1. taken' = taken + 1 /\ held' = held + 1 /\ outcome' = outcome
    BY <1>5 DEF Meanwhile
  <2>2. taken' - held' = taken - held
    BY <2>1
  <2> QED BY <2>1, <2>2, NotAstray DEF C!vars
<1>6. CASE AcpPrompt
  <2>1. taken' = taken /\ held' = 0 /\ outcome' = outcome
    BY <1>6 DEF AcpPrompt
  <2> QED BY <2>1, Passes DEF C!Next
<1>7. CASE NoStart \/ Opens \/ CodexStart \/ CodexStarted \/ ClaudePrompt \/ ClaudePrompted
  <2>1. UNCHANGED <<taken, held>> /\ (outcome' = "failed" \/ outcome' = outcome)
    BY <1>7 DEF NoStart, Opens, CodexStart, CodexStarted, ClaudePrompt, ClaudePrompted, Ends
  <2> QED BY <1>2, <1>3, <2>1
<1> QED BY <1>4, <1>5, <1>6, <1>7 DEF Setup

LEMMA LoopRefines ==
  ASSUME IInv, at # "over", Loop
  PROVE  [C!Next]_(C!vars)
<1>0. /\ taken \in Nat /\ held \in 0 .. taken /\ taken \in 0 .. read /\ read \in 0 .. Len(wire)
      /\ Len(wire) \in Nat /\ outcome = "none" /\ answer.after \in Nat
      /\ stopping => cancelled
  BY DEF IInv, TypeOK, Phases, Answers
<1>00. UNCHANGED <<cancelled, agent, answer, wire>>
  BY TurnKeeps
<1> USE <1>0, <1>00
<1>1. CASE SeeStop \/ Written
  <2>1. UNCHANGED <<taken, held, outcome>>
    BY <1>1 DEF SeeStop, Written
  <2> QED BY <2>1, NotAstray DEF C!vars
<1>2. CASE Elapse
  <2>1. stopping /\ outcome' = "interrupted" /\ UNCHANGED <<taken, held>>
    BY <1>2 DEF Elapse, Ends
  <2> QED BY <2>1, Finishes
<1>3. CASE AcpTake
  <2>1. /\ taken' = taken + 1 /\ taken < read /\ held' = held
        /\ \/ UNCHANGED outcome
           \/ answered /\ outcome' = "completed"
    BY <1>3 DEF AcpTake, Ends
  <2>2. answered => answer.how \in {"ok", "max"} /\ answer.after <= taken - held
    BY <1>3 DEF AcpTake, Sees, InLoop, IInv, AcpAnswer, Phases
  <2> QED BY <2>1, <2>2, Passes, Finishes DEF C!Next
<1>4. CASE AcpClosed
  <2>1. /\ UNCHANGED <<taken, held>>
        /\ \/ UNCHANGED outcome
           \/ answered /\ outcome' = "completed"
    BY <1>4 DEF AcpClosed, Ends
  <2>2. answered => answer.how \in {"ok", "max"} /\ answer.after <= taken - held
    BY <1>4 DEF AcpClosed, Sees, InLoop, IInv, AcpAnswer, Phases
  <2> QED BY <2>1, <2>2, Passes, Finishes DEF C!Next
<1>5. CASE AcpDone
  <2>1. /\ UNCHANGED <<taken, held>>
        /\ outcome' = outcome \/ outcome' = AcpEnd(reply)
    BY <1>5 DEF AcpDone, Ends
  <2>2. /\ reply = "closed" => agent = "gone"
        /\ reply # "closed" => answer.how = reply /\ answer.after <= taken - held
    BY <1>5 DEF AcpDone, Sees, InLoop, Caught, IInv, TypeOK, Phases, AcpAnswer
  <2>3. CASE outcome' = outcome
    BY <2>1, <2>3, Passes DEF C!Next
  <2>4. CASE outcome' = AcpEnd(reply)
    <3>1. reply \in Hows \cup {"closed"}
      BY <1>5 DEF AcpDone, IInv, TypeOK
    <3>2. \/ outcome' = "completed" /\ reply \in {"ok", "max"}
          \/ outcome' = "interrupted" /\ (reply \in {"closed", "cancelled"} \/ stopping)
          \/ outcome' = "failed"
      BY <2>4, <3>1 DEF AcpEnd, Hows
    <3>3. CASE outcome' = "completed" /\ reply \in {"ok", "max"}
      BY <2>1, <2>2, <3>3, Finishes
    <3>4. CASE outcome' = "interrupted" /\ (reply \in {"closed", "cancelled"} \/ stopping)
      <4>1. cancelled \/ agent = "gone" \/ answer.how = "cancelled"
        BY <2>2, <3>4
      <4> QED BY <2>1, <3>4, <4>1, Finishes
    <3>5. CASE outcome' = "failed"
      BY <2>1, <3>5, Finishes
    <3> QED BY <3>2, <3>3, <3>4, <3>5
  <2> QED BY <2>1, <2>3, <2>4
<1>6. CASE AcpSilent
  <2>1. outcome' = "failed" /\ UNCHANGED <<taken, held>>
    BY <1>6 DEF AcpSilent, Ends
  <2> QED BY <2>1, Finishes
<1>7. CASE CodexTake
  <2>1. /\ taken' = taken + 1 /\ taken < read /\ driver = "codex" /\ driver' = driver
        /\ UNCHANGED <<held, named>>
        /\ \/ UNCHANGED outcome
           \/ outcome' = "failed"
           \/ /\ wire[taken'].mine \/ ~named
              /\ \/ wire[taken'].what \in {"ok", "cancelled"} /\ stopping /\ outcome' = "interrupted"
                 \/ wire[taken'].what = "ok" /\ outcome' = "completed"
                 \/ wire[taken'].what = "cancelled" /\ outcome' = "interrupted"
    BY <1>7 DEF CodexTake, Ends
  <2>2. wire[taken'].mine /\ wire[taken'].what \in {"ok", "cancelled"}
          => answer = [how |-> wire[taken'].what, after |-> taken']
    BY <2>1 DEF IInv, CodexAnswer
  <2>3. held = 0 /\ held' = 0
    BY <2>1, <1>7 DEF IInv, Phases, CodexTake
  <2>4. CASE outcome' = outcome
    BY <2>1, <2>3, <2>4, Passes DEF C!Next
  <2>5. CASE outcome' = "failed"
    BY <2>1, <2>3, <2>5, Finishes
  <2>6. CASE outcome' \in {"completed", "interrupted"} /\ ~wire[taken'].mine
    <3>1. Astray'
      BY <2>1, <2>6 DEF Astray
    <3> QED BY <2>1, <2>3, <3>1, Finishes
  <2>7. CASE outcome' \in {"completed", "interrupted"} /\ wire[taken'].mine
    BY <2>1, <2>2, <2>3, <2>7, Finishes
  <2> QED BY <2>1, <2>4, <2>5, <2>6, <2>7
<1>8. CASE ClaudeTake
  <2>1. /\ taken' = taken + 1 /\ taken < read /\ driver = "claude" /\ driver' = driver
        /\ held' = held
        /\ \/ UNCHANGED outcome
           \/ outcome' = "failed"
           \/ stopping /\ outcome' = "interrupted"
           \/ /\ outcome' = "completed"
              /\ \/ wire[taken'].what \in {"ok", "woken"} /\ seen
                 \/ wire[taken'].what = "max"
    BY <1>8 DEF ClaudeTake, Ends
  <2>2. held = 0 /\ held' = 0
    BY <2>1 DEF IInv, Phases
  <2>3. wire[taken'].what \in {"ok", "woken"} /\ seen => wire[taken'].mine
    BY <2>1 DEF IInv, ClaudeEcho
  <2>4. ASSUME wire[taken'].mine, wire[taken'].what \in {"ok", "woken", "max"}
        PROVE  answer.how \in {"ok", "max"} /\ answer.after <= taken'
    <3>1. answer.how # "none" /\ answer.after <= taken'
      BY <2>1, <2>4 DEF IInv, ClaudeResults
    <3>2. ASSUME answer.how = "error"
          PROVE  FALSE
      <4>1. answer.after \in 1 .. Len(wire) /\ wire[answer.after].what = "error"
        BY <2>1, <3>2 DEF IInv, ClaudeEnds
      <4>2. answer.after # taken'
        BY <2>4, <4>1
      <4>3. answer.after \in 1 .. taken
        BY <2>1, <3>1, <4>1, <4>2
      <4> QED BY <2>1, <4>1, <4>3 DEF IInv, ClaudeEnds
    <3> QED BY <2>1, <3>1, <3>2 DEF IInv, ClaudeEnds
  <2>5. CASE outcome' = outcome
    BY <2>1, <2>2, <2>5, Passes DEF C!Next
  <2>6. CASE outcome' = "failed"
    BY <2>1, <2>2, <2>6, Finishes
  <2>7. CASE stopping /\ outcome' = "interrupted"
    BY <2>1, <2>2, <2>7, Finishes
  <2>8. CASE outcome' = "completed" /\ wire[taken'].mine
                /\ wire[taken'].what \in {"ok", "woken", "max"}
    BY <2>1, <2>2, <2>4, <2>8, Finishes
  <2>9. CASE outcome' = "completed" /\ ~wire[taken'].mine /\ wire[taken'].what = "max"
    <3>1. Astray'
      BY <2>1, <2>9 DEF Astray
    <3> QED BY <2>1, <2>2, <3>1, Finishes
  <2> QED BY <2>1, <2>3, <2>5, <2>6, <2>7, <2>8, <2>9
<1>9. CASE StreamClosed
  <2>1. /\ agent = "gone" /\ UNCHANGED <<taken, held>>
        /\ outcome' = "failed" \/ (stopping /\ outcome' = "interrupted")
    BY <1>9 DEF StreamClosed, IInv, Phases, Ends
  <2> QED BY <2>1, Finishes
<1> QED BY <1>1, <1>2, <1>3, <1>4, <1>5, <1>6, <1>7, <1>8, <1>9 DEF Loop

\* A turn of any driver, with any agent, keeps the contract of run_turn, unless
\* it takes another turn's end for its own (Astray): KeepsContract, for every
\* length of the exchange.
THEOREM Refinement == Spec => KeepsContract
<1>1. Init => C!Init
  BY DEF Init, Nothing, Astray, C!Init, C!NoAnswer
<1>2. IInv /\ [Next]_vars => [C!Next]_(C!vars)
  <2> SUFFICES ASSUME IInv, [Next]_vars
               PROVE  [C!Next]_(C!vars)
    OBVIOUS
  <2>1. CASE UNCHANGED vars
    BY <2>1 DEF vars, proc, pipe, turn, Astray, C!vars
  <2>2. CASE Next
    BY <2>2, AgentRefines, ReaderRefines, SetupRefines, LoopRefines DEF Next
  <2> QED BY <2>1, <2>2
<1> QED BY <1>1, <1>2, Invariance, PTL DEF Spec, KeepsContract, C!Spec

(***************************************************************************)
(* The subagents a turn stays for                                          *)
(***************************************************************************)
News == {"began", "finished", "wakes", "agents", "woken"}

\* What the first k messages say: h runs; the agent is to be woken; another's
\* turn has overtaken h.
Run(h, k) ==
  \E i \in 1 .. k : Starts(wire[i], h) /\ \A j \in i .. k : ~Stops(wire[j], h)
Wake(k) ==
  \E i \in 1 .. k : wire[i].what = "wakes" /\ \A j \in i .. k : wire[j].what # "woken"
Over(h, k) == \E i \in 1 .. k : wire[i].what = "woken" /\ h \in wire[i].of

\* There are none before the prompt, and nothing is said of any.
NoneEarly ==
  /\ Early => \A h \in Subagent : helper[h] = "none"
  /\ Early \/ at \in {"init", "setup"} => \A i \in 1 .. Len(wire) : wire[i].what \notin News
  /\ driver = "claude" /\ agent = "works" => Waits = {}

\* The wire tells of each subagent what became of it, and of one that woke the
\* agent, which turn was not its own.
Unstarted(h) == \A i \in 1 .. Len(wire) : ~Starts(wire[i], h)

Running(h) ==
  /\ \E i \in 1 .. Len(wire) : Starts(wire[i], h)
  /\ \A i, j \in 1 .. Len(wire) : i <= j /\ Starts(wire[i], h) => ~Stops(wire[j], h)

Ended(h, j) == Stops(wire[j], h) /\ \E i \in 1 .. j : Starts(wire[i], h)

Waiting(h) ==
  /\ \E j \in 1 .. Len(wire) : Ended(h, j)
  /\ \A j \in 1 .. Len(wire) : Ended(h, j) =>
       /\ driver = "acp" => wire[j].what = "wakes"
       /\ driver = "claude" => answer.how # "none" /\ answer.after < j
       /\ \A m \in j .. Len(wire) : wire[m].what = "woken" => h \in wire[m].of

Tells ==
  \A h \in Subagent :
    /\ helper[h] = "none" => Unstarted(h)
    /\ helper[h] = "runs" => Running(h)
    /\ helper[h] = "wakes" => Waiting(h)

\* What the turn knows is what the messages it has taken say.
Knows ==
  driver \in {"acp", "claude"} =>
    /\ known.runs = {h \in Subagent : Run(h, taken)}
    /\ known.wake <=> Wake(taken)

\* After the answer, where nobody is said to be at work or overtaken, nobody
\* is at work ever after.
Silent(k) ==
  /\ answer.how # "none" /\ answer.after <= k
  /\ driver = "claude" => k # 0 /\ wire[k].mine /\ wire[k].what \in {"ok", "woken"}
  /\ driver = "acp" => ~Wake(k)
  /\ \A h \in Subagent : ~Run(h, k)

Settled(k) == Silent(k) /\ \A h \in Subagent : ~Over(h, k)

Quiet == \A k \in 0 .. Len(wire) : Settled(k) => Runs \cup Waits = {}

Helped == NoneEarly /\ Tells /\ Knows /\ Quiet

\* A step of the agent that is not about its subagents.
Quietly ==
  /\ helper' = helper
  /\ wire' = wire \/ \E m : Grows(m) /\ m.what \notin News
  /\ \/ answer' = answer
     \/ agent = "works" /\ answer'.after = Len(wire')

LEMMA AgentKeeps ==
  ASSUME TypeOK, Agent
  PROVE  UNCHANGED <<driver, taken, known, at>>
<1>1. CASE Boot \/ Exit
  BY <1>1 DEF Boot, Exit, turn
<1>2. CASE Begin
  BY <1>2, BeginWrites DEF turn
<1>3. CASE Answer
  BY <1>3, AnswerWrites DEF turn
<1>4. CASE Say \/ Ask \/ Elsewhere \/ StartHelper \/ HelperEnds \/ WokenTurn
  BY <1>4, SayWrites, ElsewhereWrites, StartWrites, EndWrites, WokenWrites DEF Aside, turn
<1> QED BY <1>1, <1>2, <1>3, <1>4 DEF Agent

LEMMA OthersQuiet ==
  ASSUME TypeOK, Boot \/ Begin \/ Say \/ Ask \/ Elsewhere \/ Answer \/ Exit
  PROVE  Quietly
<1>1. CASE Boot \/ Exit
  BY <1>1 DEF Boot, Exit, pipe, Quietly
<1>2. CASE Begin
  <2>1. Msg("echo", {}).what \notin News
    BY DEF Msg, News
  <2> QED BY <1>2, <2>1, BeginWrites DEF Quietly
<1>3. CASE Say \/ Ask
  <2>1. PICK what \in Spare : Grows(Msg(what, {}))
    BY <1>3, SayWrites
  <2>2. Msg(what, {}).what \notin News
    BY DEF Msg, News, Spare
  <2> QED BY <1>3, <2>1, <2>2, SayWrites DEF Quietly, Aside
<1>4. CASE Elsewhere
  <2>1. PICK how \in Hows : Grows(Foreign(how))
    BY <1>4, ElsewhereWrites
  <2>2. Foreign(how).what \notin News
    BY DEF Foreign, News, Hows
  <2> QED BY <1>4, <2>1, <2>2, ElsewhereWrites DEF Quietly, Aside
<1>5. CASE Answer
  <2>1. PICK how \in Hows :
          /\ answer' = [how |-> how, after |-> Len(wire')]
          /\ driver = "acp" => wire' = wire \/ Grows(Msg("ended", {}))
          /\ driver # "acp" => Grows(Msg(how, {}))
    BY <1>5, AnswerWrites
  <2>2. Msg(how, {}).what \notin News /\ Msg("ended", {}).what \notin News
    BY DEF Msg, News, Hows
  <2> QED BY <1>5, <2>1, <2>2, AnswerWrites DEF Quietly
<1> QED BY <1>1, <1>2, <1>3, <1>4, <1>5

LEMMA Whereabouts ==
  ASSUME TypeOK, NEW h \in Subagent
  PROVE  /\ helper[h] \in {"none", "runs", "wakes", "over"}
         /\ helper[h] = "runs" <=> h \in Runs
         /\ helper[h] = "wakes" <=> h \in Waits
  BY DEF TypeOK, Runs, Waits

\* Nothing is said of subagents before the prompt is read.
LEMMA NoneEarlyStep ==
  ASSUME IInv, Helped, at # "over", Agent
  PROVE  NoneEarly'
<1>0. TypeOK /\ TypeOK' /\ Len(wire) \in Nat /\ Len(wire') \in Nat
  BY WireType DEF Next
<1>1. UNCHANGED <<driver, at>>
  BY <1>0, AgentKeeps
<1>2. at \in {"init", "setup"} => Early \/ agent = "gone"
  BY DEF IInv, Phases
<1> USE DEF Helped, NoneEarly
<1>3. CASE Boot \/ Begin \/ Say \/ Ask \/ Elsewhere \/ Answer \/ Exit
  <2>1. Quietly
    BY <1>0, <1>3, OthersQuiet
  <2>2. (Early \/ at \in {"init", "setup"})' => Early \/ at \in {"init", "setup"}
    <3>1. CASE Boot \/ Exit
      BY <1>1, <3>1 DEF Boot, Exit, Early
    <3>2. CASE Begin
      BY <1>0, <1>1, <3>2, BeginWrites DEF Early
    <3>3. CASE Say \/ Ask \/ Elsewhere
      BY <1>0, <1>1, <3>3, SayWrites, ElsewhereWrites DEF Aside, Early
    <3>4. CASE Answer
      BY <1>0, <1>1, <3>4, AnswerWrites DEF Early
    <3> QED BY <1>3, <3>1, <3>2, <3>3, <3>4
  <2>3. Early' => Early
    <3>1. CASE Boot \/ Exit
      BY <3>1 DEF Boot, Exit, Early
    <3>2. CASE Begin
      BY <1>0, <3>2, BeginWrites DEF Early
    <3>3. CASE Say \/ Ask \/ Elsewhere
      BY <1>0, <3>3, SayWrites, ElsewhereWrites DEF Aside, Early
    <3>4. CASE Answer
      BY <1>0, <3>4, AnswerWrites DEF Early
    <3> QED BY <1>3, <3>1, <3>2, <3>3, <3>4
  <2>4. agent' = "works" => agent = "works" \/ Early
    <3>1. CASE Boot \/ Exit
      BY <3>1 DEF Boot, Exit, Early
    <3>2. CASE Begin
      BY <1>0, <3>2, BeginWrites DEF Early
    <3>3. CASE Say \/ Ask \/ Elsewhere
      BY <1>0, <3>3, SayWrites, ElsewhereWrites DEF Aside, Early
    <3>4. CASE Answer
      BY <1>0, <3>4, AnswerWrites DEF Early
    <3> QED BY <1>3, <3>1, <3>2, <3>3, <3>4
  <2>5. helper' = helper /\ Waits' = Waits
    BY <2>1 DEF Quietly, Waits
  <2>6. Early => Waits = {}
    BY DEF Waits
  <2>7. (Early \/ at \in {"init", "setup"})' => \A i \in 1 .. Len(wire') : wire'[i].what \notin News
    BY <1>0, <2>1, <2>2 DEF Quietly, Grows
  <2> QED BY <1>1, <2>3, <2>4, <2>5, <2>6, <2>7
<1>4. CASE StartHelper \/ HelperEnds \/ WokenTurn
  <2>1. ~Early
    <3>1. Early => Waits = {} /\ \A h \in Subagent : helper[h] # "runs"
      BY DEF Waits
    <3> QED BY <1>0, <1>4, <3>1, StartWrites, EndWrites, WokenWrites DEF Early
  <2>2. agent' = agent /\ agent \in {"works", "rests"}
    BY <1>0, <1>4, StartWrites, EndWrites, WokenWrites DEF Aside
  <2>3. at \notin {"init", "setup"}
    BY <1>2, <2>1, <2>2
  <2>4. driver = "claude" /\ agent = "works" => Waits' = {}
    <3>1. SUFFICES ASSUME driver = "claude", agent = "works"
                   PROVE  Waits' = {}
      OBVIOUS
    <3>2. \A h \in Subagent : helper[h] # "wakes"
      BY <3>1 DEF Waits
    <3>3. CASE StartHelper
      BY <1>0, <3>2, <3>3, StartWrites DEF Now, Waits
    <3>4. CASE HelperEnds
      BY <1>0, <3>1, <3>2, <3>4, EndWrites DEF Now, Waits
    <3>5. ~WokenTurn
      BY <1>0, <3>1, WokenWrites
    <3> QED BY <1>4, <3>3, <3>4, <3>5
  <2> QED BY <1>1, <2>1, <2>2, <2>3, <2>4 DEF Early
<1> QED BY <1>3, <1>4 DEF Agent

(***************************************************************************)
(* What one more message says                                              *)
(***************************************************************************)
LEMMA StillUnstarted ==
  ASSUME TypeOK, NEW m, Grows(m), NEW h, Unstarted(h), ~Starts(m, h)
  PROVE  Unstarted(h)'
<1>1. Len(wire) \in Nat /\ Len(wire') = Len(wire) + 1
  BY DEF TypeOK, Grows
<1> QED BY <1>1 DEF Unstarted, Grows, Starts

LEMMA StillRunning ==
  ASSUME TypeOK, NEW m, Grows(m), NEW h, Running(h), ~Stops(m, h)
  PROVE  Running(h)'
<1>1. Len(wire) \in Nat /\ Len(wire') = Len(wire) + 1
  BY DEF TypeOK, Grows
<1> QED BY <1>1 DEF Running, Grows, Starts, Stops

LEMMA NowRunning ==
  ASSUME TypeOK, NEW m, Grows(m), NEW h, Unstarted(h), Starts(m, h)
  PROVE  Running(h)'
<1>1. Len(wire) \in Nat /\ Len(wire') = Len(wire) + 1
  BY DEF TypeOK, Grows
<1>2. ~Stops(m, h)
  BY DEF Starts, Stops
<1>3. \A i \in 1 .. Len(wire') : Starts(wire'[i], h) => i = Len(wire')
  BY <1>1 DEF Unstarted, Grows, Starts
<1> QED BY <1>1, <1>2, <1>3 DEF Running, Grows

LEMMA StillWaiting ==
  ASSUME TypeOK, NEW m, Grows(m), NEW h, Waiting(h), UNCHANGED driver,
         driver = "claude" => answer' = answer,
         Stops(m, h) => driver # "acp" /\ answer.after <= Len(wire),
         m.what = "woken" => h \in m.of
  PROVE  Waiting(h)'
<1>1. Len(wire) \in Nat /\ Len(wire') = Len(wire) + 1 /\ answer.after \in Nat
  BY DEF TypeOK, Grows, Answers
<1>2. \A i \in 1 .. Len(wire) : wire'[i] = wire[i]
  BY DEF Grows
<1>3. \A j \in 1 .. Len(wire) : Ended(h, j)' <=> Ended(h, j)
  BY <1>1, <1>2 DEF Ended, Starts, Stops
<1>4. \E j \in 1 .. Len(wire') : Ended(h, j)'
  BY <1>1, <1>3 DEF Waiting
<1>5. ASSUME NEW j \in 1 .. Len(wire'), Ended(h, j)'
      PROVE  /\ driver' = "acp" => wire'[j].what = "wakes"
             /\ driver' = "claude" => answer'.how # "none" /\ answer'.after < j
             /\ \A k \in j .. Len(wire') : wire'[k].what = "woken" => h \in wire'[k].of
  <2>1. CASE j <= Len(wire)
    <3>1. j \in 1 .. Len(wire) /\ Ended(h, j) /\ wire'[j] = wire[j]
      BY <1>1, <1>2, <1>3, <1>5, <2>1
    <3>2. /\ driver = "acp" => wire[j].what = "wakes"
          /\ driver = "claude" => answer.how # "none" /\ answer.after < j
          /\ \A k \in j .. Len(wire) : wire[k].what = "woken" => h \in wire[k].of
      BY <3>1 DEF Waiting
    <3>3. wire'[Len(wire')] = m
      BY <1>1 DEF Grows
    <3>4. \A k \in j .. Len(wire') : wire'[k].what = "woken" => h \in wire'[k].of
      BY <1>1, <1>2, <3>1, <3>2, <3>3
    <3> QED BY <3>1, <3>2, <3>4
  <2>2. CASE j = Len(wire')
    <3>1. wire'[j] = m /\ Stops(m, h)
      BY <1>5, <2>2 DEF Ended, Grows, Stops
    <3>2. driver = "claude" => answer.how # "none"
      BY DEF Waiting
    <3> QED BY <1>1, <2>2, <3>1, <3>2
  <2> QED BY <1>1, <2>1, <2>2
<1> QED BY <1>4, <1>5 DEF Waiting

LEMMA NowWaiting ==
  ASSUME TypeOK, NEW m, Grows(m), NEW h, Running(h), Stops(m, h), UNCHANGED <<driver, answer>>,
         driver = "acp" => m.what = "wakes",
         driver = "claude" => answer.how # "none" /\ answer.after <= Len(wire)
  PROVE  Waiting(h)'
<1>1. Len(wire) \in Nat /\ Len(wire') = Len(wire) + 1 /\ answer.after \in Nat
  BY DEF TypeOK, Grows, Answers
<1>2. /\ \A i \in 1 .. Len(wire) : wire'[i] = wire[i]
      /\ wire'[Len(wire')] = m
  BY DEF Grows
<1>3. Ended(h, Len(wire))'
  BY <1>1, <1>2 DEF Ended, Running, Starts, Stops
<1>4. \A j \in 1 .. Len(wire) : ~Ended(h, j)'
  BY <1>1, <1>2 DEF Ended, Running, Starts, Stops
<1>5. ASSUME NEW j \in 1 .. Len(wire'), Ended(h, j)'
      PROVE  j = Len(wire')
  BY <1>1, <1>4, <1>5
<1>6. m.what # "woken"
  BY DEF Stops
<1> QED BY <1>1, <1>2, <1>3, <1>5, <1>6 DEF Waiting

(***************************************************************************)
(* The wire goes on telling of every subagent                              *)
(***************************************************************************)
LEMMA TellsQuietly ==
  ASSUME IInv, Helped, at # "over", TypeOK', Quietly, UNCHANGED driver
  PROVE  Tells'
<1>0. TypeOK /\ Len(wire) \in Nat
  BY DEF IInv, TypeOK
<1>1. SUFFICES ASSUME NEW h \in Subagent
               PROVE  /\ helper[h] = "none" => Unstarted(h)'
                      /\ helper[h] = "runs" => Running(h)'
                      /\ helper[h] = "wakes" => Waiting(h)'
  BY DEF Tells, Quietly
<1>2. /\ helper[h] = "none" => Unstarted(h)
      /\ helper[h] = "runs" => Running(h)
      /\ helper[h] = "wakes" => Waiting(h)
  BY DEF Helped, Tells
<1>3. helper[h] = "wakes" /\ driver = "claude" => answer' = answer
  BY DEF Helped, NoneEarly, Waits, Quietly
<1>4. CASE wire' = wire
  <2>1. helper[h] = "none" => Unstarted(h)'
    BY <1>2, <1>4 DEF Unstarted, Starts
  <2>2. helper[h] = "runs" => Running(h)'
    BY <1>2, <1>4 DEF Running, Starts, Stops
  <2>3. helper[h] = "wakes" => Waiting(h)'
    BY <1>2, <1>3, <1>4 DEF Waiting, Ended, Starts, Stops
  <2> QED BY <2>1, <2>2, <2>3
<1>5. ASSUME NEW m, Grows(m), m.what \notin News
      PROVE  /\ helper[h] = "none" => Unstarted(h)'
             /\ helper[h] = "runs" => Running(h)'
             /\ helper[h] = "wakes" => Waiting(h)'
  <2>1. ~Starts(m, h) /\ ~Stops(m, h) /\ m.what # "woken"
    BY <1>5 DEF Starts, Stops, News
  <2> QED BY <1>0, <1>2, <1>3, <1>5, <2>1, StillUnstarted, StillRunning, StillWaiting
<1> QED BY <1>4, <1>5 DEF Quietly

LEMMA TellsStart ==
  ASSUME IInv, Helped, at # "over", StartHelper
  PROVE  Tells'
<1>0. TypeOK /\ Len(wire) \in Nat /\ answer.after <= Len(wire)
  BY WireType DEF Next, Agent
<1>1. PICK g \in Subagent :
        /\ helper[g] = "none" /\ Now({g}, "runs")
        /\ driver = "acp" => Grows(Msg("began", {g}))
        /\ driver = "claude" => Grows(Msg("agents", Runs \cup {g}))
  BY <1>0, StartWrites
<1>2. PICK m : /\ Grows(m) /\ Starts(m, g)
               /\ \A h \in Subagent : Starts(m, h) => h = g \/ helper[h] = "runs"
               /\ \A h \in Subagent : helper[h] = "runs" => ~Stops(m, h)
               /\ driver = "acp" => \A h \in Subagent : ~Stops(m, h)
               /\ m.what # "woken"
  <2>1. CASE driver = "acp"
    <3>1. \A h \in Subagent : Starts(Msg("began", {g}), h) <=> h = g
      BY DEF Starts, Msg
    <3>2. \A h \in Subagent : ~Stops(Msg("began", {g}), h)
      BY DEF Stops, Msg
    <3>3. Msg("began", {g}).what # "woken"
      BY DEF Msg
    <3> QED BY <1>1, <2>1, <3>1, <3>2, <3>3
  <2>2. CASE driver = "claude"
    <3>1. \A h \in Subagent : Starts(Msg("agents", Runs \cup {g}), h) <=> h = g \/ helper[h] = "runs"
      BY DEF Starts, Msg, Runs
    <3>2. \A h \in Subagent : helper[h] = "runs" => ~Stops(Msg("agents", Runs \cup {g}), h)
      BY DEF Stops, Msg, Runs
    <3>3. Msg("agents", Runs \cup {g}).what # "woken"
      BY DEF Msg
    <3> QED BY <1>1, <2>2, <3>1, <3>2, <3>3
  <2> QED BY <1>0, <2>1, <2>2, StartWrites
<1>3. UNCHANGED <<driver, answer>>
  BY <1>0, StartWrites DEF Aside
<1>4. ASSUME NEW h \in Subagent
      PROVE  /\ helper'[h] = IF h = g THEN "runs" ELSE helper[h]
             /\ helper[h] = "none" => Unstarted(h)
             /\ helper[h] = "runs" => Running(h)
             /\ helper[h] = "wakes" => Waiting(h)
  BY <1>1 DEF Now, Helped, Tells
<1>5. SUFFICES ASSUME NEW h \in Subagent
               PROVE  /\ helper'[h] = "none" => Unstarted(h)'
                      /\ helper'[h] = "runs" => Running(h)'
                      /\ helper'[h] = "wakes" => Waiting(h)'
  BY DEF Tells
<1>6. CASE h = g
  BY <1>0, <1>1, <1>2, <1>4, <1>6, NowRunning
<1>7. CASE h # g
  <2>1. helper[h] = "none" => Unstarted(h)'
    BY <1>0, <1>2, <1>4, <1>7, StillUnstarted
  <2>2. helper[h] = "runs" => Running(h)'
    BY <1>0, <1>2, <1>4, StillRunning
  <2>3. helper[h] = "wakes" => Waiting(h)'
    BY <1>0, <1>2, <1>3, <1>4, StillWaiting
  <2> QED BY <1>4, <1>7, <2>1, <2>2, <2>3
<1> QED BY <1>6, <1>7

LEMMA TellsEnd ==
  ASSUME IInv, Helped, at # "over", HelperEnds
  PROVE  Tells'
<1>0. TypeOK /\ Len(wire) \in Nat /\ answer.after <= Len(wire)
  BY WireType DEF Next, Agent
<1>1. PICK g \in Subagent :
        /\ helper[g] = "runs"
        /\ \/ /\ Now({g}, "wakes")
              /\ driver = "claude" => agent = "rests"
              /\ driver # "claude" => Grows(Msg("wakes", {g}))
           \/ /\ Now({g}, "over")
              /\ driver # "claude" => Grows(Msg("finished", {g}))
        /\ driver = "claude" => Grows(Msg("agents", Runs \ {g}))
  BY <1>0, EndWrites
<1>2. PICK m : /\ Grows(m) /\ Stops(m, g)
               /\ \A h \in Subagent : helper[h] # "runs" => ~Starts(m, h)
               /\ \A h \in Subagent : helper[h] = "runs" /\ h # g => ~Stops(m, h)
               /\ driver # "claude" =>
                    /\ \A h \in Subagent : h # g => ~Stops(m, h)
                    /\ helper'[g] = "wakes" => m.what = "wakes"
               /\ m.what # "woken"
  <2>1. CASE driver = "claude"
    <3>1. \A h \in Subagent : Starts(Msg("agents", Runs \ {g}), h) <=> h # g /\ helper[h] = "runs"
      BY DEF Starts, Msg, Runs
    <3>2. \A h \in Subagent : Stops(Msg("agents", Runs \ {g}), h) <=> h = g \/ helper[h] # "runs"
      BY DEF Stops, Msg, Runs
    <3>3. Msg("agents", Runs \ {g}).what # "woken"
      BY DEF Msg
    <3> QED BY <1>1, <2>1, <3>1, <3>2, <3>3
  <2>2. ASSUME NEW what \in {"wakes", "finished"}
        PROVE  /\ \A h \in Subagent : ~Starts(Msg(what, {g}), h)
               /\ \A h \in Subagent : Stops(Msg(what, {g}), h) <=> h = g
               /\ Msg(what, {g}).what = what
    BY DEF Starts, Stops, Msg
  <2>3. CASE driver # "claude" /\ Now({g}, "wakes") /\ Grows(Msg("wakes", {g}))
    BY <2>2, <2>3
  <2>4. CASE driver # "claude" /\ Now({g}, "over") /\ Grows(Msg("finished", {g}))
    <3>1. helper'[g] = "over"
      BY <2>4 DEF Now
    <3> QED BY <2>2, <2>4, <3>1
  <2> QED BY <1>1, <2>1, <2>3, <2>4
<1>3. UNCHANGED <<driver, answer>> /\ (agent = "rests" => answer.how # "none")
  BY <1>0, EndWrites DEF Aside, IInv, Phases
<1>4. ASSUME NEW h \in Subagent
      PROVE  /\ helper'[h] \in (IF h = g THEN {"wakes", "over"} ELSE {helper[h]})
             /\ helper'[g] = "wakes" /\ driver = "claude" => agent = "rests"
             /\ helper[h] = "none" => Unstarted(h)
             /\ helper[h] = "runs" => Running(h)
             /\ helper[h] = "wakes" => Waiting(h)
  BY <1>1 DEF Now, Helped, Tells
<1>5. SUFFICES ASSUME NEW h \in Subagent
               PROVE  /\ helper'[h] = "none" => Unstarted(h)'
                      /\ helper'[h] = "runs" => Running(h)'
                      /\ helper'[h] = "wakes" => Waiting(h)'
  BY DEF Tells
<1>6. CASE h = g
  <2>1. helper'[g] = "wakes" => Waiting(g)'
    BY <1>0, <1>1, <1>2, <1>3, <1>4, NowWaiting
  <2> QED BY <1>4, <1>6, <2>1
<1>7. CASE h # g
  <2>1. helper[h] = "none" => Unstarted(h)'
    BY <1>0, <1>2, <1>4, StillUnstarted
  <2>2. helper[h] = "runs" => Running(h)'
    BY <1>0, <1>2, <1>4, <1>7, StillRunning
  <2>3. helper[h] = "wakes" => Waiting(h)'
    BY <1>0, <1>2, <1>3, <1>4, <1>7, StillWaiting
  <2> QED BY <1>4, <1>7, <2>1, <2>2, <2>3
<1> QED BY <1>6, <1>7

LEMMA TellsWoken ==
  ASSUME IInv, Helped, at # "over", WokenTurn
  PROVE  Tells'
<1>0. TypeOK /\ Len(wire) \in Nat
  BY WireType DEF Next, Agent
<1>1. PICK S \in SUBSET Waits, what \in {"woken", "max", "error"} :
        /\ Now(S, "over")
        /\ Grows(Msg(what, Waits \ S))
  BY <1>0, WokenWrites
<1>2. PICK m : /\ Grows(m)
               /\ \A h \in Subagent : ~Starts(m, h) /\ ~Stops(m, h)
               /\ m.of = Waits \ S
  BY <1>1 DEF Msg, Starts, Stops
<1>3. UNCHANGED <<driver, answer>>
  BY <1>0, WokenWrites DEF Aside
<1>4. SUFFICES ASSUME NEW h \in Subagent
               PROVE  /\ helper'[h] = "none" => Unstarted(h)'
                      /\ helper'[h] = "runs" => Running(h)'
                      /\ helper'[h] = "wakes" => Waiting(h)'
  BY DEF Tells
<1>5. /\ helper'[h] = IF h \in S THEN "over" ELSE helper[h]
      /\ helper[h] = "none" => Unstarted(h)
      /\ helper[h] = "runs" => Running(h)
      /\ helper[h] = "wakes" => Waiting(h) /\ h \in Waits
  BY <1>1 DEF Now, Helped, Tells, Waits
<1>6. helper'[h] = "none" => Unstarted(h)'
  BY <1>0, <1>2, <1>5, StillUnstarted
<1>7. helper'[h] = "runs" => Running(h)'
  BY <1>0, <1>2, <1>5, StillRunning
<1>8. helper'[h] = "wakes" => Waiting(h)'
  BY <1>0, <1>2, <1>3, <1>5, StillWaiting
<1> QED BY <1>6, <1>7, <1>8

LEMMA TellsStep ==
  ASSUME IInv, Helped, at # "over", Agent
  PROVE  Tells'
<1>0. TypeOK /\ TypeOK'
  BY WireType DEF Next
<1>1. CASE Boot \/ Begin \/ Say \/ Ask \/ Elsewhere \/ Answer \/ Exit
  BY <1>0, <1>1, OthersQuiet, AgentKeeps, TellsQuietly DEF Agent
<1> QED BY <1>1, TellsStart, TellsEnd, TellsWoken DEF Agent

(***************************************************************************)
(* What the turn knows                                                     *)
(***************************************************************************)
LEMMA OneMore ==
  ASSUME NEW n \in Nat, NEW h
  PROVE  Run(h, n + 1) <=> Starts(wire[n + 1], h) \/ (Run(h, n) /\ ~Stops(wire[n + 1], h))
<1>1. Starts(wire[n + 1], h) => ~Stops(wire[n + 1], h)
  BY DEF Starts, Stops
<1>2. ASSUME Run(h, n + 1), ~Starts(wire[n + 1], h)
      PROVE  Run(h, n) /\ ~Stops(wire[n + 1], h)
  BY <1>2 DEF Run
<1>3. ASSUME Starts(wire[n + 1], h)
      PROVE  Run(h, n + 1)
  BY <1>1, <1>3 DEF Run
<1>4. ASSUME Run(h, n), ~Stops(wire[n + 1], h)
      PROVE  Run(h, n + 1)
  <2>1. PICK i \in 1 .. n : Starts(wire[i], h) /\ \A j \in i .. n : ~Stops(wire[j], h)
    BY <1>4 DEF Run
  <2>2. i \in 1 .. n + 1 /\ \A j \in i .. n + 1 : ~Stops(wire[j], h)
    BY <1>4, <2>1
  <2> QED BY <2>1, <2>2 DEF Run
<1> QED BY <1>2, <1>3, <1>4

LEMMA OneMoreWake ==
  ASSUME NEW n \in Nat
  PROVE  Wake(n + 1) <=> wire[n + 1].what = "wakes" \/ (Wake(n) /\ wire[n + 1].what # "woken")
<1>1. ASSUME Wake(n), wire[n + 1].what # "woken"
      PROVE  Wake(n + 1)
  <2>1. PICK i \in 1 .. n : wire[i].what = "wakes" /\ \A j \in i .. n : wire[j].what # "woken"
    BY <1>1 DEF Wake
  <2>2. i \in 1 .. n + 1 /\ \A j \in i .. n + 1 : wire[j].what # "woken"
    BY <1>1, <2>1
  <2> QED BY <2>1, <2>2 DEF Wake
<1>2. ASSUME Wake(n + 1), wire[n + 1].what # "wakes"
      PROVE  Wake(n) /\ wire[n + 1].what # "woken"
  BY <1>2 DEF Wake
<1>3. ASSUME wire[n + 1].what = "wakes"
      PROVE  Wake(n + 1)
  BY <1>3 DEF Wake
<1> QED BY <1>1, <1>2, <1>3

LEMMA KnowsAgent ==
  ASSUME IInv, Helped, at # "over", Agent
  PROVE  Knows'
<1>0. TypeOK /\ Len(wire) \in Nat /\ Len(wire') \in Nat /\ taken \in Nat /\ taken <= Len(wire)
  BY WireType DEF Next
<1>1. UNCHANGED <<driver, taken, known>>
  BY <1>0, AgentKeeps
<1>2. \A i \in 1 .. taken : wire'[i] = wire[i]
  BY <1>0, AgentWrites DEF Grows
<1>3. ASSUME NEW h
      PROVE  Run(h, taken)' <=> Run(h, taken)
  <2>1. \A i \in 1 .. taken : \A j \in i .. taken : j \in 1 .. taken
    BY <1>0
  <2>2. Run(h, taken) <=> \E i \in 1 .. taken :
          /\ wire[i].what \in {"began", "agents"} /\ h \in wire[i].of
          /\ \A j \in i .. taken : ~Stops(wire[j], h)
    BY DEF Run, Starts
  <2>3. Run(h, taken)' <=> \E i \in 1 .. taken :
          /\ wire'[i].what \in {"began", "agents"} /\ h \in wire'[i].of
          /\ \A j \in i .. taken : ~Stops(wire'[j], h)
    BY <1>1 DEF Run, Starts, Stops
  <2>4. \A j \in 1 .. taken : Stops(wire'[j], h) <=> Stops(wire[j], h)
    BY <1>2
  <2> QED BY <1>2, <2>1, <2>2, <2>3, <2>4
<1>4. Wake(taken)' <=> Wake(taken)
  BY <1>0, <1>1, <1>2 DEF Wake
<1> QED BY <1>1, <1>3, <1>4 DEF Helped, Knows

LEMMA KnowsTurn ==
  ASSUME IInv, Helped, at # "over", Setup \/ Loop
  PROVE  Knows'
<1>0. TypeOK /\ Len(wire) \in Nat /\ taken \in Nat /\ taken <= Len(wire)
  BY WireType DEF Next
<1>1. UNCHANGED <<driver, wire>>
  BY TurnKeeps
<1>2. CASE taken' = taken /\ known' = known
  BY <1>1, <1>2 DEF Helped, Knows, Run, Wake, Starts, Stops
<1>3. CASE CodexTake
  BY <1>1, <1>3 DEF CodexTake, Knows
<1>4. CASE Meanwhile
  <2>1. at = "setup" /\ taken' = taken + 1 /\ known' = known /\ taken < read
    BY <1>4 DEF Meanwhile
  <2>2. \A i \in 1 .. Len(wire) : wire[i].what \notin News
    BY <2>1 DEF Helped, NoneEarly
  <2>3. taken + 1 <= Len(wire)
    BY <1>0, <2>1 DEF TypeOK
  <2>4. \A h : ~Run(h, taken) /\ ~Run(h, taken)'
    BY <1>0, <1>1, <2>1, <2>2, <2>3 DEF Run, Starts, News
  <2>5. ~Wake(taken) /\ ~Wake(taken)'
    BY <1>0, <1>1, <2>1, <2>2, <2>3 DEF Wake, News
  <2> QED BY <1>1, <2>1, <2>4, <2>5 DEF Helped, Knows
<1>5. CASE AcpTake \/ ClaudeTake
  <2>1. taken' = taken + 1 /\ driver \in {"acp", "claude"} /\ known' = Note(wire[taken + 1])
    BY <1>1, <1>5 DEF AcpTake, ClaudeTake
  <2>2. known.runs = {h \in Subagent : Run(h, taken)} /\ (known.wake <=> Wake(taken))
    BY <2>1 DEF Helped, Knows
  <2>3. \A h : Run(h, taken)' <=> Run(h, taken + 1)
    BY <1>1, <2>1 DEF Run, Starts, Stops
  <2>4. Wake(taken)' <=> Wake(taken + 1)
    BY <1>1, <2>1 DEF Wake
  <2>5. known'.runs = {h \in Subagent : Run(h, taken)'}
    BY <1>0, <2>1, <2>2, <2>3, OneMore DEF Note
  <2>6. known'.wake <=> Wake(taken)'
    BY <1>0, <2>1, <2>2, <2>4, OneMoreWake DEF Note
  <2> QED BY <2>5, <2>6 DEF Knows
<1> QED BY <1>2, <1>3, <1>4, <1>5, TurnKeeps

(***************************************************************************)
(* Where all is said and done                                              *)
(***************************************************************************)
\* One that is at work after k was overtaken, or nothing was said of it.
LEMMA AtWork ==
  ASSUME IInv', Tells', NEW k \in 0 .. Len(wire'), Silent(k)',
         NEW h \in (Runs \cup Waits)', NEW i \in 1 .. k, Starts(wire'[i], h)
  PROVE  Over(h, k)'
<1>0. TypeOK' /\ Len(wire') \in Nat /\ h \in Subagent
  BY DEF IInv, TypeOK, Runs, Waits
<1>1. PICK j \in i .. k : Stops(wire'[j], h)
  BY DEF Silent, Run, Runs, Waits
<1>2. Ended(h, j)' /\ j \in 1 .. Len(wire')
  BY <1>0, <1>1 DEF Ended
<1>3. helper'[h] # "runs"
  BY <1>0, <1>1 DEF Tells, Running
<1>4. Waiting(h)'
  BY <1>0, <1>3 DEF Tells, Runs, Waits
<1>5. /\ driver' = "acp" => wire'[j].what = "wakes"
      /\ driver' = "claude" => answer'.how # "none" /\ answer'.after < j
      /\ \A m \in j .. Len(wire') : wire'[m].what = "woken" => h \in wire'[m].of
  BY <1>2, <1>4 DEF Waiting
<1>6. \E m \in j .. k : wire'[m].what = "woken"
  <2>1. CASE driver' = "acp"
    BY <1>0, <1>5, <2>1 DEF Silent, Wake
  <2>2. CASE driver' = "claude"
    <3>1. /\ k # 0 /\ wire'[k].mine /\ wire'[k].what \in {"ok", "woken"}
      BY <2>2 DEF Silent
    <3>2. wire'[k].what = "ok" => answer'.after = k
      BY <1>0, <2>2, <3>1 DEF IInv, ClaudeResults
    <3>3. answer'.after \in Nat
      BY <1>0, BoundAssumption DEF TypeOK, Answers
    <3> QED BY <1>0, <1>5, <2>2, <3>1, <3>2, <3>3
  <2>3. driver' # "codex"
    BY <1>0 DEF IInv, Stamps, Runs, Waits
  <2> QED BY <1>0, <2>1, <2>2, <2>3, DriverAssumption DEF TypeOK
<1> QED BY <1>0, <1>5, <1>6 DEF Over

\* At the end of the wire all that are at work have been heard of.
LEMMA AtEnd ==
  ASSUME IInv', Tells', Settled(Len(wire))'
  PROVE  (Runs \cup Waits)' = {}
<1>0. TypeOK' /\ Len(wire') \in Nat
  BY DEF IInv, TypeOK
<1>1. Silent(Len(wire))' /\ \A h \in Subagent : ~Over(h, Len(wire))'
  BY DEF Settled
<1>2. ASSUME NEW h \in (Runs \cup Waits)'
      PROVE  FALSE
  <2>1. h \in Subagent /\ \E i \in 1 .. Len(wire') : Starts(wire'[i], h)
    BY <1>0, <1>2 DEF Runs, Waits, Tells, Running, Waiting, Ended
  <2> QED BY <1>0, <1>1, <1>2, <2>1, AtWork
<1> QED BY <1>2

LEMMA QuietAgent ==
  ASSUME IInv, IInv', Helped, Tells', at # "over", Agent
  PROVE  Quiet'
<1>0. /\ TypeOK /\ Len(wire) \in Nat /\ Len(wire') \in Nat /\ Len(wire) <= Len(wire')
      /\ \A i \in 1 .. Len(wire) : wire'[i] = wire[i]
      /\ UNCHANGED driver /\ answer'.after \in Nat
      /\ Len(wire') <= Len(wire) + 1
  BY WireType, AgentWrites, AgentKeeps, BoundAssumption DEF Next, Grows, IInv, TypeOK, Answers
<1>1. SUFFICES ASSUME NEW k \in 0 .. Len(wire'), Settled(k)', k # Len(wire')
               PROVE  (Runs \cup Waits)' = {}
  BY AtEnd DEF Quiet
<1>2. k \in 0 .. Len(wire) /\ k < Len(wire')
  BY <1>0, <1>1
<1>3. \/ answer' = answer /\ (Quietly => helper' = helper)
      \/ answer'.after = Len(wire')
  BY <1>0, OthersQuiet, StartWrites, EndWrites, WokenWrites DEF Agent, Quietly, Aside
<1>4. answer' = answer
  BY <1>0, <1>1, <1>2, <1>3 DEF Settled, Silent
<1>5. Settled(k)
  BY <1>0, <1>1, <1>2, <1>4 DEF Settled, Silent, Run, Wake, Over, Starts, Stops
<1>6. Runs \cup Waits = {}
  BY <1>2, <1>5 DEF Helped, Quiet
<1>7. agent # "works"
  BY <1>5 DEF Settled, Silent, IInv, Phases, Nothing
<1>8. \A h \in Subagent : helper[h] \notin {"runs", "wakes"}
  BY <1>6 DEF Runs, Waits
<1>9. ~StartHelper /\ ~HelperEnds /\ ~WokenTurn
  BY <1>0, <1>6, <1>7, <1>8, StartWrites, EndWrites, WokenWrites
<1>10. helper' = helper
  BY <1>0, <1>9, OthersQuiet DEF Agent, Quietly
<1> QED BY <1>8, <1>10 DEF Runs, Waits

LEMMA HelpedStep ==
  ASSUME IInv, Helped, [Next]_vars
  PROVE  Helped'
<1>1. CASE UNCHANGED vars
  BY <1>1 DEF Helped, NoneEarly, Tells, Knows, Quiet, Settled, Silent, Run, Wake, Over, Unstarted, Running,
              Waiting, Ended, Starts, Stops, Runs, Waits, Early, vars, proc, pipe, turn
<1>2. CASE Next /\ Agent
  <2>1. at # "over"
    BY <1>2 DEF Next
  <2>2. IInv' /\ Tells'
    BY <1>2, <2>1, InvStep, TellsStep
  <2> QED BY <1>2, <2>1, <2>2, NoneEarlyStep, KnowsAgent, QuietAgent DEF Helped
<1>3. ASSUME at # "over", Cancel \/ Reader \/ Decide \/ Setup \/ Loop
      PROVE  Helped'
  <2>1. /\ UNCHANGED <<driver, agent, helper, answer, wire>>
        /\ at' \in {"init", "setup"} => at \in {"init", "setup"}
    BY <1>3, ReaderKeeps, TurnKeeps DEF turn
  <2>2. NoneEarly'
    BY <2>1 DEF Helped, NoneEarly, Early, Waits
  <2>3. Tells'
    BY <2>1 DEF Helped, Tells, Unstarted, Running, Waiting, Ended, Starts, Stops
  <2>4. Quiet'
    BY <2>1 DEF Helped, Quiet, Settled, Silent, Run, Wake, Over, Starts, Stops, Runs, Waits
  <2>5. Knows'
    <3>1. CASE Cancel \/ Reader \/ Decide
      BY <3>1, <2>1, ReaderKeeps DEF turn, Helped, Knows, Run, Wake, Starts, Stops
    <3> QED BY <1>3, <3>1, KnowsTurn
  <2> QED BY <2>2, <2>3, <2>4, <2>5 DEF Helped
<1> QED BY <1>1, <1>2, <1>3 DEF Next

LEMMA HelpedInit ==
  ASSUME Init
  PROVE  Helped
<1>1. /\ Len(wire) = 0 /\ taken = 0 /\ known = Idle /\ \A h \in Subagent : helper[h] = "none"
      /\ answer.how = "none" /\ agent \in {"boots", "opens"}
  BY DEF Init, Nothing
<1>2. NoneEarly
  BY <1>1 DEF NoneEarly, Waits
<1>3. Tells
  BY <1>1 DEF Tells, Unstarted
<1>4. Knows
  BY <1>1 DEF Knows, Run, Wake, Idle
<1>5. Quiet
  BY <1>1 DEF Quiet, Settled, Silent
<1> QED BY <1>2, <1>3, <1>4, <1>5 DEF Helped

\* What the agent writes tells of every subagent, and what the turn knows of
\* them is what it was told.
THEOREM SubagentsTold == Spec => []Helped
<1>1. Init /\ IInv => Helped
  BY HelpedInit
<1>2. IInv /\ Helped /\ [Next]_vars => Helped'
  BY HelpedStep
<1> QED BY <1>1, <1>2, HelpedInit, Invariance, PTL DEF Spec

(***************************************************************************)
(* A turn stays for them                                                   *)
(***************************************************************************)
LEMMA Stays ==
  ASSUME IInv', Helped', Silent(taken)'
  PROVE  StaysForAgents'
<1>0. TypeOK' /\ taken' \in 0 .. Len(wire') /\ Len(wire') \in Nat
  BY DEF IInv, TypeOK
<1>1. SUFFICES ASSUME NEW h \in (Runs \cup Waits)', ~Overtaken(h)'
               PROVE  ~Told(h)' /\ \E g \in Subagent : Overtaken(g)'
  BY DEF StaysForAgents
<1>2. \A g : Overtaken(g)' <=> Over(g, taken)'
  BY DEF Overtaken, Over
<1>3. ~Told(h)'
  BY <1>0, <1>1, <1>2, AtWork DEF Told, Helped
<1>4. ~Settled(taken)'
  BY <1>0, <1>1 DEF Helped, Quiet
<1> QED BY <1>2, <1>3, <1>4 DEF Settled

LEMMA StaysStep ==
  ASSUME IInv, IInv', Helped, Helped', at # "over", Next, outcome' = "completed"
  PROVE  StaysForAgents'
<1>0. /\ TypeOK /\ TypeOK' /\ Len(wire) \in Nat /\ taken \in Nat /\ outcome = "none"
      /\ answer.after \in Nat
  BY WireType DEF IInv, Phases
<1>1. ~(Cancel \/ Agent \/ Reader \/ Decide)
  <2>1. CASE Cancel \/ Reader \/ Decide
    BY <1>0, <2>1, ReaderKeeps DEF turn
  <2>2. CASE Boot \/ Exit
    BY <1>0, <2>2 DEF Boot, Exit, turn
  <2>3. CASE Begin \/ Answer
    BY <1>0, <2>3, BeginWrites, AnswerWrites DEF turn
  <2>4. CASE Say \/ Ask \/ Elsewhere \/ StartHelper \/ HelperEnds \/ WokenTurn
    BY <1>0, <2>4, SayWrites, ElsewhereWrites, StartWrites, EndWrites, WokenWrites DEF Aside, turn
  <2> QED BY <2>1, <2>2, <2>3, <2>4 DEF Agent
<1>2. CASE Setup
  <2>1. outcome' \in {outcome, "failed", "interrupted"}
    BY <1>2 DEF Setup, StopEarly, NoStart, Opens, Meanwhile, AcpPrompt, CodexStart, CodexStarted,
                ClaudePrompt, ClaudePrompted, Ends
  <2> QED BY <1>0, <2>1
<1>3. CASE SeeStop \/ Written \/ Elapse \/ AcpSilent \/ StreamClosed
  <2>1. outcome' \in {outcome, "failed", "interrupted"}
    BY <1>3 DEF SeeStop, Written, Elapse, AcpSilent, StreamClosed, Ends
  <2> QED BY <1>0, <2>1
<1>4. CASE AcpClosed
  <2>1. eof'
    BY <1>4 DEF AcpClosed, idle, link
  <2> QED BY <2>1 DEF StaysForAgents
<1>5. CASE AcpDone
  <2>1. /\ driver = "acp" /\ at = "loop" /\ reply \notin {"none", "waits"}
        /\ UNCHANGED <<driver, answer, wire, taken, known, eof>>
        /\ taken = read /\ (eof => ~open)
        /\ AcpEnd(reply) = "completed" /\ ~(Busy(known) /\ open)
    BY <1>0, <1>5 DEF AcpDone, Sees, InLoop, Caught, Ends, proc, pipe
  <2>2. reply \in {"max", "ok"}
    BY <2>1 DEF AcpEnd
  <2>3. answer.how = reply /\ answer.after <= read
    BY <2>1, <2>2 DEF IInv, AcpAnswer, Hows
  <2>4. CASE ~open
    BY <2>1, <2>4 DEF IInv, Phases, StaysForAgents
  <2>5. CASE ~Busy(known)
    <3>1. known.runs = {} /\ ~known.wake
      BY <2>5 DEF Busy
    <3>2. ~Wake(taken)' /\ \A h \in Subagent : ~Run(h, taken)'
      BY <2>1, <3>1 DEF Helped, Knows
    <3>3. Silent(taken)'
      BY <2>1, <2>2, <2>3, <3>2 DEF Silent
    <3> QED BY <3>3, Stays
  <2> QED BY <2>1, <2>4, <2>5
<1>6. CASE AcpTake
  <2>1. /\ driver = "acp" /\ at = "loop" /\ taken' = taken + 1 /\ answered /\ ~Busy(known')
        /\ UNCHANGED <<driver, answer, wire>>
    BY <1>0, <1>6 DEF AcpTake, Sees, InLoop, Ends, pipe
  <2>2. answer.how \in {"ok", "max"} /\ answer.after <= taken
    BY <2>1 DEF IInv, AcpAnswer
  <2>3. known'.runs = {} /\ ~known'.wake
    BY <2>1 DEF Busy
  <2>4. ~Wake(taken)' /\ \A h \in Subagent : ~Run(h, taken)'
    BY <2>1, <2>3 DEF Helped, Knows
  <2>5. Silent(taken)'
    BY <1>0, <2>1, <2>2, <2>4 DEF Silent
  <2> QED BY <2>5, Stays
<1>7. CASE CodexTake
  <2>1. driver' = "codex"
    BY <1>7 DEF CodexTake
  <2>2. (Runs \cup Waits)' = {}
    BY <2>1 DEF IInv, Stamps, Runs, Waits
  <2> QED BY <2>2 DEF StaysForAgents
<1>8. CASE ClaudeTake
  <2>1. /\ driver = "claude" /\ taken' = taken + 1 /\ taken < read
        /\ UNCHANGED <<driver, answer, wire>>
        /\ known' = Note(wire[taken'])
    BY <1>8 DEF ClaudeTake, pipe
  <2>2. \/ wire[taken'].what \in {"ok", "woken"} /\ seen /\ known.runs = {}
        \/ wire[taken'].what = "max"
    BY <1>0, <1>8 DEF ClaudeTake, Ends
  <2>3. CASE wire[taken'].what = "max"
    BY <1>0, <2>1, <2>3 DEF StaysForAgents, AtLimit
  <2>4. CASE wire[taken'].what \in {"ok", "woken"} /\ seen /\ known.runs = {}
    <3>1. taken' \in 1 .. Len(wire)
      BY <1>0, <2>1 DEF TypeOK
    <3>2. wire[taken'].mine
      BY <1>0, <2>1, <2>4, <3>1 DEF IInv, ClaudeEcho
    <3>3. answer.how # "none" /\ answer.after <= taken'
      BY <2>1, <2>4, <3>1, <3>2 DEF IInv, ClaudeResults
    <3>4. known'.runs = {}
      BY <2>1, <2>4 DEF Note, Starts
    <3>5. \A h \in Subagent : ~Run(h, taken)'
      BY <2>1, <3>4 DEF Helped, Knows
    <3>6. Silent(taken)'
      BY <2>1, <2>4, <3>1, <3>2, <3>3, <3>5 DEF Silent
    <3> QED BY <3>6, Stays
  <2> QED BY <2>2, <2>3, <2>4
<1> QED BY <1>1, <1>2, <1>3, <1>4, <1>5, <1>6, <1>7, <1>8 DEF Next, Loop

\* A turn that ends as Completed leaves nobody at work of whom it was told,
\* but for those the agent's single flag has lost and its limit of turns.
THEOREM TurnsStay == Spec => []StaysForAgents
<1>1. Init => StaysForAgents
  BY DEF Init, StaysForAgents
<1>2. IInv /\ IInv' /\ Helped /\ Helped' /\ StaysForAgents /\ [Next]_vars => StaysForAgents'
  <2>1. SUFFICES ASSUME IInv, IInv', Helped, Helped', StaysForAgents, [Next]_vars
                 PROVE  StaysForAgents'
    OBVIOUS
  <2>2. CASE UNCHANGED vars
    BY <2>1, <2>2 DEF StaysForAgents, AtLimit, Overtaken, Told, Starts, Runs, Waits, vars, proc, pipe, link, turn
  <2>3. CASE Next
    <3>1. at # "over"
      BY <2>3 DEF Next
    <3>2. CASE outcome' = "completed"
      BY <2>1, <2>3, <3>1, <3>2, StaysStep
    <3>3. CASE outcome' # "completed"
      BY <3>3 DEF StaysForAgents
    <3> QED BY <3>2, <3>3
  <2> QED BY <2>1, <2>2, <2>3
<1> QED BY <1>1, <1>2, Invariance, SubagentsTold, PTL DEF Spec
=============================================================================
