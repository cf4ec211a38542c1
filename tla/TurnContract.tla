----------------------------- MODULE TurnContract -----------------------------
(***************************************************************************)
(* What run_turn of a Provider promises the run that calls it, whatever    *)
(* agent is behind it: a turn that says Completed had its answer and has   *)
(* passed on everything the agent sent before it, and a turn says          *)
(* Interrupted only if somebody stopped it or the agent broke off.         *)
(***************************************************************************)
EXTENDS Naturals

VARIABLES
  stopped,  \* the run was cancelled
  gone,     \* the agent has exited
  sent,     \* how much the agent has sent
  answer,   \* how it answered the prompt and what it had sent by then
  heard,    \* how much of it was passed on
  outcome   \* the TurnEnd, "failed" for an error, or "none"

vars == <<stopped, gone, sent, answer, heard, outcome>>

\* An agent that stops at a limit of its own has answered.
Whole == {"ok", "max"}
Hows == Whole \cup {"cancelled", "refused", "error"}
NoAnswer == [how |-> "none", after |-> 0]

Init ==
  /\ stopped = FALSE /\ gone = FALSE
  /\ sent = 0 /\ heard = 0
  /\ answer = NoAnswer
  /\ outcome = "none"

Stop ==
  /\ stopped' = TRUE
  /\ UNCHANGED <<gone, sent, answer, heard, outcome>>

Exit ==
  /\ gone' = TRUE
  /\ UNCHANGED <<stopped, sent, answer, heard, outcome>>

Send ==
  /\ sent' = sent + 1
  /\ UNCHANGED <<stopped, gone, answer, heard, outcome>>

\* The answer counts as sent where it is a message like the others.
Answer ==
  /\ answer = NoAnswer
  /\ sent' \in {sent, sent + 1}
  /\ \E how \in Hows : answer' = [how |-> how, after |-> sent']
  /\ UNCHANGED <<stopped, gone, heard, outcome>>

\* What is sent before the prompt goes out is passed on with it.
Hears == heard' \in heard .. sent

Hear ==
  /\ outcome = "none"
  /\ Hears
  /\ UNCHANGED <<stopped, gone, sent, answer, outcome>>

Complete ==
  /\ outcome = "none"
  /\ Hears
  /\ answer.how \in Whole
  /\ answer.after <= heard'
  /\ outcome' = "completed"
  /\ UNCHANGED <<stopped, gone, sent, answer>>

Interrupt ==
  /\ outcome = "none"
  /\ Hears
  /\ stopped \/ gone \/ answer.how = "cancelled"
  /\ outcome' = "interrupted"
  /\ UNCHANGED <<stopped, gone, sent, answer>>

\* A turn may fail at any point, before it began too.
Fail ==
  /\ outcome = "none"
  /\ Hears
  /\ outcome' = "failed"
  /\ UNCHANGED <<stopped, gone, sent, answer>>

Next == Stop \/ Exit \/ Send \/ Answer \/ Hear \/ Complete \/ Interrupt \/ Fail

Spec == Init /\ [][Next]_vars
=============================================================================
