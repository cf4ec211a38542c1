----------------------------- MODULE SlotContract -----------------------------
(***************************************************************************)
(* What the handles map of the orchestrator promises whoever relies on     *)
(* it: a session's slot is the lock on its work.  A run comes to work by   *)
(* taking a slot nobody else has a right to, and keeps it until it leaves  *)
(* its work or is told to stop; whoever frees a slot, late or early, frees *)
(* one whose run is past that.                                             *)
(***************************************************************************)
CONSTANTS Session, RunId, None

VARIABLES
  slot,    \* the run that holds the slot of a session, or None
  work,    \* the session a run is at work on, or None
  stopped  \* the runs at work that were told to stop

vars == <<slot, work, stopped>>

Init ==
  /\ slot = [s \in Session |-> None]
  /\ work = [r \in RunId |-> None]
  /\ stopped = {}

\* Nobody has a right to the slot of s.
Unheld(s) == slot[s] = None \/ work[slot[s]] # s \/ slot[s] \in stopped

\* Of the slots in S, only such that nobody has a right to are freed.
Frees(S) ==
  /\ slot' \in [Session -> RunId \cup {None}]
  /\ \A s \in S : slot'[s] # slot[s] => Unheld(s) /\ slot'[s] = None

GiveUp ==
  /\ Frees(Session)
  /\ UNCHANGED <<work, stopped>>

\* What nobody has a right to is freed on the way.
Take(s, r) ==
  /\ Unheld(s) /\ work[r] = None /\ \A c \in Session : slot[c] # r
  /\ slot'[s] = r /\ Frees(Session \ {s})
  /\ work' = [work EXCEPT ![r] = s]
  /\ UNCHANGED stopped

Stop(r) ==
  /\ work[r] # None
  /\ stopped' = stopped \cup {r}
  /\ UNCHANGED <<slot, work>>

\* A run leaves its work, and its slot with it if it still has it; one that
\* dies leaves the slot behind.
Leave(r) ==
  /\ work[r] # None
  /\ work' = [work EXCEPT ![r] = None]
  /\ stopped' = stopped \ {r}
  /\ \/ UNCHANGED slot
     \/ slot[work[r]] = r /\ slot' = [slot EXCEPT ![work[r]] = None]

\* The process is gone, and every slot and run with it.
Crash ==
  /\ slot' = [s \in Session |-> None]
  /\ work' = [r \in RunId |-> None]
  /\ stopped' = {}

Next ==
  \/ GiveUp \/ Crash
  \/ \E r \in RunId : Stop(r) \/ Leave(r) \/ \E s \in Session : Take(s, r)

Spec == Init /\ [][Next]_vars
=============================================================================
