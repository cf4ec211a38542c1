-------------------------------- MODULE Agents --------------------------------
(***************************************************************************)
(* The processes of one ACP agent (acp.rs): opened for a turn, parked when *)
(* it is Completed so that the next turn of the conversation goes straight *)
(* to the prompt (LIVE), or, for an agent slow to start, warmed up ahead   *)
(* (WARM); and killed by timers, by a limit, by the settings and by drops. *)
(* With them the tokens of mcp_host.rs, by which a process reaches the     *)
(* tools of the run that uses it.                                          *)
(*                                                                         *)
(* A run is one run_turn, the driver, and EngineRun::turn around it, which *)
(* registers the tools.  kill aborts the one and not the other.  Every     *)
(* session has had a turn, so that its conversation has an id.             *)
(***************************************************************************)
EXTENDS Naturals, FiniteSets

CONSTANTS
  Process, Run, Session, Folder,
  Kinds,      \* the agents looked at: pairs of slow_start and can_resume
  LiveMax,    \* LIVE_MAX
  MaxParks,   \* bound: processes parked
  None

ASSUME NoneAssumption == None \notin Run \cup {"warm_up"} /\ "warm_up" \notin Run
ASSUME KindsAssumption == Kinds \subseteq BOOLEAN \X BOOLEAN
ASSUME BoundAssumption == LiveMax \in Nat \ {0} /\ MaxParks \in Nat

VARIABLES
  slow, resumes,   \* the agent is slow_start, and can_resume
  os,         \* a process: unused, up, asks (and nobody is there), gone
  user,       \* the run it works for, "warm_up", or None
  knows,      \* history: how many prompts of its conversation it has seen
  live,       \* LIVE: [p, id, n, sid, cwd], in the order of their ids
  warm,       \* WARM: [p, id, n], in that order too
  timers,     \* the timers of both: [id, n]
  nextId,     \* WARM_ID
  parks,      \* history: processes parked so far
  warming,    \* WARMING
  at,         \* a driver: idle, looks, connects, opens, setup, turn, over
  wrap,       \* EngineRun::turn around it: idle, on, off
  session, place,  \* a run's session, and its spec.cwd
  cancelled,
  folder,     \* cwd of a session, None once it is deleted
  heard,      \* history: prompts of a session's conversation
  moved,      \* history: sessions that went to another folder
  tools       \* runs of McpHost: the run behind a session's token, or None

agent == <<slow, resumes>>
lists == <<live, warm, timers, nextId, parks>>
runs == <<at, wrap, session, place, cancelled>>
sessions == <<folder, heard, moved>>
vars == <<agent, os, user, knows, lists, warming, runs, sessions, tools>>

Live == [p : Process, id : Nat, n : Nat, sid : Session, cwd : Folder]
Warm == [p : Process, id : Nat, n : Nat]
Entries == live \cup warm
Parked(p) == \E e \in Entries : e.p = p

TypeOK ==
  /\ slow \in BOOLEAN /\ resumes \in BOOLEAN
  /\ os \in [Process -> {"unused", "up", "asks", "gone"}]
  /\ user \in [Process -> Run \cup {"warm_up", None}]
  /\ knows \in [Process -> Nat]
  /\ live \subseteq Live /\ warm \subseteq Warm
  /\ timers \subseteq [id : Nat, n : Nat]
  /\ nextId \in Nat /\ parks \in 0 .. MaxParks
  /\ warming \in BOOLEAN
  /\ at \in [Run -> {"idle", "looks", "connects", "opens", "setup", "turn", "over"}]
  /\ wrap \in [Run -> {"idle", "on", "off"}]
  /\ session \in [Run -> Session \cup {None}] /\ place \in [Run -> Folder \cup {None}]
  /\ cancelled \in [Run -> BOOLEAN]
  /\ folder \in [Session -> Folder \cup {None}]
  /\ heard \in [Session -> Nat] /\ moved \subseteq Session
  /\ tools \in [Session -> Run \cup {None}]

Init ==
  /\ \E k \in Kinds : slow = k[1] /\ resumes = k[2]
  /\ os = [p \in Process |-> "unused"]
  /\ user = [p \in Process |-> None]
  /\ knows = [p \in Process |-> 0]
  /\ live = {} /\ warm = {} /\ timers = {} /\ nextId = 0 /\ parks = 0
  /\ warming = FALSE
  /\ at = [r \in Run |-> "idle"] /\ wrap = [r \in Run |-> "idle"]
  /\ session = [r \in Run |-> None] /\ place = [r \in Run |-> None]
  /\ cancelled = [r \in Run |-> FALSE]
  /\ folder \in [Session -> Folder]
  /\ heard = [s \in Session |-> 0] /\ moved = {}
  /\ tools = [s \in Session |-> None]

(***************************************************************************)
(* Processes                                                               *)
(***************************************************************************)
\* Proc::spawn.
Spawn(who) ==
  \E p \in Process :
    /\ os[p] = "unused"
    /\ os' = [os EXCEPT ![p] = "up"]
    /\ user' = [user EXCEPT ![p] = who]

\* Proc::kill, or Proc::drop, which leaves it to a thread: the process is done
\* with, and reached a little later.
Kill(ps) ==
  /\ os' = [p \in Process |-> IF p \in ps THEN "gone" ELSE os[p]]
  /\ user' = [p \in Process |-> IF p \in ps THEN None ELSE user[p]]

Procs(es) == {e.p : e \in es}
Of(r) == {p \in Process : user[p] = r}

\* It exits by itself.
Exit(p) ==
  /\ os[p] \in {"up", "asks"}
  /\ os' = [os EXCEPT ![p] = "gone"]
  /\ UNCHANGED <<agent, user, knows, lists, warming, runs, sessions, tools>>

\* A subagent that works on asks for a permission, and no turn is there.
AskParked(p) ==
  /\ os[p] = "up" /\ Parked(p)
  /\ os' = [os EXCEPT ![p] = "asks"]
  /\ UNCHANGED <<agent, user, knows, lists, warming, runs, sessions, tools>>

\* What take_live and take_warm hand out.
Usable(p) == os[p] = "up"

(***************************************************************************)
(* Parking                                                                 *)
(***************************************************************************)
\* Broken: the number of a parking is not its own.
SetTimerAgain ==
  /\ parks < MaxParks
  /\ timers' = timers \cup {[id |-> nextId, n |-> parks + 1]}
  /\ parks' = parks + 1
  /\ nextId' = nextId

SetTimer ==
  /\ parks < MaxParks
  /\ timers' = timers \cup {[id |-> nextId, n |-> parks + 1]}
  /\ parks' = parks + 1
  /\ nextId' = nextId + 1

\* park_live: LIVE has room for LiveMax, and the oldest are dropped.
ParkLive(p, sid, dir) ==
  LET over == {e \in live : Cardinality({f \in live : e.id <= f.id}) >= LiveMax} IN
  /\ live' = (live \ over) \cup
               {[p |-> p, id |-> nextId, n |-> parks + 1, sid |-> sid, cwd |-> dir]}
  /\ os' = [q \in Process |-> IF q \in Procs(over) THEN "gone" ELSE os[q]]
  /\ user' = [user EXCEPT ![p] = None]
  /\ SetTimer
  /\ UNCHANGED warm

\* park.
ParkWarm(p) ==
  /\ warm' = warm \cup {[p |-> p, id |-> nextId, n |-> parks + 1]}
  /\ user' = [user EXCEPT ![p] = None]
  /\ SetTimer
  /\ UNCHANGED <<live, os>>

Without(es) ==
  /\ live' = live \ es
  /\ warm' = warm \ es
  /\ Kill(Procs(es))

\* LIVE_FOR and WARM_FOR.
Expire(t) ==
  /\ timers' = timers \ {t}
  /\ Without({e \in Entries : e.id = t.id})
  /\ UNCHANGED <<agent, knows, nextId, parks, warming, runs, sessions, tools>>

(***************************************************************************)
(* The run around a turn                                                   *)
(***************************************************************************)
\* Broken: it does not matter who runs.
ClaimsAnyhow(s) == TRUE

\* kill waits for a run before it leaves it; but a kill that comes before the
\* task is in the handle does not wait.
Claims(s) ==
  \A r \in Run : session[r] = s /\ wrap[r] = "on" =>
    cancelled[r] /\ at[r] \in {"looks", "connects", "opens", "setup"}

\* The token of a session stays the same; the host behind it is the newest.
Begin(r, s) ==
  /\ at[r] = "idle" /\ folder[s] # None /\ Claims(s)
  /\ at' = [at EXCEPT ![r] = "looks"]
  /\ wrap' = [wrap EXCEPT ![r] = "on"]
  /\ session' = [session EXCEPT ![r] = s]
  /\ place' = [place EXCEPT ![r] = folder[s]]
  /\ tools' = [tools EXCEPT ![s] = r]
  /\ UNCHANGED <<agent, os, user, knows, lists, warming, cancelled, sessions>>

Cancel(r) ==
  /\ wrap[r] = "on" /\ ~cancelled[r]
  /\ cancelled' = [cancelled EXCEPT ![r] = TRUE]
  /\ UNCHANGED <<agent, os, user, knows, lists, warming, at, wrap, session, place, sessions,
                 tools>>

\* Broken: whoever is behind the token.
UnregisterAny(r) == tools' = [tools EXCEPT ![session[r]] = None]

\* Registration::drop.
Unregister(r) ==
  tools' = IF tools[session[r]] = r THEN [tools EXCEPT ![session[r]] = None] ELSE tools

\* The driver is done, or kill aborts the run and leaves the driver to itself.
Leave(r) ==
  /\ wrap[r] = "on" /\ (at[r] = "over" \/ cancelled[r])
  /\ wrap' = [wrap EXCEPT ![r] = "off"]
  /\ Unregister(r)
  /\ UNCHANGED <<agent, os, user, knows, lists, warming, at, session, place, cancelled,
                 sessions>>

\* project.switch and project.create: a turn takes its session elsewhere.
Move(r, f) ==
  /\ at[r] = "turn" /\ tools[session[r]] = r /\ folder[session[r]] \notin {f, None}
  /\ folder' = [folder EXCEPT ![session[r]] = f]
  /\ moved' = moved \cup {session[r]}
  /\ UNCHANGED <<agent, os, user, knows, lists, warming, runs, heard, tools>>

(***************************************************************************)
(* run_turn                                                                *)
(***************************************************************************)
Step(r, a) == at' = [at EXCEPT ![r] = a]
driving == <<agent, timers, nextId, parks, warming, wrap, session, place, cancelled,
             sessions, tools>>

Matches(r, e) == e.sid = session[r] /\ e.cwd = place[r]

\* take_live: the first that matches, and no other if that one is no good.
TakeLive(r) ==
  /\ at[r] = "looks"
  /\ \E e \in live :
       /\ Matches(r, e)
       /\ \A f \in live : Matches(r, f) => e.id <= f.id
       /\ live' = live \ {e}
       /\ IF Usable(e.p)
          THEN Step(r, "setup") /\ user' = [user EXCEPT ![e.p] = r] /\ UNCHANGED os
          ELSE Step(r, "connects") /\ Kill({e.p})
  /\ UNCHANGED <<driving, knows, warm>>

FindNone(r) ==
  /\ at[r] = "looks"
  /\ \A e \in live : ~Matches(r, e)
  /\ Step(r, "connects")
  /\ UNCHANGED <<driving, os, user, knows, live, warm>>

\* take_warm: what is no good is dropped on the way.
TakeWarm(r) ==
  /\ at[r] = "connects" /\ ~cancelled[r] /\ slow
  /\ \E e \in warm :
       LET older == {f \in warm : f.id < e.id} IN
       /\ Usable(e.p)
       /\ \A f \in older : ~Usable(f.p)
       /\ warm' = warm \ (older \cup {e})
       /\ os' = [p \in Process |-> IF p \in Procs(older) THEN "gone" ELSE os[p]]
       /\ user' = [user EXCEPT ![e.p] = r]
  /\ Step(r, "opens")
  /\ UNCHANGED <<driving, knows, live>>

DropWarm(r) ==
  /\ at[r] = "connects" /\ ~cancelled[r] /\ slow /\ warm # {}
  /\ \A e \in warm : ~Usable(e.p)
  /\ warm' = {}
  /\ Kill(Procs(warm))
  /\ UNCHANGED <<driving, at, knows, live>>

Open(r) ==
  /\ at[r] = "connects" /\ ~cancelled[r] /\ (slow => warm = {})
  /\ Spawn(r)
  /\ Step(r, "opens")
  /\ UNCHANGED <<agent, knows, lists, warming, wrap, session, place, cancelled, sessions,
                 tools>>

\* initialize, and the conversation resumed from what the agent keeps of it.
Opened(r, p) ==
  /\ at[r] = "opens" /\ ~cancelled[r] /\ user[p] = r /\ os[p] = "up"
  /\ knows' = [knows EXCEPT ![p] = heard[session[r]]]
  /\ Step(r, "setup")
  /\ UNCHANGED <<driving, os, user, live, warm>>

Prompt(r, p) ==
  /\ at[r] = "setup" /\ ~cancelled[r] /\ user[p] = r
  /\ heard' = [heard EXCEPT ![session[r]] = @ + 1]
  /\ knows' = [knows EXCEPT ![p] = @ + 1]
  /\ Step(r, "turn")
  /\ UNCHANGED <<agent, os, user, lists, warming, wrap, session, place,
                 cancelled, folder, moved, tools>>

\* Interrupted and failed, or dropped: by or_cancel, or by the run when the
\* agent is quiet for too long.
Break(r) ==
  /\ at[r] \in {"connects", "opens", "setup", "turn"}
  /\ Step(r, "over")
  /\ Kill(Of(r))
  /\ UNCHANGED <<driving, knows, live, warm>>

\* Broken: the turn is over and nobody has the process.
CompleteForgets(r, p) ==
  /\ at[r] = "turn" /\ wrap[r] = "on" /\ user[p] = r
  /\ Step(r, "over")
  /\ IF resumes THEN ParkLive(p, session[r], place[r])
     ELSE IF slow THEN ParkWarm(p)
     ELSE user' = [user EXCEPT ![p] = None] /\ UNCHANGED <<os, lists>>
  /\ UNCHANGED <<agent, knows, warming, wrap, session, place, cancelled, sessions,
                 tools>>

\* release: a process that cannot resume is kept for its slow start only.
\* When kill gives up waiting, the time a stop has is over: no Completed then.
Complete(r, p) ==
  /\ at[r] = "turn" /\ wrap[r] = "on" /\ user[p] = r
  /\ Step(r, "over")
  /\ IF resumes THEN ParkLive(p, session[r], place[r])
     ELSE IF slow THEN ParkWarm(p)
     ELSE Kill({p}) /\ UNCHANGED lists
  /\ UNCHANGED <<agent, knows, warming, wrap, session, place, cancelled, sessions,
                 tools>>

(***************************************************************************)
(* Warming up, and what empties the lists                                  *)
(***************************************************************************)
WarmUp ==
  /\ slow /\ warm = {} /\ ~warming
  /\ warming' = TRUE
  /\ Spawn("warm_up")
  /\ UNCHANGED <<agent, knows, lists, runs, sessions, tools>>

\* It has learned the models, or not.
WarmedUp(p) ==
  /\ user[p] = "warm_up"
  /\ warming' = FALSE
  /\ \/ os[p] = "up" /\ ParkWarm(p)
     \/ Kill({p}) /\ UNCHANGED lists
  /\ UNCHANGED <<agent, knows, runs, sessions, tools>>

\* What agents may bill has changed.
DropParked ==
  /\ Entries # {}
  /\ Without(Entries)
  /\ UNCHANGED <<agent, knows, timers, nextId, parks, warming, runs, sessions, tools>>

\* delete_thread, and drop_live_in if that leaves nobody in the folder.
Delete(s) ==
  /\ folder[s] # None
  /\ \A r \in Run : session[r] = s => wrap[r] # "on"
  /\ folder' = [folder EXCEPT ![s] = None]
  /\ IF \E t \in Session \ {s} : folder[t] = folder[s]
     THEN UNCHANGED <<live, warm, os, user>>
     ELSE Without({e \in live : e.cwd = folder[s]})
  /\ UNCHANGED <<agent, knows, timers, nextId, parks, warming, runs, heard, moved,
                 tools>>

Turn(r) ==
  \/ TakeLive(r) \/ FindNone(r) \/ TakeWarm(r) \/ DropWarm(r) \/ Open(r) \/ Break(r)
  \/ \E p \in Process : Opened(r, p) \/ Prompt(r, p) \/ Complete(r, p)

Next ==
  \/ \E p \in Process : Exit(p) \/ AskParked(p) \/ WarmedUp(p)
  \/ \E t \in timers : Expire(t)
  \/ \E r \in Run :
       \/ Cancel(r) \/ Leave(r) \/ Turn(r)
       \/ \E s \in Session : Begin(r, s)
       \/ \E f \in Folder : Move(r, f)
  \/ WarmUp
  \/ DropParked
  \/ \E s \in Session : Delete(s)

Spec == Init /\ [][Next]_vars

(***************************************************************************)
(* Timers fire, warming up has limits, and a stopped turn ends (Turns).    *)
(* Nothing says that a turn nobody stops ends.                             *)
(***************************************************************************)
Fairness ==
  /\ \A n \in 1 .. MaxParks : WF_vars(\E t \in timers : t.n = n /\ Expire(t))
  /\ \A p \in Process : WF_vars(WarmedUp(p))
  /\ \A r \in Run : WF_vars(cancelled[r] /\ Break(r))

LiveSpec == Spec /\ Fairness

(***************************************************************************)
(* Properties                                                              *)
(***************************************************************************)
\* The tools of a session are those of the run that works: a run that was
\* stopped and gives its registration back later does not take them away.
TurnHasTools ==
  \A r \in Run : wrap[r] = "on" /\ ~cancelled[r] => tools[session[r]] = r

\* A process that is used again has seen all of its conversation: while it was
\* parked no other process had a turn of it.  A session that went to another
\* folder and came back is the exception.
Remembers ==
  \A r \in Run, p \in Process :
    at[r] = "turn" /\ wrap[r] = "on" /\ user[p] = r /\ session[r] \notin moved =>
      knows[p] = heard[session[r]]

\* A timer ends the parking it was set for: a process that was used and parked
\* again has its whole time.
TimersSpare ==
  [][\A t \in timers \ timers' : \A e \in Entries : e \notin Entries' => e.n = t.n]_vars

\* Nobody's process goes on: once no run that is wanted uses it, it is parked
\* and then gone, or a turn takes it.
ProcessesGo ==
  \A p \in Process :
    os[p] = "up" ~> (os[p] = "gone" \/ \E r \in Run : user[p] = r /\ ~cancelled[r])
===============================================================================
