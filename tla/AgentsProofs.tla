------------------------------ MODULE AgentsProofs ------------------------------
(***************************************************************************)
(* Proofs about Agents, for any processes, runs, sessions and folders, any *)
(* kinds of agents, any room in LIVE and any number of parkings.           *)
(***************************************************************************)
EXTENDS Agents, TLAPS

On(r) == wrap[r] = "on"
Driven(r) == at[r] \in {"looks", "connects", "opens", "setup", "turn"}

\* Its turn goes on, or will unless somebody stops it.
Counts(r) ==
  On(r) /\ (at[r] = "turn" \/ (at[r] \in {"connects", "opens", "setup"} /\ ~cancelled[r]))

\* A run that has a session has a place, and a driver left alone was stopped.
Runs ==
  \A r \in Run :
    /\ at[r] # "idle" => session[r] \in Session /\ place[r] \in Folder
    /\ at[r] = "idle" => wrap[r] = "idle"
    /\ Driven(r) => On(r) \/ cancelled[r]

\* Of two runs of a session one was stopped before its turn began.
OneCounts ==
  \A q, r \in Run :
    q # r /\ On(q) /\ On(r) /\ session[q] = session[r] =>
      (cancelled[q] /\ at[q] # "turn") \/ (cancelled[r] /\ at[r] # "turn")

\* A process has one user, a driver one process, and a parked process no user.
Users ==
  /\ \A p \in Process : user[p] \in Run => at[user[p]] \in {"opens", "setup", "turn"}
  /\ \A p, q \in Process : user[p] \in Run /\ user[p] = user[q] => p = q
  /\ \A p \in Process : os[p] = "unused" => user[p] = None

Places ==
  /\ \A e \in Entries : user[e.p] = None /\ os[e.p] # "unused"
  /\ \A e, f \in live : e.p = f.p => e = f
  /\ \A e, f \in warm : e.p = f.p => e = f
  /\ \A e \in live, f \in warm : e.p # f.p

\* A session that never moved has had one folder.
Homes ==
  /\ \A r \in Run : at[r] # "idle" /\ session[r] \notin moved /\ folder[session[r]] # None =>
       place[r] = folder[session[r]]
  /\ \A q, r \in Run : at[q] # "idle" /\ at[r] # "idle" /\ session[q] = session[r]
       /\ session[r] \notin moved => place[q] = place[r]
  /\ \A e \in live, r \in Run : at[r] # "idle" /\ session[r] = e.sid /\ e.sid \notin moved =>
       e.cwd = place[r]
  /\ \A e \in live : e.sid \notin moved /\ folder[e.sid] # None => e.cwd = folder[e.sid]

\* One process holds a conversation, parked or at work, and has seen all of it.
Memory ==
  /\ \A e \in live : e.sid \notin moved => knows[e.p] = heard[e.sid]
  /\ \A e, f \in live : e.sid = f.sid /\ e.sid \notin moved => e = f
  /\ \A r \in Run, e \in live : Counts(r) /\ session[r] \notin moved => e.sid # session[r]
  /\ \A r \in Run, p \in Process :
       Counts(r) /\ at[r] \in {"setup", "turn"} /\ user[p] = r /\ session[r] \notin moved =>
         knows[p] = heard[session[r]]

\* The number of a parking is its own.
Numbers ==
  /\ \A e \in Entries \cup timers : e.id < nextId
  /\ \A e \in Entries, t \in timers : e.id = t.id => e.n = t.n

IInv ==
  /\ TypeOK /\ Runs /\ OneCounts /\ Users /\ Places /\ Homes /\ Memory /\ Numbers
  /\ TurnHasTools

LEMMA ExitStep ==
  ASSUME IInv, NEW p \in Process, Exit(p)
  PROVE  IInv'
<1> USE NoneAssumption, BoundAssumption DEF IInv, agent, lists, runs, sessions, driving
<1>1. TypeOK'
  BY DEF Exit, TypeOK, Entries, Live, Warm, Procs, Runs, Places
<1>2. Runs'
  BY DEF Exit, TypeOK, Runs, On, Driven
<1>3. OneCounts'
  BY DEF Exit, TypeOK, Runs, OneCounts, On, Driven
<1>4. Users'
  BY DEF Exit, TypeOK, Runs, Users, Places, Entries, Procs, Of, Live, Warm
<1>5. Places'
  BY DEF Exit, TypeOK, Users, Places, Entries, Procs, Of, Live, Warm, Runs
<1>6. Homes'
  BY DEF Exit, TypeOK, Runs, Homes, Live
<1>7. Memory'
  BY DEF Exit, TypeOK, Runs, OneCounts, Users, Places, Homes, Memory, Counts, On, Driven,
         Entries, Live
<1>8. Numbers'
  BY DEF Exit, TypeOK, Numbers, Entries, Live, Warm
<1>9. TurnHasTools'
  BY DEF Exit, TypeOK, Runs, TurnHasTools, OneCounts, On, Driven, Places, Entries
<1> QED BY <1>1, <1>2, <1>3, <1>4, <1>5, <1>6, <1>7, <1>8, <1>9 DEF IInv

LEMMA AskParkedStep ==
  ASSUME IInv, NEW p \in Process, AskParked(p)
  PROVE  IInv'
<1> USE NoneAssumption, BoundAssumption DEF IInv, agent, lists, runs, sessions, driving
<1>1. TypeOK'
  BY DEF AskParked, TypeOK, Entries, Live, Warm, Procs, Runs, Places
<1>2. Runs'
  BY DEF AskParked, TypeOK, Runs, On, Driven
<1>3. OneCounts'
  BY DEF AskParked, TypeOK, Runs, OneCounts, On, Driven
<1>4. Users'
  BY DEF AskParked, TypeOK, Runs, Users, Places, Entries, Procs, Of, Live, Warm
<1>5. Places'
  BY DEF AskParked, TypeOK, Users, Places, Entries, Procs, Of, Live, Warm, Runs
<1>6. Homes'
  BY DEF AskParked, TypeOK, Runs, Homes, Live
<1>7. Memory'
  BY DEF AskParked, TypeOK, Runs, OneCounts, Users, Places, Homes, Memory, Counts, On, Driven,
         Entries, Live
<1>8. Numbers'
  BY DEF AskParked, TypeOK, Numbers, Entries, Live, Warm
<1>9. TurnHasTools'
  BY DEF AskParked, TypeOK, Runs, TurnHasTools, OneCounts, On, Driven, Places, Entries
<1> QED BY <1>1, <1>2, <1>3, <1>4, <1>5, <1>6, <1>7, <1>8, <1>9 DEF IInv

LEMMA WarmedUpStep ==
  ASSUME IInv, NEW p \in Process, WarmedUp(p)
  PROVE  IInv'
<1> USE NoneAssumption, BoundAssumption DEF IInv
<1>1. /\ user[p] = "warm_up" /\ warming' = FALSE
      /\ UNCHANGED <<slow, resumes, knows, at, wrap, session, place, cancelled, folder, heard,
                     moved, tools>>
  BY DEF WarmedUp, agent, runs, sessions
<1>2. CASE os[p] = "up" /\ ParkWarm(p)
  <2>1. /\ warm' = warm \cup {[p |-> p, id |-> nextId, n |-> parks + 1]}
        /\ user' = [user EXCEPT ![p] = None] /\ os[p] # "unused"
        /\ timers' = timers \cup {[id |-> nextId, n |-> parks + 1]}
        /\ nextId' = nextId + 1 /\ parks' = parks + 1 /\ parks < MaxParks
        /\ UNCHANGED <<live, os>>
    BY <1>2 DEF ParkWarm, SetTimer
  <2>2. TypeOK'
    <3>1. warm' \subseteq Warm /\ timers' \subseteq [id : Nat, n : Nat]
      BY <2>1 DEF TypeOK, Warm
    <3>2. parks' \in 0 .. MaxParks /\ nextId' \in Nat
      BY <2>1 DEF TypeOK
    <3>3. user' \in [Process -> Run \cup {"warm_up", None}]
      BY <2>1 DEF TypeOK
    <3> QED BY <1>1, <2>1, <3>1, <3>2, <3>3 DEF TypeOK
  <2>3. Runs'
    BY <1>1, <2>1 DEF TypeOK, Runs, On, Driven
  <2>4. OneCounts'
    BY <1>1, <2>1 DEF TypeOK, Runs, OneCounts, On, Driven
  <2>5. Users'
    BY <1>1, <2>1 DEF TypeOK, Runs, Users, Places, Entries
  <2>6. Places'
    BY <1>1, <2>1 DEF TypeOK, Users, Places, Entries, Live, Warm
  <2>7. Homes'
    BY <1>1, <2>1 DEF TypeOK, Runs, Homes, Live
  <2>8. Memory'
    BY <1>1, <2>1 DEF TypeOK, Runs, OneCounts, Users, Places, Homes, Memory, Counts,
       On, Driven, Entries, Live
  <2>9. Numbers'
    BY <1>1, <2>1 DEF TypeOK, Numbers, Entries, Live, Warm
  <2>10. TurnHasTools'
    BY <1>1, <2>1 DEF TypeOK, TurnHasTools
  <2> QED BY <2>2, <2>3, <2>4, <2>5, <2>6, <2>7, <2>8, <2>9, <2>10 DEF IInv
<1>3. CASE Kill({p}) /\ UNCHANGED lists
  <2>1. /\ os' = [q \in Process |-> IF q = p THEN "gone" ELSE os[q]]
        /\ user' = [q \in Process |-> IF q = p THEN None ELSE user[q]]
        /\ UNCHANGED <<live, warm, timers, nextId, parks>>
    BY <1>3 DEF Kill, lists
  <2>2. TypeOK'
    BY <1>1, <2>1 DEF TypeOK, Entries, Live, Warm
  <2>3. Runs'
    BY <1>1, <2>1 DEF TypeOK, Runs, On, Driven
  <2>4. OneCounts'
    BY <1>1, <2>1 DEF TypeOK, Runs, OneCounts, On, Driven
  <2>5. Users'
    BY <1>1, <2>1 DEF TypeOK, Runs, Users, Places, Entries
  <2>6. Places'
    BY <1>1, <2>1 DEF TypeOK, Users, Places, Entries, Live, Warm
  <2>7. Homes'
    BY <1>1, <2>1 DEF TypeOK, Runs, Homes, Live
  <2>8. Memory'
    BY <1>1, <2>1 DEF TypeOK, Runs, OneCounts, Users, Places, Homes, Memory, Counts,
       On, Driven, Entries, Live
  <2>9. Numbers'
    BY <1>1, <2>1 DEF TypeOK, Numbers, Entries, Live, Warm
  <2>10. TurnHasTools'
    BY <1>1, <2>1 DEF TypeOK, TurnHasTools
  <2> QED BY <2>2, <2>3, <2>4, <2>5, <2>6, <2>7, <2>8, <2>9, <2>10 DEF IInv
<1> QED BY <1>2, <1>3 DEF WarmedUp

LEMMA ExpireStep ==
  ASSUME IInv, NEW t \in timers, Expire(t)
  PROVE  IInv'
<1> USE NoneAssumption, BoundAssumption DEF IInv, agent, lists, runs, sessions, driving
<1>1. TypeOK'
  BY DEF Expire, Without, Kill, TypeOK, Entries, Live, Warm, Procs, Runs, Places
<1>2. Runs'
  BY DEF Expire, Without, Kill, TypeOK, Runs, On, Driven
<1>3. OneCounts'
  BY DEF Expire, Without, Kill, TypeOK, Runs, OneCounts, On, Driven
<1>4. Users'
  BY DEF Expire, Without, Kill, TypeOK, Runs, Users, Places, Entries, Procs, Of, Live, Warm
<1>5. Places'
  BY DEF Expire, Without, Kill, TypeOK, Users, Places, Entries, Procs, Of, Live, Warm, Runs
<1>6. Homes'
  BY DEF Expire, Without, Kill, TypeOK, Runs, Homes, Live
<1>7. Memory'
  BY DEF Expire, Without, Kill, TypeOK, Runs, OneCounts, Users, Places, Homes, Memory, Counts,
         On, Driven, Entries, Live
<1>8. Numbers'
  BY DEF Expire, Without, Kill, TypeOK, Numbers, Entries, Live, Warm
<1>9. TurnHasTools'
  BY DEF Expire, Without, Kill, TypeOK, Runs, TurnHasTools, OneCounts, On, Driven, Places,
         Entries
<1> QED BY <1>1, <1>2, <1>3, <1>4, <1>5, <1>6, <1>7, <1>8, <1>9 DEF IInv

LEMMA CancelStep ==
  ASSUME IInv, NEW r \in Run, Cancel(r)
  PROVE  IInv'
<1> USE NoneAssumption, BoundAssumption DEF IInv, agent, lists, runs, sessions, driving
<1>1. TypeOK'
  BY DEF Cancel, TypeOK, Entries, Live, Warm, Procs, Runs, Places
<1>2. Runs'
  BY DEF Cancel, TypeOK, Runs, On, Driven
<1>3. OneCounts'
  BY DEF Cancel, TypeOK, Runs, OneCounts, On, Driven
<1>4. Users'
  BY DEF Cancel, TypeOK, Runs, Users, Places, Entries, Procs, Of, Live, Warm
<1>5. Places'
  BY DEF Cancel, TypeOK, Users, Places, Entries, Procs, Of, Live, Warm, Runs
<1>6. Homes'
  BY DEF Cancel, TypeOK, Runs, Homes, Live
<1>7. Memory'
  BY DEF Cancel, TypeOK, Runs, OneCounts, Users, Places, Homes, Memory, Counts, On, Driven,
         Entries, Live
<1>8. Numbers'
  BY DEF Cancel, TypeOK, Numbers, Entries, Live, Warm
<1>9. TurnHasTools'
  BY DEF Cancel, TypeOK, Runs, TurnHasTools, OneCounts, On, Driven, Places, Entries
<1> QED BY <1>1, <1>2, <1>3, <1>4, <1>5, <1>6, <1>7, <1>8, <1>9 DEF IInv

LEMMA LeaveStep ==
  ASSUME IInv, NEW r \in Run, Leave(r)
  PROVE  IInv'
<1> USE NoneAssumption, BoundAssumption DEF IInv, agent, lists, runs, sessions, driving
<1>1. TypeOK'
  BY DEF Leave, Unregister, TypeOK, Entries, Live, Warm, Procs, Runs, Places
<1>2. Runs'
  BY DEF Leave, Unregister, TypeOK, Runs, On, Driven
<1>3. OneCounts'
  BY DEF Leave, Unregister, TypeOK, Runs, OneCounts, On, Driven
<1>4. Users'
  BY DEF Leave, Unregister, TypeOK, Runs, Users, Places, Entries, Procs, Of, Live, Warm
<1>5. Places'
  BY DEF Leave, Unregister, TypeOK, Users, Places, Entries, Procs, Of, Live, Warm, Runs
<1>6. Homes'
  BY DEF Leave, Unregister, TypeOK, Runs, Homes, Live
<1>7. Memory'
  BY DEF Leave, Unregister, TypeOK, Runs, OneCounts, Users, Places, Homes, Memory, Counts, On,
         Driven, Entries, Live
<1>8. Numbers'
  BY DEF Leave, Unregister, TypeOK, Numbers, Entries, Live, Warm
<1>9. TurnHasTools'
  BY DEF Leave, Unregister, TypeOK, Runs, TurnHasTools, OneCounts, On, Driven, Places, Entries
<1> QED BY <1>1, <1>2, <1>3, <1>4, <1>5, <1>6, <1>7, <1>8, <1>9 DEF IInv

LEMMA BeginStep ==
  ASSUME IInv, NEW r \in Run, NEW s \in Session, Begin(r, s)
  PROVE  IInv'
<1> USE NoneAssumption, BoundAssumption DEF IInv, agent, lists, runs, sessions, driving
<1>1. TypeOK'
  BY DEF Begin, Claims, TypeOK, Entries, Live, Warm, Procs, Runs, Places
<1>2. Runs'
  BY DEF Begin, Claims, TypeOK, Runs, On, Driven
<1>3. OneCounts'
  BY DEF Begin, Claims, TypeOK, Runs, OneCounts, On, Driven
<1>4. Users'
  BY DEF Begin, Claims, TypeOK, Runs, Users, Places, Entries, Procs, Of, Live, Warm
<1>5. Places'
  BY DEF Begin, Claims, TypeOK, Users, Places, Entries, Procs, Of, Live, Warm, Runs
<1>6. Homes'
  BY DEF Begin, Claims, TypeOK, Runs, Homes, Live
<1>7. Memory'
  BY DEF Begin, Claims, TypeOK, Runs, OneCounts, Users, Places, Homes, Memory, Counts, On,
         Driven, Entries, Live
<1>8. Numbers'
  BY DEF Begin, Claims, TypeOK, Numbers, Entries, Live, Warm
<1>9. TurnHasTools'
  BY DEF Begin, Claims, TypeOK, Runs, TurnHasTools, OneCounts, On, Driven, Places, Entries
<1> QED BY <1>1, <1>2, <1>3, <1>4, <1>5, <1>6, <1>7, <1>8, <1>9 DEF IInv

LEMMA MoveStep ==
  ASSUME IInv, NEW r \in Run, NEW f \in Folder, Move(r, f)
  PROVE  IInv'
<1> USE NoneAssumption, BoundAssumption DEF IInv, agent, lists, runs, sessions, driving
<1>1. TypeOK'
  BY DEF Move, TypeOK, Entries, Live, Warm, Procs, Runs, Places
<1>2. Runs'
  BY DEF Move, TypeOK, Runs, On, Driven
<1>3. OneCounts'
  BY DEF Move, TypeOK, Runs, OneCounts, On, Driven
<1>4. Users'
  BY DEF Move, TypeOK, Runs, Users, Places, Entries, Procs, Of, Live, Warm
<1>5. Places'
  BY DEF Move, TypeOK, Users, Places, Entries, Procs, Of, Live, Warm, Runs
<1>6. Homes'
  BY DEF Move, TypeOK, Runs, Homes, Live
<1>7. Memory'
  BY DEF Move, TypeOK, Runs, OneCounts, Users, Places, Homes, Memory, Counts, On, Driven,
         Entries, Live
<1>8. Numbers'
  BY DEF Move, TypeOK, Numbers, Entries, Live, Warm
<1>9. TurnHasTools'
  BY DEF Move, TypeOK, Runs, TurnHasTools, OneCounts, On, Driven, Places, Entries
<1> QED BY <1>1, <1>2, <1>3, <1>4, <1>5, <1>6, <1>7, <1>8, <1>9 DEF IInv

LEMMA TakeLiveStep ==
  ASSUME IInv, NEW r \in Run, TakeLive(r)
  PROVE  IInv'
<1> USE NoneAssumption, BoundAssumption DEF IInv, agent, lists, runs, sessions, driving
<1>1. TypeOK'
  BY DEF TakeLive, Matches, Usable, Step, Kill, TypeOK, Entries, Live, Warm, Procs, Runs, Places
<1>2. Runs'
  BY DEF TakeLive, Matches, Usable, Step, Kill, TypeOK, Runs, On, Driven
<1>3. OneCounts'
  BY DEF TakeLive, Matches, Usable, Step, Kill, TypeOK, Runs, OneCounts, On, Driven
<1>4. Users'
  BY DEF TakeLive, Matches, Usable, Step, Kill, TypeOK, Runs, Users, Places, Entries, Procs,
         Of, Live, Warm
<1>5. Places'
  BY DEF TakeLive, Matches, Usable, Step, Kill, TypeOK, Users, Places, Entries, Procs, Of,
         Live, Warm, Runs
<1>6. Homes'
  BY DEF TakeLive, Matches, Usable, Step, Kill, TypeOK, Runs, Homes, Live
<1>7. Memory'
  BY DEF TakeLive, Matches, Usable, Step, Kill, TypeOK, Runs, OneCounts, Users, Places, Homes,
         Memory, Counts, On, Driven, Entries, Live
<1>8. Numbers'
  BY DEF TakeLive, Matches, Usable, Step, Kill, TypeOK, Numbers, Entries, Live, Warm
<1>9. TurnHasTools'
  BY DEF TakeLive, Matches, Usable, Step, Kill, TypeOK, Runs, TurnHasTools, OneCounts, On,
         Driven, Places, Entries
<1> QED BY <1>1, <1>2, <1>3, <1>4, <1>5, <1>6, <1>7, <1>8, <1>9 DEF IInv

LEMMA FindNoneStep ==
  ASSUME IInv, NEW r \in Run, FindNone(r)
  PROVE  IInv'
<1> USE NoneAssumption, BoundAssumption DEF IInv, agent, lists, runs, sessions, driving
<1>1. TypeOK'
  BY DEF FindNone, Matches, Step, TypeOK, Entries, Live, Warm, Procs, Runs, Places
<1>2. Runs'
  BY DEF FindNone, Matches, Step, TypeOK, Runs, On, Driven
<1>3. OneCounts'
  BY DEF FindNone, Matches, Step, TypeOK, Runs, OneCounts, On, Driven
<1>4. Users'
  BY DEF FindNone, Matches, Step, TypeOK, Runs, Users, Places, Entries, Procs, Of, Live, Warm
<1>5. Places'
  BY DEF FindNone, Matches, Step, TypeOK, Users, Places, Entries, Procs, Of, Live, Warm, Runs
<1>6. Homes'
  BY DEF FindNone, Matches, Step, TypeOK, Runs, Homes, Live
<1>7. Memory'
  BY DEF FindNone, Matches, Step, TypeOK, Runs, OneCounts, Users, Places, Homes, Memory,
         Counts, On, Driven, Entries, Live
<1>8. Numbers'
  BY DEF FindNone, Matches, Step, TypeOK, Numbers, Entries, Live, Warm
<1>9. TurnHasTools'
  BY DEF FindNone, Matches, Step, TypeOK, Runs, TurnHasTools, OneCounts, On, Driven, Places,
         Entries
<1> QED BY <1>1, <1>2, <1>3, <1>4, <1>5, <1>6, <1>7, <1>8, <1>9 DEF IInv

LEMMA TakeWarmStep ==
  ASSUME IInv, NEW r \in Run, TakeWarm(r)
  PROVE  IInv'
<1> USE NoneAssumption, BoundAssumption DEF IInv, agent, lists, runs, sessions, driving
<1>1. TypeOK'
  BY DEF TakeWarm, Usable, Step, TypeOK, Entries, Live, Warm, Procs, Runs, Places
<1>2. Runs'
  BY DEF TakeWarm, Usable, Step, TypeOK, Runs, On, Driven
<1>3. OneCounts'
  BY DEF TakeWarm, Usable, Step, TypeOK, Runs, OneCounts, On, Driven
<1>4. Users'
  BY DEF TakeWarm, Usable, Step, TypeOK, Runs, Users, Places, Entries, Procs, Of, Live, Warm
<1>5. Places'
  BY DEF TakeWarm, Usable, Step, TypeOK, Users, Places, Entries, Procs, Of, Live, Warm, Runs
<1>6. Homes'
  BY DEF TakeWarm, Usable, Step, TypeOK, Runs, Homes, Live
<1>7. Memory'
  BY DEF TakeWarm, Usable, Step, TypeOK, Runs, OneCounts, Users, Places, Homes, Memory,
         Counts, On, Driven, Entries, Live
<1>8. Numbers'
  BY DEF TakeWarm, Usable, Step, TypeOK, Numbers, Entries, Live, Warm
<1>9. TurnHasTools'
  BY DEF TakeWarm, Usable, Step, TypeOK, Runs, TurnHasTools, OneCounts, On, Driven, Places,
         Entries
<1> QED BY <1>1, <1>2, <1>3, <1>4, <1>5, <1>6, <1>7, <1>8, <1>9 DEF IInv

LEMMA DropWarmStep ==
  ASSUME IInv, NEW r \in Run, DropWarm(r)
  PROVE  IInv'
<1> USE NoneAssumption, BoundAssumption DEF IInv, agent, lists, runs, sessions, driving
<1>1. TypeOK'
  BY DEF DropWarm, Usable, Step, Kill, TypeOK, Entries, Live, Warm, Procs, Runs, Places
<1>2. Runs'
  BY DEF DropWarm, Usable, Step, Kill, TypeOK, Runs, On, Driven
<1>3. OneCounts'
  BY DEF DropWarm, Usable, Step, Kill, TypeOK, Runs, OneCounts, On, Driven
<1>4. Users'
  BY DEF DropWarm, Usable, Step, Kill, TypeOK, Runs, Users, Places, Entries, Procs, Of, Live,
         Warm
<1>5. Places'
  BY DEF DropWarm, Usable, Step, Kill, TypeOK, Users, Places, Entries, Procs, Of, Live, Warm,
         Runs
<1>6. Homes'
  BY DEF DropWarm, Usable, Step, Kill, TypeOK, Runs, Homes, Live
<1>7. Memory'
  BY DEF DropWarm, Usable, Step, Kill, TypeOK, Runs, OneCounts, Users, Places, Homes, Memory,
         Counts, On, Driven, Entries, Live
<1>8. Numbers'
  BY DEF DropWarm, Usable, Step, Kill, TypeOK, Numbers, Entries, Live, Warm
<1>9. TurnHasTools'
  BY DEF DropWarm, Usable, Step, Kill, TypeOK, Runs, TurnHasTools, OneCounts, On, Driven,
         Places, Entries
<1> QED BY <1>1, <1>2, <1>3, <1>4, <1>5, <1>6, <1>7, <1>8, <1>9 DEF IInv

LEMMA OpenStep ==
  ASSUME IInv, NEW r \in Run, Open(r)
  PROVE  IInv'
<1> USE NoneAssumption, BoundAssumption DEF IInv, agent, lists, runs, sessions, driving
<1>1. TypeOK'
  BY DEF Open, Spawn, Step, TypeOK, Entries, Live, Warm, Procs, Runs, Places
<1>2. Runs'
  BY DEF Open, Spawn, Step, TypeOK, Runs, On, Driven
<1>3. OneCounts'
  BY DEF Open, Spawn, Step, TypeOK, Runs, OneCounts, On, Driven
<1>4. Users'
  BY DEF Open, Spawn, Step, TypeOK, Runs, Users, Places, Entries, Procs, Of, Live, Warm
<1>5. Places'
  BY DEF Open, Spawn, Step, TypeOK, Users, Places, Entries, Procs, Of, Live, Warm, Runs
<1>6. Homes'
  BY DEF Open, Spawn, Step, TypeOK, Runs, Homes, Live
<1>7. Memory'
  BY DEF Open, Spawn, Step, TypeOK, Runs, OneCounts, Users, Places, Homes, Memory, Counts, On,
         Driven, Entries, Live
<1>8. Numbers'
  BY DEF Open, Spawn, Step, TypeOK, Numbers, Entries, Live, Warm
<1>9. TurnHasTools'
  BY DEF Open, Spawn, Step, TypeOK, Runs, TurnHasTools, OneCounts, On, Driven, Places, Entries
<1> QED BY <1>1, <1>2, <1>3, <1>4, <1>5, <1>6, <1>7, <1>8, <1>9 DEF IInv

LEMMA BreakStep ==
  ASSUME IInv, NEW r \in Run, Break(r)
  PROVE  IInv'
<1> USE NoneAssumption, BoundAssumption DEF IInv, agent, lists, runs, sessions, driving
<1>1. TypeOK'
  BY DEF Break, Step, Kill, TypeOK, Entries, Live, Warm, Procs, Runs, Places
<1>2. Runs'
  BY DEF Break, Step, Kill, TypeOK, Runs, On, Driven
<1>3. OneCounts'
  BY DEF Break, Step, Kill, TypeOK, Runs, OneCounts, On, Driven
<1>4. Users'
  BY DEF Break, Step, Kill, TypeOK, Runs, Users, Places, Entries, Procs, Of, Live, Warm
<1>5. Places'
  BY DEF Break, Step, Kill, TypeOK, Users, Places, Entries, Procs, Of, Live, Warm, Runs
<1>6. Homes'
  BY DEF Break, Step, Kill, TypeOK, Runs, Homes, Live
<1>7. Memory'
  BY DEF Break, Step, Kill, TypeOK, Runs, OneCounts, Users, Places, Homes, Memory, Counts, On,
         Driven, Entries, Live
<1>8. Numbers'
  BY DEF Break, Step, Kill, TypeOK, Numbers, Entries, Live, Warm
<1>9. TurnHasTools'
  BY DEF Break, Step, Kill, TypeOK, Runs, TurnHasTools, OneCounts, On, Driven, Places, Entries
<1> QED BY <1>1, <1>2, <1>3, <1>4, <1>5, <1>6, <1>7, <1>8, <1>9 DEF IInv

LEMMA OpenedStep ==
  ASSUME IInv, NEW r \in Run, NEW p \in Process, Opened(r, p)
  PROVE  IInv'
<1> USE NoneAssumption, BoundAssumption DEF IInv, agent, lists, runs, sessions, driving
<1>1. TypeOK'
  BY DEF Opened, Step, TypeOK, Entries, Live, Warm, Procs, Runs, Places
<1>2. Runs'
  BY DEF Opened, Step, TypeOK, Runs, On, Driven
<1>3. OneCounts'
  BY DEF Opened, Step, TypeOK, Runs, OneCounts, On, Driven
<1>4. Users'
  BY DEF Opened, Step, TypeOK, Runs, Users, Places, Entries, Procs, Of, Live, Warm
<1>5. Places'
  BY DEF Opened, Step, TypeOK, Users, Places, Entries, Procs, Of, Live, Warm, Runs
<1>6. Homes'
  BY DEF Opened, Step, TypeOK, Runs, Homes, Live
<1>7. Memory'
  BY DEF Opened, Step, TypeOK, Runs, OneCounts, Users, Places, Homes, Memory, Counts, On,
         Driven, Entries, Live
<1>8. Numbers'
  BY DEF Opened, Step, TypeOK, Numbers, Entries, Live, Warm
<1>9. TurnHasTools'
  BY DEF Opened, Step, TypeOK, Runs, TurnHasTools, OneCounts, On, Driven, Places, Entries
<1> QED BY <1>1, <1>2, <1>3, <1>4, <1>5, <1>6, <1>7, <1>8, <1>9 DEF IInv

LEMMA PromptStep ==
  ASSUME IInv, NEW r \in Run, NEW p \in Process, Prompt(r, p)
  PROVE  IInv'
<1> USE NoneAssumption, BoundAssumption DEF IInv, agent, lists, runs, sessions, driving
<1>1. TypeOK'
  BY DEF Prompt, Step, TypeOK, Entries, Live, Warm, Procs, Runs, Places
<1>2. Runs'
  BY DEF Prompt, Step, TypeOK, Runs, On, Driven
<1>3. OneCounts'
  BY DEF Prompt, Step, TypeOK, Runs, OneCounts, On, Driven
<1>4. Users'
  BY DEF Prompt, Step, TypeOK, Runs, Users, Places, Entries, Procs, Of, Live, Warm
<1>5. Places'
  BY DEF Prompt, Step, TypeOK, Users, Places, Entries, Procs, Of, Live, Warm, Runs
<1>6. Homes'
  BY DEF Prompt, Step, TypeOK, Runs, Homes, Live
<1>7. Memory'
  BY DEF Prompt, Step, TypeOK, Runs, OneCounts, Users, Places, Homes, Memory, Counts, On,
         Driven, Entries, Live
<1>8. Numbers'
  BY DEF Prompt, Step, TypeOK, Numbers, Entries, Live, Warm
<1>9. TurnHasTools'
  BY DEF Prompt, Step, TypeOK, Runs, TurnHasTools, OneCounts, On, Driven, Places, Entries
<1> QED BY <1>1, <1>2, <1>3, <1>4, <1>5, <1>6, <1>7, <1>8, <1>9 DEF IInv

LEMMA CompleteStep ==
  ASSUME IInv, NEW r \in Run, NEW p \in Process, Complete(r, p)
  PROVE  IInv'
<1> USE NoneAssumption, BoundAssumption DEF IInv
<1>1. /\ at[r] = "turn" /\ wrap[r] = "on" /\ user[p] = r
      /\ at' = [at EXCEPT ![r] = "over"]
      /\ UNCHANGED <<slow, resumes, knows, warming, wrap, session, place, cancelled, folder,
                     heard, moved, tools>>
  BY DEF Complete, Step, agent, sessions
<1>2. CASE resumes
  <2> DEFINE new == [p |-> p, id |-> nextId, n |-> parks + 1, sid |-> session[r], cwd |-> place[r]]
  <2>1. /\ live' \subseteq live \cup {new}
        /\ user' = [user EXCEPT ![p] = None]
        /\ \A q \in Process : os'[q] \in {os[q], "gone"}
        /\ os' \in [Process -> {"unused", "up", "asks", "gone"}]
        /\ timers' = timers \cup {[id |-> nextId, n |-> parks + 1]}
        /\ nextId' = nextId + 1 /\ parks' = parks + 1 /\ parks < MaxParks
        /\ UNCHANGED warm
    <3> DEFINE over == {e \in live : Cardinality({f \in live : e.id <= f.id}) >= LiveMax}
    <3>1. /\ live' = (live \ over) \cup {new}
          /\ os' = [q \in Process |-> IF q \in Procs(over) THEN "gone" ELSE os[q]]
          /\ user' = [user EXCEPT ![p] = None] /\ SetTimer /\ UNCHANGED warm
      BY <1>2 DEF Complete, ParkLive
    <3> HIDE DEF over, new
    <3> QED BY <3>1 DEF SetTimer, TypeOK
  <2>2. /\ os[p] # "unused" /\ \A e \in Entries : e.p # p
        /\ session[r] \in Session /\ place[r] \in Folder
    BY <1>1 DEF Users, Places, Runs
  <2>3. new \in Live
    BY <2>2 DEF Live, TypeOK
  <2> HIDE DEF new
  <2>4. /\ new.p = p /\ new.id = nextId /\ new.n = parks + 1
        /\ new.sid = session[r] /\ new.cwd = place[r]
    BY DEF new
  <2>5. TypeOK'
    BY <1>1, <2>1, <2>2, <2>3, <2>4 DEF TypeOK, Entries, Live, Warm
  <2>6. Runs'
    BY <1>1, <2>1, <2>2, <2>3, <2>4 DEF TypeOK, Runs, On, Driven
  <2>7. OneCounts'
    BY <1>1, <2>1, <2>2, <2>3, <2>4 DEF TypeOK, Runs, OneCounts, On, Driven
  <2>8. Users'
    BY <1>1, <2>1, <2>2, <2>3, <2>4 DEF TypeOK, Runs, Users, Places, Entries
  <2>9. Places'
    BY <1>1, <2>1, <2>2, <2>3, <2>4 DEF TypeOK, Users, Places, Entries, Live, Warm
  <2>10. Homes'
    BY <1>1, <2>1, <2>2, <2>3, <2>4 DEF TypeOK, Runs, Homes, Live
  <2>11. Memory'
    BY <1>1, <2>1, <2>2, <2>3, <2>4 DEF TypeOK, Runs, OneCounts, Users, Places, Homes,
       Memory, Counts, On, Driven, Entries, Live
  <2>12. Numbers'
    BY <1>1, <2>1, <2>2, <2>3, <2>4 DEF TypeOK, Numbers, Entries, Live, Warm
  <2>13. TurnHasTools'
    BY <1>1, <2>1, <2>2, <2>3, <2>4 DEF TypeOK, TurnHasTools
  <2> QED BY <2>5, <2>6, <2>7, <2>8, <2>9, <2>10, <2>11, <2>12, <2>13 DEF IInv
<1>3. CASE ~resumes /\ slow
  <2>1. /\ warm' = warm \cup {[p |-> p, id |-> nextId, n |-> parks + 1]}
        /\ user' = [user EXCEPT ![p] = None] /\ os[p] # "unused"
        /\ timers' = timers \cup {[id |-> nextId, n |-> parks + 1]}
        /\ nextId' = nextId + 1 /\ parks' = parks + 1 /\ parks < MaxParks
        /\ UNCHANGED <<live, os>>
    BY <1>1, <1>3 DEF Complete, ParkWarm, SetTimer, Users
  <2>2. TypeOK'
    BY <1>1, <2>1 DEF TypeOK, Entries, Live, Warm
  <2>3. Runs'
    BY <1>1, <2>1 DEF TypeOK, Runs, On, Driven
  <2>4. OneCounts'
    BY <1>1, <2>1 DEF TypeOK, Runs, OneCounts, On, Driven
  <2>5. Users'
    BY <1>1, <2>1 DEF TypeOK, Runs, Users, Places, Entries
  <2>6. Places'
    BY <1>1, <2>1 DEF TypeOK, Users, Places, Entries, Live, Warm
  <2>7. Homes'
    BY <1>1, <2>1 DEF TypeOK, Runs, Homes, Live
  <2>8. Memory'
    BY <1>1, <2>1 DEF TypeOK, Runs, OneCounts, Users, Places, Homes, Memory, Counts,
       On, Driven, Entries, Live
  <2>9. Numbers'
    BY <1>1, <2>1 DEF TypeOK, Numbers, Entries, Live, Warm
  <2>10. TurnHasTools'
    BY <1>1, <2>1 DEF TypeOK, TurnHasTools
  <2> QED BY <2>2, <2>3, <2>4, <2>5, <2>6, <2>7, <2>8, <2>9, <2>10 DEF IInv
<1>4. CASE ~resumes /\ ~slow
  <2>1. /\ os' = [q \in Process |-> IF q = p THEN "gone" ELSE os[q]]
        /\ user' = [q \in Process |-> IF q = p THEN None ELSE user[q]]
        /\ UNCHANGED <<live, warm, timers, nextId, parks>>
    BY <1>4 DEF Complete, Kill, lists
  <2>2. TypeOK'
    BY <1>1, <2>1 DEF TypeOK, Entries, Live, Warm
  <2>3. Runs'
    BY <1>1, <2>1 DEF TypeOK, Runs, On, Driven
  <2>4. OneCounts'
    BY <1>1, <2>1 DEF TypeOK, Runs, OneCounts, On, Driven
  <2>5. Users'
    BY <1>1, <2>1 DEF TypeOK, Runs, Users, Places, Entries
  <2>6. Places'
    BY <1>1, <2>1 DEF TypeOK, Users, Places, Entries, Live, Warm
  <2>7. Homes'
    BY <1>1, <2>1 DEF TypeOK, Runs, Homes, Live
  <2>8. Memory'
    BY <1>1, <2>1 DEF TypeOK, Runs, OneCounts, Users, Places, Homes, Memory, Counts,
       On, Driven, Entries, Live
  <2>9. Numbers'
    BY <1>1, <2>1 DEF TypeOK, Numbers, Entries, Live, Warm
  <2>10. TurnHasTools'
    BY <1>1, <2>1 DEF TypeOK, TurnHasTools
  <2> QED BY <2>2, <2>3, <2>4, <2>5, <2>6, <2>7, <2>8, <2>9, <2>10 DEF IInv
<1> QED BY <1>2, <1>3, <1>4 DEF TypeOK

LEMMA WarmUpStep ==
  ASSUME IInv, WarmUp
  PROVE  IInv'
<1> USE NoneAssumption, BoundAssumption DEF IInv, agent, lists, runs, sessions, driving
<1>1. TypeOK'
  BY DEF WarmUp, Spawn, TypeOK, Entries, Live, Warm, Procs, Runs, Places
<1>2. Runs'
  BY DEF WarmUp, Spawn, TypeOK, Runs, On, Driven
<1>3. OneCounts'
  BY DEF WarmUp, Spawn, TypeOK, Runs, OneCounts, On, Driven
<1>4. Users'
  BY DEF WarmUp, Spawn, TypeOK, Runs, Users, Places, Entries, Procs, Of, Live, Warm
<1>5. Places'
  BY DEF WarmUp, Spawn, TypeOK, Users, Places, Entries, Procs, Of, Live, Warm, Runs
<1>6. Homes'
  BY DEF WarmUp, Spawn, TypeOK, Runs, Homes, Live
<1>7. Memory'
  BY DEF WarmUp, Spawn, TypeOK, Runs, OneCounts, Users, Places, Homes, Memory, Counts, On,
         Driven, Entries, Live
<1>8. Numbers'
  BY DEF WarmUp, Spawn, TypeOK, Numbers, Entries, Live, Warm
<1>9. TurnHasTools'
  BY DEF WarmUp, Spawn, TypeOK, Runs, TurnHasTools, OneCounts, On, Driven, Places, Entries
<1> QED BY <1>1, <1>2, <1>3, <1>4, <1>5, <1>6, <1>7, <1>8, <1>9 DEF IInv

LEMMA DropParkedStep ==
  ASSUME IInv, DropParked
  PROVE  IInv'
<1> USE NoneAssumption, BoundAssumption DEF IInv, agent, lists, runs, sessions, driving
<1>1. TypeOK'
  BY DEF DropParked, Without, Kill, TypeOK, Entries, Live, Warm, Procs, Runs, Places
<1>2. Runs'
  BY DEF DropParked, Without, Kill, TypeOK, Runs, On, Driven
<1>3. OneCounts'
  BY DEF DropParked, Without, Kill, TypeOK, Runs, OneCounts, On, Driven
<1>4. Users'
  BY DEF DropParked, Without, Kill, TypeOK, Runs, Users, Places, Entries, Procs, Of, Live, Warm
<1>5. Places'
  BY DEF DropParked, Without, Kill, TypeOK, Users, Places, Entries, Procs, Of, Live, Warm, Runs
<1>6. Homes'
  BY DEF DropParked, Without, Kill, TypeOK, Runs, Homes, Live
<1>7. Memory'
  BY DEF DropParked, Without, Kill, TypeOK, Runs, OneCounts, Users, Places, Homes, Memory,
         Counts, On, Driven, Entries, Live
<1>8. Numbers'
  BY DEF DropParked, Without, Kill, TypeOK, Numbers, Entries, Live, Warm
<1>9. TurnHasTools'
  BY DEF DropParked, Without, Kill, TypeOK, Runs, TurnHasTools, OneCounts, On, Driven, Places,
         Entries
<1> QED BY <1>1, <1>2, <1>3, <1>4, <1>5, <1>6, <1>7, <1>8, <1>9 DEF IInv

LEMMA DeleteStep ==
  ASSUME IInv, NEW s \in Session, Delete(s)
  PROVE  IInv'
<1> USE NoneAssumption, BoundAssumption DEF IInv, agent, lists, runs, sessions, driving
<1>1. TypeOK'
  BY DEF Delete, Without, Kill, TypeOK, Entries, Live, Warm, Procs, Runs, Places
<1>2. Runs'
  BY DEF Delete, Without, Kill, TypeOK, Runs, On, Driven
<1>3. OneCounts'
  BY DEF Delete, Without, Kill, TypeOK, Runs, OneCounts, On, Driven
<1>4. Users'
  BY DEF Delete, Without, Kill, TypeOK, Runs, Users, Places, Entries, Procs, Of, Live, Warm
<1>5. Places'
  BY DEF Delete, Without, Kill, TypeOK, Users, Places, Entries, Procs, Of, Live, Warm, Runs
<1>6. Homes'
  BY DEF Delete, Without, Kill, TypeOK, Runs, Homes, Live
<1>7. Memory'
  <2>1. /\ live' \subseteq live
        /\ \A q \in Process : user'[q] \in {user[q], None}
        /\ UNCHANGED <<knows, heard, moved, at, wrap, session, cancelled>>
    <3>1. /\ UNCHANGED <<knows, heard, moved, at, wrap, session, cancelled>>
          /\ \/ UNCHANGED <<live, user>>
             \/ Without({e \in live : e.cwd = folder[s]})
      BY DEF Delete
    <3>2. CASE Without({e \in live : e.cwd = folder[s]})
      BY <3>1, <3>2 DEF Without, Kill
    <3> QED BY <3>1, <3>2
  <2>2. \A q \in Run : Counts(q)' <=> Counts(q)
    BY <2>1 DEF Counts, On
  <2> QED BY <2>1, <2>2 DEF Memory, TypeOK
<1>8. Numbers'
  BY DEF Delete, Without, Kill, TypeOK, Numbers, Entries, Live, Warm
<1>9. TurnHasTools'
  BY DEF Delete, Without, Kill, TypeOK, Runs, TurnHasTools, OneCounts, On, Driven, Places,
         Entries
<1> QED BY <1>1, <1>2, <1>3, <1>4, <1>5, <1>6, <1>7, <1>8, <1>9 DEF IInv

LEMMA Start == Init => IInv
<1> SUFFICES ASSUME Init PROVE IInv
  OBVIOUS
<1> USE NoneAssumption, BoundAssumption, KindsAssumption DEF Init
<1>1. TypeOK
  <2>1. slow \in BOOLEAN /\ resumes \in BOOLEAN
    OBVIOUS
  <2>2. /\ live \subseteq Live /\ warm \subseteq Warm /\ timers \subseteq [id : Nat, n : Nat]
        /\ nextId \in Nat /\ parks \in 0 .. MaxParks
    OBVIOUS
  <2>3. folder \in [Session -> Folder \cup {None}]
    OBVIOUS
  <2> QED BY <2>1, <2>2, <2>3 DEF TypeOK
<1>2. Runs /\ OneCounts /\ TurnHasTools
  BY DEF Runs, OneCounts, TurnHasTools, On, Driven
<1>3. Users /\ Places
  BY DEF Users, Places, Entries
<1>4. Homes /\ Memory /\ Numbers
  BY DEF Homes, Memory, Numbers, Counts, On, Entries
<1> QED BY <1>1, <1>2, <1>3, <1>4 DEF IInv

LEMMA StepKeeps == IInv /\ [Next]_vars => IInv'
<1> SUFFICES ASSUME IInv, [Next]_vars PROVE IInv'
  OBVIOUS
<1>1. CASE \E p \in Process : Exit(p) \/ AskParked(p) \/ WarmedUp(p)
  BY <1>1, ExitStep, AskParkedStep, WarmedUpStep
<1>2. CASE \E t \in timers : Expire(t)
  BY <1>2, ExpireStep
<1>3. CASE \E r \in Run : Cancel(r) \/ Leave(r)
  BY <1>3, CancelStep, LeaveStep
<1>4. CASE \E r \in Run : \/ \E s \in Session : Begin(r, s)
                          \/ \E f \in Folder : Move(r, f)
  BY <1>4, BeginStep, MoveStep
<1>5. CASE \E r \in Run : Turn(r)
  BY <1>5, TakeLiveStep, FindNoneStep, TakeWarmStep, DropWarmStep, OpenStep, BreakStep,
     OpenedStep, PromptStep, CompleteStep DEF Turn
<1>6. CASE WarmUp \/ DropParked \/ \E s \in Session : Delete(s)
  BY <1>6, WarmUpStep, DropParkedStep, DeleteStep
<1>7. CASE UNCHANGED vars
  BY <1>7 DEF vars, agent, lists, runs, sessions, IInv, TypeOK, Runs, OneCounts, Users, Places,
              Homes, Memory, Numbers, TurnHasTools, On, Driven, Counts, Entries
<1> QED BY <1>1, <1>2, <1>3, <1>4, <1>5, <1>6, <1>7 DEF Next

\* A conversation is in one process at a time, which has seen all of it, and the tools of
\* a session are those of the run that counts (the other theorems follow).
THEOREM Invariance == Spec => []IInv
BY Start, StepKeeps, PTL DEF Spec

\* Every variable keeps its type (LIVE, WARM, the runs and the registrations).
THEOREM TypeCorrect == Spec => []TypeOK
<1>1. IInv => TypeOK
  BY DEF IInv
<1> QED BY <1>1, Invariance, PTL

\* The tools of a session are those of the run that works, whenever runs that were stopped
\* give their registrations back (Registration::drop).
THEOREM ToolsKept == Spec => []TurnHasTools
<1>1. IInv => TurnHasTools
  BY DEF IInv
<1> QED BY <1>1, Invariance, PTL

\* A process that is used again has seen all of its conversation, for any sessions that
\* share any number of parked processes (take_live, park_live).
THEOREM Remembered == Spec => []Remembers
<1>1. IInv => Remembers
  BY DEF IInv, Memory, Counts, On, Remembers
<1> QED BY <1>1, Invariance, PTL

\* A timer ends the parking it was set for, and no later one of the same process
\* (WARM_ID).
THEOREM Spared == Spec => TimersSpare
<1>1. ASSUME IInv, [Next]_vars
      PROVE  [\A t \in timers \ timers' :
                \A e \in Entries : e \notin Entries' => e.n = t.n]_vars
  <2>1. CASE \E t \in timers : Expire(t)
    BY <1>1, <2>1 DEF Expire, Without, Entries, IInv, Numbers
  <2>2. CASE timers \subseteq timers'
    BY <2>2
  <2>3. (\E t \in timers : Expire(t)) \/ timers \subseteq timers'
    <3>1. CASE UNCHANGED vars
      BY <3>1 DEF vars, lists
    <3>2. ASSUME NEW r \in Run, Turn(r) PROVE timers \subseteq timers'
      BY <3>2 DEF Turn, TakeLive, FindNone, TakeWarm, DropWarm, Open, Break, Opened, Prompt,
                  Complete, ParkLive, ParkWarm, SetTimer, driving, lists
    <3>3. ASSUME NEW p \in Process, Exit(p) \/ AskParked(p) \/ WarmedUp(p)
          PROVE  timers \subseteq timers'
      BY <3>3 DEF Exit, AskParked, WarmedUp, ParkWarm, SetTimer, lists
    <3>4. ASSUME NEW r \in Run, \/ Cancel(r) \/ Leave(r)
                                \/ \E s \in Session : Begin(r, s)
                                \/ \E f \in Folder : Move(r, f)
          PROVE  timers \subseteq timers'
      BY <3>4 DEF Cancel, Leave, Begin, Move, lists
    <3>5. CASE WarmUp \/ DropParked \/ \E s \in Session : Delete(s)
      BY <3>5 DEF WarmUp, DropParked, Delete, lists
    <3> QED BY <1>1, <3>1, <3>2, <3>3, <3>4, <3>5 DEF Next
  <2> QED BY <2>1, <2>2, <2>3
<1> QED BY <1>1, Invariance, PTL DEF Spec, TimersSpare
===============================================================================
